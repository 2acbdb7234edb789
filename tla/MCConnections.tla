------------------------------ MODULE MCConnections -------------------------
(***************************************************************************)
(* Small instances of the parts that bring the agent up and connect it:    *)
(* the order of the start and its probes (Startup), the public DID         *)
(* (PublicDid), the outbound and the inbound transports (Transports,       *)
(* WsInbound), the invitations (Invitations), the connections to other     *)
(* agents (PeerConnection) and the listeners of the connection states      *)
(* (ConnectionEvents).                                                     *)
(*                                                                         *)
(* The parts are checked side by side: a behaviour runs one scenario, an   *)
(* instance of one part with its bounds, and leaves the others alone, so   *)
(* that the state spaces add up and do not multiply.                       *)
(***************************************************************************)
EXTENDS WsInbound

CONSTANTS
    m1, m2, m3,   \* distinct values
    MaxAttempts, AttemptCap, MaxBootFails,     \* Startup
    Locations, Endpoints, Legacy, MaxDidFaults,   \* PublicDid
    Senders, MaxSockets, Requests,             \* Transports
    MaxPeers, Reusers, MaxDeletes,             \* Invitations
    Callers, MaxRecords,                       \* PeerConnection
    Conns, MaxListenerFails                    \* ConnectionEvents

ASSUME BootBounds ==
    MaxAttempts \in Nat \ {0} /\ AttemptCap \in Nat \ {0} /\ MaxBootFails \in Nat
\* A DID has a location; "none" is the location of no DID.
ASSUME DidAssumption ==
    "none" \notin Locations /\ Locations # {} /\ Legacy \in BOOLEAN /\ MaxDidFaults \in Nat
ASSUME ConnectionBounds ==
    /\ MaxSockets \in Nat /\ MaxRecords \in Nat /\ MaxListenerFails \in Nat
    /\ MaxPeers \in Nat /\ Reusers \subseteq 1..MaxPeers /\ MaxDeletes \in Nat

VARIABLES
    scenario,   \* what this behaviour runs
    \* Startup
    bootAt, steps, listening, migrationAttempt, inFlight, retry, sync, everSynced,
    ecs, webhook, migrated, posted, bootFailures,
    \* PublicDid
    config, dids, invited, keys, didAt, doc, newKey, didFaults,
    \* Transports
    sockets, idle, table, sender, http, responses, httpSessions,
    \* Invitations
    creating, oob, tagged, short, record, conn, claims, born, millisecond, saving,
    accepting, snapshot, discarding, deletion, deletes,
    \* PeerConnection
    records, tag, calls, attempt, peerStops,
    \* ConnectionEvents
    target, state, announcing, accept, callbacks, query, disclose, ended, events,
    connected, listenerFailures, up

startupVars ==
    <<bootAt, steps, listening, migrationAttempt, inFlight, retry, sync, everSynced,
      ecs, webhook, migrated, posted, bootFailures>>
publicDidVars ==
    <<config, dids, invited, keys, didAt, doc, newKey, didFaults>>
transportsVars ==
    <<sockets, idle, table, sender, http, responses, httpSessions>>
invitationsVars ==
    <<creating, oob, tagged, short, record, conn, claims, born, millisecond, saving,
      accepting, snapshot, discarding, deletion, deletes>>
peerConnectionVars ==
    <<records, tag, calls, attempt, peerStops>>
connectionEventsVars ==
    <<target, state, announcing, accept, callbacks, query, disclose, ended, events,
      connected, listenerFailures, up>>

Boot == INSTANCE Startup WITH
    Overlap <- FALSE, MaxFailures <- MaxBootFails,
    pc <- bootAt, failures <- bootFailures, attempt <- migrationAttempt
Probed == INSTANCE Startup WITH
    MaxAttempts <- 2, Overlap <- FALSE, MaxFailures <- MaxBootFails,
    pc <- bootAt, failures <- bootFailures, attempt <- migrationAttempt

Identity == INSTANCE PublicDid WITH
    MaxFaults <- MaxDidFaults, pc <- didAt, faults <- didFaults

Outbound == INSTANCE Transports WITH
    sessions <- httpSessions
Quiet == INSTANCE Transports WITH
    Senders <- {m1}, MaxSockets <- 2, Requests <- {m1}, sessions <- httpSessions

OneSocket == sock'[m2] = "none"
OneMessage == \A s \in Sockets : count'[s] <= 1

SingleUse == INSTANCE Invitations WITH
    Reusable <- FALSE, V2 <- TRUE, Recorded <- TRUE, Reusers <- {},
    clock <- millisecond
MultiUse == INSTANCE Invitations WITH
    Reusable <- TRUE, V2 <- FALSE, Recorded <- TRUE, clock <- millisecond
Undeleted == INSTANCE Invitations WITH
    Reusable <- FALSE, V2 <- TRUE, Recorded <- TRUE, Reusers <- {}, MaxDeletes <- 0,
    clock <- millisecond

Dialling == INSTANCE PeerConnection WITH
    Inbound <- FALSE, MaxCrashes <- 0, crashes <- peerStops
Restarted == INSTANCE PeerConnection WITH
    MaxRecords <- 3, Inbound <- TRUE, MaxCrashes <- 1,
    crashes <- peerStops

Listeners == INSTANCE ConnectionEvents WITH
    Discovery <- TRUE, Targets <- {"public", "alternative", "foreign", "invitation"},
    MaxFailures <- MaxListenerFails, pc <- announcing, failures <- listenerFailures
Answering == INSTANCE ConnectionEvents WITH
    Conns <- {m1}, Discovery <- TRUE,
    Targets <- {"public", "alternative", "foreign", "invitation", "withRequest"},
    MaxFailures <- 2, pc <- announcing, failures <- listenerFailures

Scenarios ==
    {"boot", "probed boot", "public DID", "outbound", "quiet sockets", "inbound",
     "slow peer", "single use", "multi use", "undeleted", "dialling", "restarted",
     "listeners", "requests"}

DidRest == [method |-> "web", location |-> CHOOSE l \in Locations : TRUE, admin |-> "none"]

\* A part that is not run stays in one of its initial states.
MCInit ==
    /\ scenario \in Scenarios
    /\ CASE scenario = "probed boot" -> Probed!Init
         [] OTHER -> Boot!Init
    /\ CASE scenario = "public DID" -> Identity!Init
         [] OTHER -> Identity!Init /\ dids = [mt \in Identity!Methods |-> Identity!NoDid] /\ config = DidRest
    /\ CASE scenario = "quiet sockets" -> Quiet!Init
         [] OTHER -> Outbound!Init
    /\ Init
    /\ CASE scenario = "multi use" -> MultiUse!Init
         [] scenario = "undeleted" -> Undeleted!Init
         [] OTHER -> SingleUse!Init
    /\ CASE scenario = "restarted" -> Restarted!Init
         [] OTHER -> Dialling!Init
    /\ CASE scenario = "listeners" -> Listeners!Init
         [] scenario = "requests" -> Answering!Init
         [] OTHER -> Listeners!Init /\ target = [c \in Conns |-> "public"]

MCNext ==
    \/ /\ \/ scenario = "boot" /\ Boot!Next
          \/ scenario = "probed boot" /\ Probed!Next
       /\ UNCHANGED <<scenario, publicDidVars, transportsVars, vars, invitationsVars, peerConnectionVars, connectionEventsVars>>
    \/ /\ scenario = "public DID" /\ Identity!Next
       /\ UNCHANGED <<scenario, startupVars, transportsVars, vars, invitationsVars, peerConnectionVars, connectionEventsVars>>
    \/ /\ \/ scenario = "outbound" /\ Outbound!Next
          \/ scenario = "quiet sockets" /\ Quiet!Next
       /\ UNCHANGED <<scenario, startupVars, publicDidVars, vars, invitationsVars, peerConnectionVars, connectionEventsVars>>
    \/ /\ \/ scenario = "inbound" /\ Next /\ OneMessage
          \/ scenario = "slow peer" /\ Next /\ OneSocket
       /\ UNCHANGED <<scenario, startupVars, publicDidVars, transportsVars, invitationsVars, peerConnectionVars, connectionEventsVars>>
    \/ /\ \/ scenario = "single use" /\ SingleUse!Next
          \/ scenario = "multi use" /\ MultiUse!Next
          \/ scenario = "undeleted" /\ Undeleted!Next
       /\ UNCHANGED <<scenario, startupVars, publicDidVars, transportsVars, vars, peerConnectionVars, connectionEventsVars>>
    \/ /\ \/ scenario = "dialling" /\ Dialling!Next
          \/ scenario = "restarted" /\ Restarted!Next
       /\ UNCHANGED <<scenario, startupVars, publicDidVars, transportsVars, vars, invitationsVars, connectionEventsVars>>
    \/ /\ \/ scenario = "listeners" /\ Listeners!Next
          \/ scenario = "requests" /\ Answering!Next
       /\ UNCHANGED <<scenario, startupVars, publicDidVars, transportsVars, vars, invitationsVars, peerConnectionVars>>

allVars == <<scenario, startupVars, publicDidVars, transportsVars, vars, invitationsVars, peerConnectionVars, connectionEventsVars>>

MCSpec == MCInit /\ [][MCNext]_allVars

\* Fairness as the parts state it, of the part that is run.
MCFairSpec ==
    /\ MCSpec
    /\ WF_startupVars(scenario = "probed boot" /\ Probed!starts)
    /\ WF_startupVars(scenario = "probed boot" /\ Probed!firstAttempt)
    /\ WF_startupVars(scenario = "probed boot" /\ Probed!intervalFires)
    /\ WF_startupVars(scenario = "probed boot" /\ Probed!attemptSucceeds)
    /\ WF_startupVars(scenario = "probed boot" /\ Probed!indexerSteps)
    /\ WF_startupVars(scenario = "probed boot" /\ Probed!ecsBootstrapEnds)
    /\ WF_startupVars(scenario = "probed boot" /\ Probed!restart)
    /\ WF_transportsVars(scenario = "quiet sockets" /\ Quiet!idleSocketTimer)
    /\ WF_transportsVars(scenario = "quiet sockets" /\ Quiet!onclose)
    /\ \A r \in {m1} : WF_transportsVars(scenario = "quiet sockets" /\ Quiet!handlerEnds(r))
    /\ WF_vars(scenario = "slow peer" /\ tick)
    /\ WF_vars(scenario = "slow peer" /\ startIdleSocketTimer)
    /\ WF_vars(scenario = "slow peer" /\ stopped)
    /\ \A s \in Sockets : WF_vars(scenario = "slow peer" /\ closeEvent(s))
    /\ WF_invitationsVars(scenario = "undeleted" /\ (Undeleted!createInvitation \/ Undeleted!createShortUrl \/ Undeleted!saveRecord))
    /\ WF_invitationsVars(scenario = "undeleted" /\ Undeleted!readRecord)
    /\ WF_invitationsVars(scenario = "undeleted" /\ Undeleted!recordAcceptance)
    /\ \A p \in Undeleted!Peers :
         /\ WF_invitationsVars(scenario = "undeleted" /\ Undeleted!tagAndSave(p))
         /\ WF_invitationsVars(scenario = "undeleted" /\ Undeleted!markDone(p))
         /\ WF_invitationsVars(scenario = "undeleted" /\ Undeleted!discardExtraConnection(p))
         /\ WF_invitationsVars(scenario = "undeleted" /\ Undeleted!deleteExtra(p))
    /\ WF_peerConnectionVars(scenario = "restarted" /\ (Restarted!useReady \/ Restarted!deleteExisting))
    /\ WF_peerConnectionVars(scenario = "restarted" /\ Restarted!receiveImplicitInvitation)
    /\ WF_peerConnectionVars(scenario = "restarted" /\ Restarted!setTag)
    /\ WF_peerConnectionVars(scenario = "restarted" /\ (Restarted!returnWhenIsConnected \/ Restarted!failDeletes))
    /\ \A c \in {m1} :
         /\ WF_connectionEventsVars(scenario = "requests" /\ Answering!acceptRequest(c))
         /\ WF_connectionEventsVars(scenario = "requests" /\ Answering!queryFeatures(c))
         /\ WF_connectionEventsVars(scenario = "requests" /\ Answering!queried(c))
    /\ \A c \in {m1}, s \in Answering!States :
         /\ WF_connectionEventsVars(scenario = "requests" /\ Answering!discarded(c, s))
         /\ WF_connectionEventsVars(scenario = "requests" /\ Answering!announce(c, s))

-----------------------------------------------------------------------------
\* The start of the agent and its public DID keep their types, and:
\* - readiness: whenever the admin API says the agent is ready, the service
\*   ids are migrated and a catch-up of this process ended.
\* - initialize: a running agent can decrypt what is sent to the key its
\*   document publishes, whichever write a crash came between.
\* - applyArtifactServices: a running agent publishes the services of this
\*   start's configuration.
\* - initialize: a running agent has the shared invitation without which
\*   implicit connections are refused.
StartSound ==
    /\ scenario = "boot" => Boot!TypeOK
    /\ scenario = "public DID" => Identity!TypeOK
    /\ scenario = "boot" => Boot!ReadyIsDone
    /\ scenario = "public DID" => Identity!PublishedKeyIsMapped
    /\ scenario = "public DID" => Identity!ConfigurationPublished
    /\ scenario = "public DID" => Identity!PublicDidOpen

\* The invitations keep their types, and:
\* - recordAcceptance: a single-use invitation has one acceptance whatever
\*   races, and none is recorded twice.
\* - deleteInvitation: the record goes last, so nothing is left that another
\*   deletion cannot reach.
\* - acceptingInvitation: concurrent acceptances of a multi-use invitation do
\*   not overwrite each other.
InvitationsSound ==
    /\ scenario = "single use" => SingleUse!TypeOK
    /\ scenario = "single use" => SingleUse!AcceptedOnce
    /\ scenario = "multi use" => MultiUse!AcceptedOnce
    /\ scenario = "single use" => SingleUse!NothingLeft
    /\ scenario = "multi use" => MultiUse!AcceptanceKept

\* The connections, their listeners and their transports keep their types,
\* and:
\* - resolveSocket: no entry of the transport table outlives its socket.
\* - A DIDComm request over HTTP gets exactly one response, in whichever
\*   order reply, end and failure come.
\* - connectToPublicDid: calls that overlap share one attempt, and one record
\*   is kept for a peer.
\* - failDeletes: a pending record belongs to the attempt that is running.
\* - Each state of a connection is announced at most once, however the
\*   listeners interleave (ConnectionEvents).
\* - No failure of the wallet or the transport ends the process through a
\*   listener (ConnectionEvents).
ConnectionsSound ==
    /\ scenario = "outbound" => Outbound!TypeOK
    /\ scenario = "outbound" => Outbound!EntryIsAlive
    /\ scenario = "outbound" => Outbound!OneResponse
    /\ scenario = "dialling" => Dialling!TypeOK
    /\ scenario = "listeners" => Listeners!TypeOK
    /\ scenario = "dialling" => Dialling!OneRecordPerPeer
    /\ scenario = "dialling" => Dialling!NothingLeftPending
    /\ scenario = "listeners" => Listeners!EachStateOnce
    /\ scenario = "listeners" => Listeners!ProcessSurvives

\* What no step undoes, and what happens in the end:
\* - runWithRetries: a migration that was given up is not tried again behind
\*   the back of the probe.
\* - VsAgent refuses to start rather than create a second DID, and the first
\*   keeps its location.
\* - discardExtraConnection: the connection that was recorded as the
\*   acceptance is not the one that is closed.
\* - A single-use invitation that was accepted is not served again under its
\*   short URL (recordAcceptance).
\* - connectToPublicDid: a call returns the id of a ready connection.
\* - run: once the failures end the agent becomes ready and stays so, through
\*   retries, exits, the liveness probe and restarts.
\* - An outbound socket that stays idle is closed (idleSocketTimer).
\* - stop() resolves even if no peer closes its socket.
\* - discardExtraConnection: peers that raced for a single-use v2 invitation
\*   end with one connection.
\* - connectToPublicDid: every call ends, with a connection or an error, also
\*   across restarts and inbound connections.
\* - acceptRequest: a request that addresses a DID of this agent is answered.
\* - A connection that completes is announced, whatever runs beside it
\*   (ConnectionEvents).
ConnectionsProgress ==
    /\ Boot!GivenUpIsOver
    /\ Identity!NeverASecondDid
    /\ [][scenario = "single use" => SingleUse!AcceptedNotClosedStep]_invitationsVars
    /\ [][scenario = "single use" => SingleUse!NotServedAgainStep]_invitationsVars
    /\ Dialling!ReturnsReady
    /\ scenario = "probed boot" => Probed!BecomesReady
    /\ scenario = "quiet sockets" => Quiet!IdleIsClosed
    /\ scenario = "slow peer" => StopResolves
    /\ scenario = "undeleted" => Undeleted!OneConnectionLeft
    /\ scenario = "restarted" => Restarted!CallEnds
    /\ scenario = "requests" => Answering!OwnRequestAnswered
    /\ scenario = "requests" => Answering!CompletedAnnounced
=============================================================================
