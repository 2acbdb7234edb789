----------------------------- MODULE Transports -----------------------------
(***************************************************************************)
(* The DIDComm transports, but for inbound WebSockets (WsInbound).         *)
(* Outbound WebSockets of one endpoint: the table of sockets that senders  *)
(* share, the idle timer and the close events that arrive late. HTTP       *)
(* inbound: one response per request, from the session, from the handler   *)
(* or from its error path.                                                 *)
(***************************************************************************)
EXTENDS Naturals, FiniteSets

CONSTANTS
    Senders,         \* concurrent calls of sendMessage
    MaxSockets,      \* bound: sockets ever opened to the endpoint
    Requests         \* HTTP requests with a DIDComm message

VARIABLES
    sockets,         \* readyState of every socket, "none" before it exists
    idle,            \* sockets without activity for the interval
    table,           \* transportTable: the socket of the endpoint, 0 if none
    sender,          \* per call: where it stands and the socket it opens
    http,            \* per request: where its handler stands
    responses,       \* per request: responses written
    sessions         \* sessions of requests that the transport service holds

out == <<sockets, idle, table, sender>>
inn == <<http, responses, sessions>>
vars == <<out, inn>>

SocketIds == 1..MaxSockets
ReadyStates == {"none", "connecting", "open", "closing", "closed"}

Init ==
    /\ sockets = [s \in SocketIds |-> "none"] /\ idle = {} /\ table = 0
    /\ sender = [c \in Senders |-> [at |-> "ready", socket |-> 0]]
    /\ http = [r \in Requests |-> "none"] /\ responses = [r \in Requests |-> 0] /\ sessions = {}

-----------------------------------------------------------------------------
\* Outbound WebSockets.

\* resolveSocket without an entry: a socket is opened and awaited.
createSocketConnection(c) ==
    /\ sender[c].at = "ready" /\ table = 0
    /\ \E s \in SocketIds :
         /\ sockets[s] = "none" /\ \A z \in 1..(s - 1) : sockets[z] # "none"
         /\ sockets' = [sockets EXCEPT ![s] = "connecting"]
         /\ sender' = [sender EXCEPT ![c] = [at |-> "opening", socket |-> s]]
    /\ UNCHANGED <<idle, table, inn>>

\* onopen resolves the await: the call enters its socket in the table,
\* whatever is there by now, and sends on it.
socketOpens(c) ==
    /\ sender[c].at = "opening" /\ sockets[sender[c].socket] = "connecting"
    /\ sockets' = [sockets EXCEPT ![sender[c].socket] = "open"] /\ table' = sender[c].socket
    /\ idle' = idle \ {sender[c].socket}
    /\ sender' = [sender EXCEPT ![c] = [at |-> "sent", socket |-> 0]]
    /\ UNCHANGED inn

\* onerror rejects the await, so the call fails; onclose follows in the same
\* turn and deletes the entry of the endpoint.
socketErrors(c) ==
    /\ sender[c].at = "opening" /\ sockets[sender[c].socket] = "connecting"
    /\ sockets' = [sockets EXCEPT ![sender[c].socket] = "closed"] /\ table' = 0
    /\ sender' = [sender EXCEPT ![c] = [at |-> "failed", socket |-> 0]]
    /\ UNCHANGED <<idle, inn>>

\* resolveSocket with an entry: it is used, or the call fails if the socket
\* is no longer open.
useSocket(c) ==
    /\ sender[c].at = "ready" /\ table # 0
    /\ sender' = [sender EXCEPT ![c].at = IF sockets[table] = "open" THEN "sent" ELSE "failed"]
    /\ idle' = IF sockets[table] = "open" THEN idle \ {table} ELSE idle
    /\ UNCHANGED <<sockets, table, inn>>

\* The next message of a caller.
nextMessage(c) ==
    /\ sender[c].at \in {"sent", "failed"} /\ sender' = [sender EXCEPT ![c].at = "ready"]
    /\ UNCHANGED <<sockets, idle, table, inn>>

\* No activity for the interval, or the other side closes.
goesIdle ==
    /\ \E s \in SocketIds : sockets[s] = "open" /\ idle' = idle \cup {s}
    /\ UNCHANGED <<sockets, table, sender, inn>>

peerCloses ==
    /\ \E s \in SocketIds : sockets[s] = "open" /\ sockets' = [sockets EXCEPT ![s] = "closing"]
    /\ UNCHANGED <<idle, table, sender, inn>>

\* The idle timer closes the sockets of the table, and no other.
idleSocketTimer ==
    /\ table # 0 /\ table \in idle /\ sockets[table] = "open"
    /\ sockets' = [sockets EXCEPT ![table] = "closing"]
    /\ UNCHANGED <<idle, table, sender, inn>>

\* onclose deletes the entry of the endpoint, whichever socket it names.
onclose ==
    /\ \E s \in SocketIds :
         /\ sockets[s] = "closing" /\ sockets' = [sockets EXCEPT ![s] = "closed"] /\ idle' = idle \ {s}
    /\ table' = 0
    /\ UNCHANGED <<sender, inn>>

-----------------------------------------------------------------------------
\* HTTP inbound: the handler of a POST.

\* The content type is refused with 415, or a session is made and the message
\* is processed.
receives(r) ==
    /\ http[r] = "none"
    /\ \/ http' = [http EXCEPT ![r] = "done"] /\ responses' = [responses EXCEPT ![r] = @ + 1] /\ UNCHANGED sessions
       \/ http' = [http EXCEPT ![r] = "processing"] /\ UNCHANGED responses
          /\ sessions' = sessions \cup {r}
    /\ UNCHANGED out

\* HttpTransportSession.send: a reply of the agent; once the response is
\* written it throws instead.
sessionSends(r) ==
    /\ r \in sessions /\ responses[r] = 0
    /\ responses' = [responses EXCEPT ![r] = @ + 1]
    /\ UNCHANGED <<http, sessions, out>>

\* Processing ends or throws; the handler answers if nobody did, and the
\* session is removed either way.
handlerEnds(r) ==
    /\ http[r] = "processing" /\ http' = [http EXCEPT ![r] = "done"]
    /\ responses' = [responses EXCEPT ![r] = IF @ = 0 THEN 1 ELSE @]
    /\ sessions' = sessions \ {r}
    /\ UNCHANGED out

Next ==
    \/ \E c \in Senders : createSocketConnection(c) \/ socketOpens(c) \/ socketErrors(c) \/ useSocket(c) \/ nextMessage(c)
    \/ goesIdle \/ peerCloses \/ idleSocketTimer \/ onclose
    \/ \E r \in Requests : receives(r) \/ sessionSends(r) \/ handlerEnds(r)

Spec == Init /\ [][Next]_vars

\* Timers fire, close events and handlers end.
Fairness ==
    /\ WF_vars(idleSocketTimer) /\ WF_vars(onclose)
    /\ \A r \in Requests : WF_vars(handlerEnds(r))

FairSpec == Spec /\ Fairness

-----------------------------------------------------------------------------
\* The table names a socket that exists; a session belongs to a request that
\* is being processed.
TypeOK ==
    /\ sockets \in [SocketIds -> ReadyStates] /\ idle \subseteq SocketIds /\ table \in 0..MaxSockets
    /\ sender \in [Senders -> [at : {"ready", "opening", "sent", "failed"}, socket : 0..MaxSockets]]
    /\ http \in [Requests -> {"none", "processing", "done"}]
    /\ \A r \in sessions : http[r] = "processing"

\* What a call reports as sent went to an open socket, and no entry outlives
\* its socket: the next call after the close opens a new one instead of
\* failing for ever.
EntryIsAlive == table # 0 => sockets[table] \in {"open", "closing"}

\* One caller at a time: a socket that is open stays under the idle timer, so
\* one that stays idle is closed.
IdleIsClosed == \A s \in SocketIds : []<>~(sockets[s] = "open" /\ s \in idle)

\* A request gets exactly one response, in whichever order the reply, the
\* end of the processing and its failure come.
OneResponse ==
    /\ \A r \in Requests : responses[r] <= 1
    /\ \A r \in Requests : http[r] = "done" => responses[r] = 1

\* VsAgentWsOutboundTransport.ts: "If we already have a socket connection use
\* it": an endpoint has one open socket.
OneSocketPerEndpoint == Cardinality({s \in SocketIds : sockets[s] = "open"}) <= 1
=============================================================================
