------------------------------- MODULE WsInbound -------------------------------
(***************************************************************************)
(* The inbound WebSocket transport:                                        *)
(* agent-sdk/src/transports/VsAgentWsInboundTransport.ts.                  *)
(*                                                                         *)
(* A socket is kept until its peer closes it or the idle timer finds that  *)
(* it had no activity for longer than the interval; the answer to a        *)
(* message goes back over the socket it came on.  Time is counted in ticks *)
(* and only relatively: the age of a socket's last activity, the time a    *)
(* message is in work, and the place of the clock in the interval.         *)
(***************************************************************************)
EXTENDS Naturals

CONSTANTS Sockets,
          Interval,     \* the idle interval, in ticks
          MaxMessages   \* messages of a peer on one socket

ASSUME IntervalAssumption == Interval \in Nat \ {0} /\ MaxMessages \in Nat

VARIABLES sock,      \* readyState of each socket, "none" before it connects
          age,       \* ticks since its lastActivity
          work,      \* its message in work: "none", "unpack", "handle"
          took,      \* ticks that message has been in work
          timely,    \* that message came while the socket was open
          count,     \* messages received on it
          closer,    \* who closed it
          sessions,  \* sockets with a session in the transport service
          late,      \* sockets closed while their message was unpacked
          lost,      \* answers that could not be sent, with their circumstances
          clock,     \* place in the interval
          due,       \* the timer is to run at this tick
          server     \* "up", "stopping", "stopped"

vars == <<sock, age, work, took, timely, count, closer, sessions, late, lost,
          clock, due, server>>

\* Ages are counted to where no comparison tells them apart.
Old == 2 * Interval + 1
Slow == Interval + 1
Upto(n, max) == IF n <= max THEN n ELSE max

Clients == {s \in Sockets : sock[s] \in {"open", "closing"}}

-----------------------------------------------------------------------------

Init ==
  /\ sock = [s \in Sockets |-> "none"]
  /\ age = [s \in Sockets |-> 0]
  /\ work = [s \in Sockets |-> "none"]
  /\ took = [s \in Sockets |-> 0]
  /\ timely = [s \in Sockets |-> FALSE]
  /\ count = [s \in Sockets |-> 0]
  /\ closer = [s \in Sockets |-> "none"]
  /\ sessions = {} /\ late = {} /\ lost = {}
  /\ clock = 0 /\ due = FALSE
  /\ server = "up"

\* A peer connects; the server takes no new socket once it stops.
connect(s) ==
  /\ server = "up" /\ sock[s] = "none"
  /\ sock' = [sock EXCEPT ![s] = "open"]
  /\ age' = [age EXCEPT ![s] = 0]
  /\ UNCHANGED <<work, took, timely, count, closer, sessions, late, lost,
                 clock, due, server>>

\* A message comes; it may still come after this side began to close.
receiveMessage(s) ==
  /\ s \in Clients /\ work[s] = "none" /\ count[s] < MaxMessages
  /\ age' = [age EXCEPT ![s] = 0]
  /\ count' = [count EXCEPT ![s] = @ + 1]
  /\ work' = [work EXCEPT ![s] = "unpack"]
  /\ took' = [took EXCEPT ![s] = 0]
  /\ timely' = [timely EXCEPT ![s] = sock[s] = "open"]
  /\ UNCHANGED <<sock, closer, sessions, late, lost, clock, due, server>>

\* The framework unpacked the message and keeps the session for its answers.
saveSession(s) ==
  /\ work[s] = "unpack"
  /\ work' = [work EXCEPT ![s] = "handle"]
  /\ sessions' = sessions \cup {s}
  /\ UNCHANGED <<sock, age, took, timely, count, closer, late, lost, clock, due, server>>

\* The message cannot be unpacked or handled: the error is logged.
receiveFails(s) ==
  /\ work[s] # "none"
  /\ work' = [work EXCEPT ![s] = "none"]
  /\ UNCHANGED <<sock, age, took, timely, count, closer, sessions, late, lost,
                 clock, due, server>>

Circumstance(s) == [socket |-> s, took |-> took[s], timely |-> timely[s],
                    closer |-> closer[s]]

\* The handler's answer goes to the session: it throws unless the socket is open.
send(s) ==
  /\ work[s] = "handle"
  /\ work' = [work EXCEPT ![s] = "none"]
  /\ IF sock[s] = "open"
     THEN age' = [age EXCEPT ![s] = 0] /\ UNCHANGED lost
     ELSE lost' = lost \cup {Circumstance(s)} /\ UNCHANGED age
  /\ UNCHANGED <<sock, took, timely, count, closer, sessions, late, clock, due, server>>

\* The close event of a socket removes its session.
closed(s, by) ==
  /\ sock' = [sock EXCEPT ![s] = "closed"]
  /\ closer' = [closer EXCEPT ![s] = IF @ = "none" THEN by ELSE @]
  /\ late' = IF work[s] = "unpack" THEN late \cup {s} ELSE late
  /\ sessions' = sessions \ {s}
  /\ UNCHANGED <<age, work, took, timely, count, lost, clock, due, server>>

peerCloses(s) == sock[s] = "open" /\ closed(s, "peer")

\* The closing handshake this side began ends, or its deadline passes.
closeEvent(s) == sock[s] = "closing" /\ closed(s, "timer")

\* Time passes; the timer runs before it goes on.
tick ==
  /\ ~due
  /\ clock' = IF clock + 1 = Interval THEN 0 ELSE clock + 1
  /\ due' = (clock' = 0)
  /\ age' = [s \in Sockets |-> IF s \in Clients THEN Upto(age[s] + 1, Old) ELSE 0]
  /\ took' = [s \in Sockets |-> IF work[s] = "none" THEN 0 ELSE Upto(took[s] + 1, Slow)]
  /\ UNCHANGED <<sock, work, timely, count, closer, sessions, late, lost, server>>

\* Mutant: the timer closes at the interval, not after it.
IdleEarly == {s \in Clients : sock[s] = "open" /\ age[s] >= Interval}

Idle == {s \in Clients : sock[s] = "open" /\ age[s] > Interval}

\* The idle timer closes every client without activity for longer than the interval.
startIdleSocketTimer ==
  /\ due /\ due' = FALSE
  /\ sock' = [s \in Sockets |-> IF s \in Idle THEN "closing" ELSE sock[s]]
  /\ closer' = [s \in Sockets |-> IF s \in Idle THEN "timer" ELSE closer[s]]
  /\ UNCHANGED <<age, work, took, timely, count, sessions, late, lost, clock, server>>

\* The server takes no more sockets; the timer keeps running.
stop ==
  /\ server = "up"
  /\ server' = "stopping"
  /\ UNCHANGED <<sock, age, work, took, timely, count, closer, sessions, late, lost,
                 clock, due>>

\* The server calls back once its last client is gone, and stop() resolves.
stopped ==
  /\ server = "stopping" /\ Clients = {}
  /\ server' = "stopped"
  /\ UNCHANGED <<sock, age, work, took, timely, count, closer, sessions, late, lost,
                 clock, due>>

Next ==
  \/ \E s \in Sockets : \/ connect(s) \/ receiveMessage(s) \/ saveSession(s)
                        \/ receiveFails(s) \/ send(s) \/ peerCloses(s) \/ closeEvent(s)
  \/ tick \/ startIdleSocketTimer \/ stop \/ stopped

Spec == Init /\ [][Next]_vars

\* Time goes on, the timer runs, a closing handshake ends and the server calls
\* back.  A peer need not close, send or answer anything.
Fairness ==
  /\ WF_vars(tick) /\ WF_vars(startIdleSocketTimer) /\ WF_vars(stopped)
  /\ \A s \in Sockets : WF_vars(closeEvent(s))

FairSpec == Spec /\ Fairness

-----------------------------------------------------------------------------
(* Properties.                                                             *)

\* Type invariant.
TypeOK ==
  /\ sock \in [Sockets -> {"none", "open", "closing", "closed"}]
  /\ age \in [Sockets -> 0..Old] /\ took \in [Sockets -> 0..Slow]
  /\ work \in [Sockets -> {"none", "unpack", "handle"}]
  /\ timely \in [Sockets -> BOOLEAN] /\ count \in [Sockets -> 0..MaxMessages]
  /\ closer \in [Sockets -> {"none", "peer", "timer"}]
  /\ sessions \subseteq Sockets /\ late \subseteq Sockets
  /\ lost \subseteq [socket : Sockets, took : 0..Slow, timely : BOOLEAN,
                     closer : {"none", "peer", "timer"}]
  /\ clock \in 0..(Interval - 1) /\ due \in BOOLEAN
  /\ server \in {"up", "stopping", "stopped"}
  /\ \A s \in Sockets : closer[s] = "none" <=> sock[s] \in {"none", "open"}

\* The timer runs once per interval and compares with the interval, so that no
\* socket stays open for more than two intervals without activity
\* (startIdleSocketTimer).
IdleBounded == \A s \in Sockets : sock[s] = "open" => age[s] <= 2 * Interval

\* An answer to a message that came over an open socket is lost only if the peer
\* hung up or the handler took longer than the interval: the timer, which knows
\* nothing of messages in work, does not race an answer in time.
TimelyAnswerSent ==
  \A l \in lost : l.timely => (l.closer = "peer" \/ l.took > Interval)

\* A session outlives its socket only if the socket closed while its message was
\* unpacked, before the framework kept the session.
SessionHasSocket == \A s \in sessions : sock[s] = "closed" => s \in late

\* startIdleSocketTimer: what the clock says of the age of an open socket: the
\* last run of the timer left none older than the interval.
AgeFollowsClock ==
  /\ due => clock = 0
  /\ \A s \in Sockets : sock[s] = "open" =>
       age[s] <= IF due THEN 2 * Interval ELSE Interval + clock

\* A message in work keeps its socket young: one that the timer closed since the
\* message came has been in work for longer than the interval.
WorkKeepsOpen ==
  \A s \in Sockets : work[s] # "none" =>
    /\ sock[s] = "open" /\ took[s] <= Interval => age[s] <= took[s]
    /\ timely[s] /\ closer[s] = "timer" => took[s] > Interval
    /\ sock[s] # "none"

\* The framework can keep a session only for a socket that was open when its
\* message came.
UnpackedLate == \A s \in Sockets : sock[s] = "closed" /\ work[s] = "unpack" => s \in late

\* The inbound sockets are sound, whatever peers, timer, messages and stop() do.
WsInv ==
  /\ TypeOK /\ IdleBounded /\ TimelyAnswerSent /\ SessionHasSocket
  /\ AgeFollowsClock /\ WorkKeepsOpen /\ UnpackedLate

\* stop() resolves even if no peer closes: the timer is not cleared by stop()
\* and closes the sockets whose peers went quiet.
StopResolves == (server = "stopping") ~> (server = "stopped")
=============================================================================
