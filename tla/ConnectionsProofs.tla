--------------------------- MODULE ConnectionsProofs ---------------------------
(***************************************************************************)
(* Proofs about what brings the agent up and connects it: the start and    *)
(* its probes, the public DID, the transports, the invitations, the        *)
(* connections to other agents and the listeners of their states, for any  *)
(* values of the constants.                                                *)
(*                                                                         *)
(* Each part has an inductive invariant with three lemmas: it begins with  *)
(* it, every step keeps it, and it says what the part promises.  The       *)
(* theorems put them together for the behaviours of MCConnections, which   *)
(* run one part each.                                                      *)
(***************************************************************************)
EXTENDS MCConnections, SequenceTheorems, FiniteSetTheorems, TLAPS

-----------------------------------------------------------------------------
\* Sequences and what occurs in them.

Has(q, e) == \E i \in 1..Len(q) : q[i] = e
Once(q, e) == \A i, j \in 1..Len(q) : q[i] = e /\ q[j] = e => i = j
NoTwice(q) == \A i, j \in 1..Len(q) : q[i] = q[j] => i = j

LEMMA Appended ==
  ASSUME NEW S, NEW q \in Seq(S), NEW e \in S
  PROVE  /\ Append(q, e) \in Seq(S) /\ Len(Append(q, e)) = Len(q) + 1 /\ Append(q, e) # <<>>
         /\ \A x : Has(Append(q, e), x) <=> Has(q, x) \/ x = e
         /\ \A x : Once(q, x) /\ x # e => Once(Append(q, e), x)
         /\ ~Has(q, e) => Once(Append(q, e), e)
         /\ NoTwice(q) /\ ~Has(q, e) => NoTwice(Append(q, e))
<1> DEFINE r == Append(q, e)
<1>1. r \in Seq(S) /\ Len(r) = Len(q) + 1 /\ Len(q) \in Nat /\ r # <<>>
  OBVIOUS
<1>2. \A i \in 1..Len(q) : r[i] = q[i]
  OBVIOUS
<1>3. r[Len(q) + 1] = e
  OBVIOUS
<1>4. \A i \in 1..Len(r) : i \in 1..Len(q) \/ i = Len(q) + 1
  BY <1>1
<1>5. \A i \in 1..Len(q) : i \in 1..Len(r)
  BY <1>1
<1>6. Len(q) + 1 \in 1..Len(r)
  BY <1>1
<1> HIDE DEF r
<1>7. \A x : Has(r, x) <=> Has(q, x) \/ x = e
  BY <1>2, <1>3, <1>4, <1>5, <1>6 DEF Has
<1>8. NoTwice(q) /\ ~Has(q, e) => NoTwice(r)
  BY <1>2, <1>3, <1>4 DEF Has, NoTwice
<1>9. \A x : Once(q, x) /\ x # e => Once(r, x)
  BY <1>2, <1>3, <1>4 DEF Once
<1>10. ~Has(q, e) => Once(r, e)
  BY <1>2, <1>3, <1>4 DEF Has, Once
<1> QED
  BY <1>1, <1>7, <1>8, <1>9, <1>10 DEF r

LEMMA Begun ==
  ASSUME NEW S, NEW q \in Seq(S), q # <<>>
  PROVE  /\ Head(q) \in S /\ Tail(q) \in Seq(S) /\ Has(q, Head(q))
         /\ \A x : Has(q, x) <=> x = Head(q) \/ Has(Tail(q), x)
         /\ \A x : Once(q, x) => Once(Tail(q), x)
         /\ Once(q, Head(q)) => ~Has(Tail(q), Head(q))
         /\ NoTwice(q) => NoTwice(Tail(q)) /\ ~Has(Tail(q), Head(q))
<1> DEFINE r == Tail(q)
<1>1. r \in Seq(S) /\ Len(q) = Len(r) + 1 /\ Len(r) \in Nat
  OBVIOUS
<1>2. \A i \in 1..Len(r) : r[i] = q[i + 1]
  OBVIOUS
<1>3. Head(q) = q[1] /\ q[1] \in S
  OBVIOUS
<1>4. /\ \A i \in 1..Len(r) : i + 1 \in 1..Len(q) /\ i + 1 # 1
      /\ \A i \in 1..Len(q) : i = 1 \/ (i - 1 \in 1..Len(r) /\ i = (i - 1) + 1)
      /\ 1 \in 1..Len(q)
      /\ \A i, j \in 1..Len(r) : i + 1 = j + 1 => i = j
  BY <1>1
<1> HIDE DEF r
<1>5. \A x : Has(q, x) <=> x = q[1] \/ Has(r, x)
  <2> TAKE x
  <2>1. ASSUME Has(q, x) PROVE x = q[1] \/ Has(r, x)
    <3>1. PICK i \in 1..Len(q) : q[i] = x
      BY <2>1 DEF Has
    <3>2. i = 1 \/ (i - 1 \in 1..Len(r) /\ r[i - 1] = x)
      BY <1>2, <1>4, <3>1
    <3> QED
      BY <3>1, <3>2 DEF Has
  <2>2. ASSUME x = q[1] \/ Has(r, x) PROVE Has(q, x)
    <3>1. CASE x = q[1]
      BY <1>4, <3>1 DEF Has
    <3>2. CASE Has(r, x)
      <4>1. PICK i \in 1..Len(r) : r[i] = x
        BY <3>2 DEF Has
      <4>2. i + 1 \in 1..Len(q) /\ q[i + 1] = x
        BY <1>2, <1>4, <4>1
      <4> QED
        BY <4>2 DEF Has
    <3> QED
      BY <2>2, <3>1, <3>2
  <2> QED
    BY <2>1, <2>2
<1>6. \A x : Once(q, x) => Once(r, x)
  BY <1>2, <1>4 DEF Once
<1>7. Once(q, q[1]) => ~Has(r, q[1])
  BY <1>2, <1>4 DEF Once, Has
<1>8. NoTwice(q) => NoTwice(r) /\ ~Has(r, q[1])
  BY <1>2, <1>4 DEF NoTwice, Has
<1>9. Has(q, q[1])
  BY <1>4 DEF Has
<1> QED
  BY <1>1, <1>3, <1>5, <1>6, <1>7, <1>8, <1>9 DEF r

\* Nothing occurs in an empty sequence.
LEMMA Nothing == NoTwice(<<>>) /\ \A x : ~Has(<<>>, x) /\ Once(<<>>, x)
  BY DEF NoTwice, Has, Once

-----------------------------------------------------------------------------
(* The inbound WebSocket transport.  WsInv is inductive.  IdleBounded and   *)
(* TimelyAnswerSent say what a timer that runs once per interval            *)
(* guarantees; neither is inductive alone.  The first needs                 *)
(* AgeFollowsClock, which bounds the age of an open socket by the time      *)
(* since the timer last ran.  The second needs WorkKeepsOpen: a message     *)
(* resets the age of its socket, so a socket the timer closes with a        *)
(* message in work had it for longer than the interval.                     *)

\* WsInv holds before the first socket connects.
LEMMA WsBegins == Init => WsInv
<1> SUFFICES ASSUME Init PROVE WsInv
  OBVIOUS
<1> USE IntervalAssumption DEF Init, Old, Slow
<1>1. TypeOK
  <2>1. /\ age \in [Sockets -> 0..Old] /\ took \in [Sockets -> 0..Slow]
        /\ count \in [Sockets -> 0..MaxMessages] /\ clock \in 0..(Interval - 1)
    OBVIOUS
  <2>2. timely \in [Sockets -> BOOLEAN] /\ due \in BOOLEAN
    OBVIOUS
  <2> QED
    BY <2>1, <2>2 DEF TypeOK
<1>2. AgeFollowsClock /\ WorkKeepsOpen /\ UnpackedLate
  BY DEF AgeFollowsClock, WorkKeepsOpen, UnpackedLate
<1>3. IdleBounded /\ TimelyAnswerSent /\ SessionHasSocket
  BY DEF IdleBounded, TimelyAnswerSent, SessionHasSocket
<1> QED
  BY <1>1, <1>2, <1>3 DEF WsInv

\* IdleBounded is what AgeFollowsClock says at any place of the clock.
LEMMA IdleIsBounded == TypeOK /\ AgeFollowsClock => IdleBounded
  BY IntervalAssumption DEF TypeOK, AgeFollowsClock, IdleBounded, Old

\* Every step of peers, framework, timer and stop() keeps WsInv.
LEMMA WsNext == WsInv /\ [Next]_vars => WsInv'
<1> SUFFICES ASSUME WsInv, [Next]_vars PROVE WsInv'
  OBVIOUS
<1> USE IntervalAssumption DEF Old, Slow
<1>0. /\ TypeOK /\ TimelyAnswerSent /\ SessionHasSocket
      /\ AgeFollowsClock /\ WorkKeepsOpen /\ UnpackedLate
  BY DEF WsInv
<1>1. ASSUME NEW s \in Sockets, connect(s) PROVE WsInv'
  <2>1. TypeOK'
    BY <1>0, <1>1 DEF connect, TypeOK
  <2>2. SessionHasSocket'
    BY <1>0, <1>1 DEF connect, SessionHasSocket, TypeOK
  <2>3. AgeFollowsClock'
    BY <1>0, <1>1 DEF connect, AgeFollowsClock, TypeOK
  <2>4. WorkKeepsOpen'
    BY <1>0, <1>1 DEF connect, WorkKeepsOpen, TypeOK
  <2>5. UnpackedLate'
    BY <1>0, <1>1 DEF connect, UnpackedLate, TypeOK
  <2>6. TimelyAnswerSent'
    BY <1>0, <1>1 DEF connect, TimelyAnswerSent
  <2>7. IdleBounded'
    BY <2>1, <2>3 DEF TypeOK, AgeFollowsClock, IdleBounded
  <2> QED
    BY <2>1, <2>2, <2>3, <2>4, <2>5, <2>6, <2>7 DEF WsInv
<1>2. ASSUME NEW s \in Sockets, receiveMessage(s) PROVE WsInv'
  <2>1. TypeOK'
    BY <1>0, <1>2 DEF receiveMessage, Clients, TypeOK
  <2>2. AgeFollowsClock'
    BY <1>0, <1>2 DEF receiveMessage, Clients, AgeFollowsClock, TypeOK
  <2>3. WorkKeepsOpen'
    <3>1. /\ timely'[s] <=> sock[s] = "open"
          /\ \A t \in Sockets \ {s} : timely'[t] = timely[t]
      BY <1>0, <1>2 DEF receiveMessage, TypeOK
    <3>2. /\ sock' = sock /\ closer' = closer /\ sock[s] \in {"open", "closing"}
          /\ age'[s] = 0 /\ took'[s] = 0
          /\ \A t \in Sockets \ {s} :
                age'[t] = age[t] /\ took'[t] = took[t] /\ work'[t] = work[t]
      BY <1>0, <1>2 DEF receiveMessage, Clients, TypeOK
    <3>3. sock[s] = "open" => closer[s] = "none"
      BY <1>0 DEF TypeOK
    <3> QED
      BY <1>0, <3>1, <3>2, <3>3 DEF WorkKeepsOpen, TypeOK
  <2>4. UnpackedLate'
    BY <1>0, <1>2 DEF receiveMessage, Clients, UnpackedLate, TypeOK
  <2>5. TimelyAnswerSent' /\ SessionHasSocket'
    BY <1>0, <1>2 DEF receiveMessage, TimelyAnswerSent, SessionHasSocket
  <2>6. IdleBounded'
    BY <2>1, <2>2 DEF TypeOK, AgeFollowsClock, IdleBounded
  <2> QED
    BY <2>1, <2>2, <2>3, <2>4, <2>5, <2>6 DEF WsInv
<1>3. ASSUME NEW s \in Sockets, saveSession(s) PROVE WsInv'
  <2>1. TypeOK'
    BY <1>0, <1>3 DEF saveSession, TypeOK
  <2>2. SessionHasSocket'
    BY <1>0, <1>3 DEF saveSession, SessionHasSocket, UnpackedLate, TypeOK
  <2>3. WorkKeepsOpen'
    BY <1>0, <1>3 DEF saveSession, WorkKeepsOpen, TypeOK
  <2>4. UnpackedLate'
    BY <1>0, <1>3 DEF saveSession, UnpackedLate, TypeOK
  <2>5. TimelyAnswerSent' /\ AgeFollowsClock'
    BY <1>0, <1>3 DEF saveSession, TimelyAnswerSent, AgeFollowsClock
  <2>6. IdleBounded'
    BY <2>1, <2>5 DEF TypeOK, AgeFollowsClock, IdleBounded
  <2> QED
    BY <2>1, <2>2, <2>3, <2>4, <2>5, <2>6 DEF WsInv
<1>4. ASSUME NEW s \in Sockets, receiveFails(s) PROVE WsInv'
  <2>1. TypeOK'
    BY <1>0, <1>4 DEF receiveFails, TypeOK
  <2>2. WorkKeepsOpen'
    BY <1>0, <1>4 DEF receiveFails, WorkKeepsOpen, TypeOK
  <2>3. UnpackedLate'
    BY <1>0, <1>4 DEF receiveFails, UnpackedLate, TypeOK
  <2>4. TimelyAnswerSent' /\ SessionHasSocket' /\ AgeFollowsClock'
    BY <1>0, <1>4 DEF receiveFails, TimelyAnswerSent, SessionHasSocket, AgeFollowsClock
  <2>5. IdleBounded'
    BY <2>1, <2>4 DEF TypeOK, AgeFollowsClock, IdleBounded
  <2> QED
    BY <2>1, <2>2, <2>3, <2>4, <2>5 DEF WsInv
<1>5. ASSUME NEW s \in Sockets, send(s) PROVE WsInv'
  <2>1. TypeOK'
    BY <1>0, <1>5 DEF send, Circumstance, TypeOK
  <2>2. TimelyAnswerSent'
    <3>1. sock[s] # "open" /\ timely[s] => closer[s] = "peer" \/ took[s] > Interval
      BY <1>0, <1>5 DEF send, WorkKeepsOpen, TypeOK
    <3>2. \A l \in lost' \ lost : l = Circumstance(s) /\ sock[s] # "open"
      BY <1>5 DEF send
    <3>3. /\ Circumstance(s).timely = timely[s] /\ Circumstance(s).closer = closer[s]
          /\ Circumstance(s).took = took[s]
      BY DEF Circumstance
    <3> QED
      BY <1>0, <3>1, <3>2, <3>3 DEF TimelyAnswerSent
  <2>3. AgeFollowsClock'
    BY <1>0, <1>5 DEF send, Circumstance, AgeFollowsClock, TypeOK
  <2>4. WorkKeepsOpen'
    BY <1>0, <1>5 DEF send, Circumstance, WorkKeepsOpen, TypeOK
  <2>5. UnpackedLate'
    BY <1>0, <1>5 DEF send, Circumstance, UnpackedLate, TypeOK
  <2>6. SessionHasSocket'
    BY <1>0, <1>5 DEF send, SessionHasSocket
  <2>7. IdleBounded'
    BY <2>1, <2>3 DEF TypeOK, AgeFollowsClock, IdleBounded
  <2> QED
    BY <2>1, <2>2, <2>3, <2>4, <2>5, <2>6, <2>7 DEF WsInv
<1>6. ASSUME NEW s \in Sockets, peerCloses(s) PROVE WsInv'
  <2>1. TypeOK'
    BY <1>0, <1>6 DEF peerCloses, closed, TypeOK
  <2>2. SessionHasSocket'
    BY <1>0, <1>6 DEF peerCloses, closed, SessionHasSocket, TypeOK
  <2>3. AgeFollowsClock'
    BY <1>0, <1>6 DEF peerCloses, closed, AgeFollowsClock, TypeOK
  <2>4. WorkKeepsOpen'
    BY <1>0, <1>6 DEF peerCloses, closed, WorkKeepsOpen, TypeOK
  <2>5. UnpackedLate'
    BY <1>0, <1>6 DEF peerCloses, closed, UnpackedLate, TypeOK
  <2>6. TimelyAnswerSent'
    BY <1>0, <1>6 DEF peerCloses, closed, TimelyAnswerSent
  <2>7. IdleBounded'
    BY <2>1, <2>3 DEF TypeOK, AgeFollowsClock, IdleBounded
  <2> QED
    BY <2>1, <2>2, <2>3, <2>4, <2>5, <2>6, <2>7 DEF WsInv
<1>7. ASSUME NEW s \in Sockets, closeEvent(s) PROVE WsInv'
  <2>1. TypeOK'
    BY <1>0, <1>7 DEF closeEvent, closed, TypeOK
  <2>2. SessionHasSocket'
    BY <1>0, <1>7 DEF closeEvent, closed, SessionHasSocket, TypeOK
  <2>3. AgeFollowsClock'
    BY <1>0, <1>7 DEF closeEvent, closed, AgeFollowsClock, TypeOK
  <2>4. WorkKeepsOpen'
    BY <1>0, <1>7 DEF closeEvent, closed, WorkKeepsOpen, TypeOK
  <2>5. UnpackedLate'
    BY <1>0, <1>7 DEF closeEvent, closed, UnpackedLate, TypeOK
  <2>6. TimelyAnswerSent'
    BY <1>0, <1>7 DEF closeEvent, closed, TimelyAnswerSent
  <2>7. IdleBounded'
    BY <2>1, <2>3 DEF TypeOK, AgeFollowsClock, IdleBounded
  <2> QED
    BY <2>1, <2>2, <2>3, <2>4, <2>5, <2>6, <2>7 DEF WsInv
<1>8. CASE tick
  <2>1. TypeOK'
    BY <1>0, <1>8 DEF tick, Clients, Upto, TypeOK
  <2>2. AgeFollowsClock'
    <3>1. /\ sock' = sock /\ ~due /\ clock \in 0..(Interval - 1)
          /\ \/ clock + 1 = Interval /\ clock' = 0 /\ due'
             \/ clock + 1 < Interval /\ clock' = clock + 1 /\ ~due'
      <4>1. due' <=> clock' = 0
        BY <1>8 DEF tick
      <4>2. /\ sock' = sock /\ ~due /\ clock \in 0..(Interval - 1)
            /\ clock' = IF clock + 1 = Interval THEN 0 ELSE clock + 1
        BY <1>0, <1>8 DEF tick, TypeOK
      <4> QED
        BY <4>1, <4>2
    <3>2. \A s \in Sockets : sock[s] = "open" =>
             age[s] \in Nat /\ age'[s] <= age[s] + 1 /\ age'[s] \in Nat
      BY <1>0, <1>8 DEF tick, Clients, Upto, TypeOK
    <3> QED
      BY <1>0, <3>1, <3>2 DEF AgeFollowsClock
  <2>3. WorkKeepsOpen'
    BY <1>0, <1>8 DEF tick, Clients, Upto, WorkKeepsOpen, TypeOK
  <2>4. TimelyAnswerSent' /\ SessionHasSocket' /\ UnpackedLate'
    BY <1>0, <1>8 DEF tick, TimelyAnswerSent, SessionHasSocket, UnpackedLate
  <2>5. IdleBounded'
    BY <2>1, <2>2 DEF TypeOK, AgeFollowsClock, IdleBounded
  <2> QED
    BY <2>1, <2>2, <2>3, <2>4, <2>5 DEF WsInv
<1>9. CASE startIdleSocketTimer
  <2>1. TypeOK'
    BY <1>0, <1>9 DEF startIdleSocketTimer, Idle, Clients, TypeOK
  <2>2. SessionHasSocket'
    BY <1>0, <1>9 DEF startIdleSocketTimer, Idle, Clients, SessionHasSocket, TypeOK
  <2>3. AgeFollowsClock'
    BY <1>0, <1>9 DEF startIdleSocketTimer, Idle, Clients, AgeFollowsClock, TypeOK
  <2>4. WorkKeepsOpen'
    BY <1>0, <1>9 DEF startIdleSocketTimer, Idle, Clients, WorkKeepsOpen, TypeOK
  <2>5. UnpackedLate'
    BY <1>0, <1>9 DEF startIdleSocketTimer, Idle, Clients, UnpackedLate, TypeOK
  <2>6. TimelyAnswerSent'
    BY <1>0, <1>9 DEF startIdleSocketTimer, TimelyAnswerSent
  <2>7. IdleBounded'
    BY <2>1, <2>3 DEF TypeOK, AgeFollowsClock, IdleBounded
  <2> QED
    BY <2>1, <2>2, <2>3, <2>4, <2>5, <2>6, <2>7 DEF WsInv
<1>10. CASE stop
  <2>1. TypeOK'
    BY <1>0, <1>10 DEF stop, TypeOK
  <2>2. /\ TimelyAnswerSent' /\ SessionHasSocket'
        /\ AgeFollowsClock' /\ WorkKeepsOpen' /\ UnpackedLate'
    BY <1>0, <1>10
       DEF stop, TimelyAnswerSent, SessionHasSocket, AgeFollowsClock, WorkKeepsOpen,
           UnpackedLate
  <2>3. IdleBounded'
    BY <2>1, <2>2 DEF TypeOK, AgeFollowsClock, IdleBounded
  <2> QED
    BY <2>1, <2>2, <2>3 DEF WsInv
<1>11. CASE stopped
  <2>1. TypeOK'
    BY <1>0, <1>11 DEF stopped, TypeOK
  <2>2. /\ TimelyAnswerSent' /\ SessionHasSocket'
        /\ AgeFollowsClock' /\ WorkKeepsOpen' /\ UnpackedLate'
    BY <1>0, <1>11
       DEF stopped, TimelyAnswerSent, SessionHasSocket, AgeFollowsClock, WorkKeepsOpen,
           UnpackedLate
  <2>3. IdleBounded'
    BY <2>1, <2>2 DEF TypeOK, AgeFollowsClock, IdleBounded
  <2> QED
    BY <2>1, <2>2, <2>3 DEF WsInv
<1>12. CASE UNCHANGED vars
  BY <1>0, <1>12, IdleIsBounded
     DEF vars, WsInv, TypeOK, TimelyAnswerSent, SessionHasSocket, AgeFollowsClock,
         WorkKeepsOpen, UnpackedLate, IdleBounded
<1> QED
  BY <1>1, <1>2, <1>3, <1>4, <1>5, <1>6, <1>7, <1>8, <1>9, <1>10, <1>11, <1>12 DEF Next

\* No inbound socket stays open for more than two intervals without activity,
\* and no answer in time is lost to the idle timer of VsAgentWsInboundTransport:
\* only a peer that hung up or a handler slower than the interval loses one.
THEOREM WsInvariance == Spec => []WsInv
<1>1. Init => WsInv
  BY WsBegins
<1>2. WsInv /\ [Next]_vars => WsInv'
  BY WsNext
<1> QED
  BY <1>1, <1>2, PTL DEF Spec

-----------------------------------------------------------------------------
\* The start and its probes, for any number of attempts and of failures.

\* Where the admin API listens.
Listens ==
    {"migrate", "migrating", "events", "indexer", "starting", "ecs", "running"}

\* What the probes read says what was done.
StartInv ==
    /\ Boot!TypeOK
    /\ listening => bootAt \in Listens
    /\ bootAt \in {"config", "chain", "agent", "servers", "migrate", "exited"} =>
         migrationAttempt = 0 /\ inFlight = 0 /\ ~retry
    /\ bootAt \in Listens \cup {"servers"} => \A s \in Boot!StepNames : steps[s] # "none"
    /\ steps[Boot!Migration] = "completed" => migrated
    /\ steps[Boot!Subscription] = "completed" => sync # "none"
    /\ sync \in {"synced", "disconnected"} => everSynced

LEMMA StartBegins == Boot!Init => StartInv
<1> SUFFICES ASSUME Boot!Init PROVE StartInv
  OBVIOUS
<1> USE BootBounds
<1>1. /\ listening = FALSE /\ retry = FALSE /\ everSynced = FALSE /\ webhook = FALSE
      /\ migrated = FALSE /\ posted = TRUE
  BY DEF Boot!Init
<1>2. {listening, retry, everSynced, webhook, migrated, posted} \subseteq BOOLEAN
  BY <1>1, Zenon
<1>3. steps \in [Boot!StepNames -> Boot!StepStates] /\ \A s \in Boot!StepNames : steps[s] = "none"
  BY DEF Boot!Init, Boot!StepStates
<1>4. Boot!TypeOK
  BY <1>2, <1>3 DEF Boot!Init, Boot!TypeOK
<1> QED
  BY <1>1, <1>3, <1>4 DEF Boot!Init, StartInv, Listens, Boot!StepNames, Boot!Migration, Boot!Subscription

\* A step is completed or failed, and the other one stays.
LEMMA StepReported ==
    ASSUME StartInv, NEW x \in Boot!StepNames, NEW v \in {"completed", "failed"},
           steps' = [steps EXCEPT ![x] = v]
    PROVE  /\ steps' \in [Boot!StepNames -> Boot!StepStates]
           /\ steps'[x] = v /\ \A s \in Boot!StepNames : s # x => steps'[s] = steps[s]
  BY DEF StartInv, Boot!TypeOK, Boot!StepStates

\* Every step of the start, of the migration and of the subscription keeps it.
LEMMA StartNext == StartInv /\ [Boot!Next]_startupVars => StartInv'
<1> SUFFICES ASSUME StartInv, [Boot!Next]_startupVars PROVE StartInv'
  OBVIOUS
<1> USE BootBounds
<1>a. {listening, retry, everSynced, webhook, migrated, posted} \subseteq BOOLEAN
  BY DEF StartInv, Boot!TypeOK
<1>b. /\ listening \in BOOLEAN /\ retry \in BOOLEAN /\ everSynced \in BOOLEAN
      /\ webhook \in BOOLEAN /\ migrated \in BOOLEAN /\ posted \in BOOLEAN
  BY <1>a
<1>c. "vtjsc-service-id-migration" # "indexer-subscription"
  OBVIOUS
<1>1. CASE Boot!throws
  <2>1. {listening', retry', everSynced', webhook', migrated', posted'} \subseteq BOOLEAN
    BY <1>b, <1>1, Zenon DEF Boot!throws, Boot!progress, Boot!indexer
  <2> QED
    BY <1>1, <2>1 DEF Boot!throws, Boot!fails, Boot!progress, Boot!indexer, StartInv, Boot!TypeOK, Listens
<1>2. CASE Boot!readConfig \/ Boot!startChain
  <2>1. {listening', retry', everSynced', webhook', migrated', posted'} \subseteq BOOLEAN
    BY <1>b, <1>2, Zenon DEF Boot!readConfig, Boot!startChain, Boot!progress, Boot!indexer
  <2> QED
    BY <1>2, <2>1 DEF Boot!readConfig, Boot!startChain, Boot!progress, Boot!indexer, StartInv, Boot!TypeOK, Listens
<1>3. CASE Boot!setupAgent
  <2>1. {listening', retry', everSynced', webhook', migrated', posted'} \subseteq BOOLEAN
    BY <1>b, <1>3, Zenon DEF Boot!setupAgent, Boot!progress, Boot!indexer
  <2>2. /\ steps' \in [Boot!StepNames -> Boot!StepStates]
        /\ \A s \in Boot!StepNames : steps'[s] = "pending"
    BY <1>3 DEF Boot!setupAgent, Boot!StepStates
  <2>3. Boot!Migration \in Boot!StepNames /\ Boot!Subscription \in Boot!StepNames
    BY DEF Boot!StepNames
  <2> QED
    BY <1>3, <2>1, <2>2, <2>3 DEF Boot!setupAgent, Boot!progress, Boot!indexer, StartInv, Boot!TypeOK, Listens
<1>4. CASE Boot!startServers
  <2>1. {listening', retry', everSynced', webhook', migrated', posted'} \subseteq BOOLEAN
    BY <1>b, <1>4, Zenon DEF Boot!startServers, Boot!progress, Boot!indexer
  <2> QED
    BY <1>4, <2>1 DEF Boot!startServers, Boot!progress, Boot!indexer, StartInv, Boot!TypeOK, Listens
<1>5. CASE Boot!firstAttempt
  <2>1. {listening', retry', everSynced', webhook', migrated', posted'} \subseteq BOOLEAN
    BY <1>b, <1>5, Zenon DEF Boot!firstAttempt, Boot!attemptOnce, Boot!indexer
  <2>2. bootAt' \in Listens /\ bootAt \in Listens /\ bootAt' = "migrating"
    BY <1>5 DEF Boot!firstAttempt, Boot!attemptOnce, Listens
  <2>3. migrationAttempt' \in 0..AttemptCap /\ inFlight' \in 0..migrationAttempt'
    BY <1>5 DEF Boot!firstAttempt, Boot!attemptOnce, StartInv, Boot!TypeOK
  <2> QED
    BY <1>5, <2>1, <2>2, <2>3 DEF Boot!firstAttempt, Boot!attemptOnce, Boot!indexer, StartInv, Boot!TypeOK, Listens
<1>6. CASE Boot!intervalFires
  <2>1. {listening', retry', everSynced', webhook', migrated', posted'} \subseteq BOOLEAN
    BY <1>b, <1>6, Zenon DEF Boot!intervalFires, Boot!attemptOnce, Boot!indexer
  <2>2. migrationAttempt' \in 0..AttemptCap /\ inFlight' \in 0..migrationAttempt'
    BY <1>6 DEF Boot!intervalFires, Boot!attemptOnce, StartInv, Boot!TypeOK
  <2> QED
    BY <1>6, <2>1, <2>2 DEF Boot!intervalFires, Boot!attemptOnce, Boot!indexer, StartInv, Boot!TypeOK
<1>7. CASE Boot!attemptSucceeds
  <2>1. {listening', retry', everSynced', webhook', migrated', posted'} \subseteq BOOLEAN
    <3>1. /\ migrated' = TRUE /\ retry' = FALSE
          /\ UNCHANGED <<listening, everSynced, webhook, posted>>
      BY <1>7 DEF Boot!attemptSucceeds, Boot!indexer
    <3> QED
      BY <1>b, <3>1, Zenon
  <2>2. /\ steps' \in [Boot!StepNames -> Boot!StepStates]
        /\ steps'[Boot!Migration] = "completed"
        /\ \A s \in Boot!StepNames : s # Boot!Migration => steps'[s] = steps[s]
    BY <1>7, StepReported DEF Boot!attemptSucceeds, Boot!complete, Boot!StepNames
  <2>3. Boot!Subscription \in Boot!StepNames /\ Boot!Subscription # Boot!Migration
    BY <1>c DEF Boot!StepNames, Boot!Subscription, Boot!Migration
  <2>4. bootAt \in Listens \ {"migrate"} /\ bootAt' \in Listens \ {"migrate"}
    BY <1>7 DEF Boot!attemptSucceeds, Boot!AfterFirst, StartInv, Boot!TypeOK, Listens
  <2>5. inFlight' \in 0..migrationAttempt' /\ migrationAttempt' = migrationAttempt
    BY <1>7 DEF Boot!attemptSucceeds, StartInv, Boot!TypeOK
  <2> QED
    BY <1>7, <2>1, <2>2, <2>3, <2>4, <2>5
       DEF Boot!attemptSucceeds, Boot!indexer, StartInv, Boot!TypeOK, Listens
<1>8. CASE Boot!attemptFails
  <2>1. {listening', retry', everSynced', webhook', migrated', posted'} \subseteq BOOLEAN
    <3>1. retry' \in BOOLEAN
      BY <1>b, <1>8, Zenon DEF Boot!attemptFails
    <3> QED
      BY <1>b, <1>8, <3>1, Zenon DEF Boot!attemptFails, Boot!indexer
  <2>2. /\ steps' \in [Boot!StepNames -> Boot!StepStates]
        /\ steps'[Boot!Migration] \in {"failed", steps[Boot!Migration]}
        /\ \A s \in Boot!StepNames : s # Boot!Migration => steps'[s] = steps[s]
    <3>1. CASE UNCHANGED steps
      BY <3>1 DEF StartInv, Boot!TypeOK
    <3>2. CASE Boot!fail(Boot!Migration)
      BY <3>2, StepReported DEF Boot!fail, Boot!StepNames
    <3> QED
      BY <1>8, <3>1, <3>2 DEF Boot!attemptFails
  <2>3. /\ Boot!Subscription \in Boot!StepNames /\ Boot!Subscription # Boot!Migration
        /\ Boot!Migration \in Boot!StepNames
    BY <1>c DEF Boot!StepNames, Boot!Subscription, Boot!Migration
  <2>4. bootAt \in Listens \ {"migrate"} /\ bootAt' \in Listens \ {"migrate"}
    BY <1>8 DEF Boot!attemptFails, Boot!AfterFirst, StartInv, Boot!TypeOK, Listens
  <2>5. inFlight' \in 0..migrationAttempt' /\ migrationAttempt' = migrationAttempt
    BY <1>8 DEF Boot!attemptFails, StartInv, Boot!TypeOK
  <2>6. bootFailures' \in 0..MaxBootFails
    BY <1>8 DEF Boot!attemptFails, Boot!fails, StartInv, Boot!TypeOK
  <2>7. /\ sync' = sync /\ everSynced' = everSynced /\ migrated' = migrated /\ ecs' = ecs
        /\ listening' = listening
    BY <1>8 DEF Boot!attemptFails, Boot!indexer
  <2> QED
    BY <2>1, <2>2, <2>3, <2>4, <2>5, <2>6, <2>7 DEF StartInv, Boot!TypeOK, Listens
<1>9. CASE Boot!registerEvents
  <2>1. {listening', retry', everSynced', webhook', migrated', posted'} \subseteq BOOLEAN
    <3>1. webhook' = TRUE /\ UNCHANGED <<listening, retry, everSynced, migrated, posted>>
      BY <1>9 DEF Boot!registerEvents, Boot!progress, Boot!indexer
    <3> QED
      BY <1>b, <3>1, Zenon
  <2> QED
    BY <1>9, <2>1 DEF Boot!registerEvents, Boot!progress, Boot!indexer, StartInv, Boot!TypeOK, Listens
<1>10. CASE Boot!subscribe
  <2>1. {listening', retry', everSynced', webhook', migrated', posted'} \subseteq BOOLEAN
    BY <1>b, <1>10, Zenon DEF Boot!subscribe, Boot!progress
  <2>2. /\ steps' \in [Boot!StepNames -> Boot!StepStates]
        /\ steps'[Boot!Subscription] = "completed"
        /\ \A s \in Boot!StepNames : s # Boot!Subscription => steps'[s] = steps[s]
    BY <1>10, StepReported DEF Boot!subscribe, Boot!complete, Boot!StepNames
  <2>3. Boot!Migration \in Boot!StepNames /\ Boot!Subscription # Boot!Migration
    BY <1>c DEF Boot!StepNames, Boot!Subscription, Boot!Migration
  <2> QED
    BY <1>10, <2>1, <2>2, <2>3 DEF Boot!subscribe, Boot!progress, StartInv, Boot!TypeOK, Listens
<1>11. CASE Boot!indexerSteps
  <2>1. everSynced' \in BOOLEAN
    <3>1. everSynced' = everSynced \/ everSynced' = TRUE
      BY <1>11 DEF Boot!indexerSteps
    <3> QED
      BY <1>b, <3>1, Zenon
  <2>2. {listening', retry', everSynced', webhook', migrated', posted'} \subseteq BOOLEAN
    BY <1>b, <1>11, <2>1, Zenon DEF Boot!indexerSteps, Boot!progress
  <2> QED
    BY <1>11, <2>2 DEF Boot!indexerSteps, Boot!progress, StartInv, Boot!TypeOK
<1>12. CASE Boot!indexerDrops
  <2>1. {listening', retry', everSynced', webhook', migrated', posted'} \subseteq BOOLEAN
    BY <1>b, <1>12, Zenon DEF Boot!indexerDrops, Boot!progress
  <2> QED
    BY <1>12, <2>1 DEF Boot!indexerDrops, Boot!fails, Boot!progress, StartInv, Boot!TypeOK
<1>13. CASE Boot!startReturns \/ Boot!runEcsBootstrap
  <2>1. {listening', retry', everSynced', webhook', migrated', posted'} \subseteq BOOLEAN
    BY <1>b, <1>13, Zenon DEF Boot!startReturns, Boot!runEcsBootstrap, Boot!progress, Boot!indexer
  <2> QED
    BY <1>13, <2>1 DEF Boot!startReturns, Boot!runEcsBootstrap, Boot!progress, Boot!indexer, StartInv, Boot!TypeOK, Listens
<1>14. CASE Boot!ecsBootstrapEnds
  <2>1. {listening', retry', everSynced', webhook', migrated', posted'} \subseteq BOOLEAN
    BY <1>b, <1>14, Zenon DEF Boot!ecsBootstrapEnds, Boot!progress, Boot!indexer
  <2> QED
    BY <1>14, <2>1 DEF Boot!ecsBootstrapEnds, Boot!fails, Boot!progress, Boot!indexer, StartInv, Boot!TypeOK
<1>15. CASE Boot!adminEvent
  <2>1. posted' \in BOOLEAN
    BY <1>b, <1>15, Zenon DEF Boot!adminEvent
  <2>2. {listening', retry', everSynced', webhook', migrated', posted'} \subseteq BOOLEAN
    BY <1>b, <1>15, <2>1, Zenon DEF Boot!adminEvent, Boot!progress, Boot!indexer
  <2> QED
    BY <1>15, <2>2 DEF Boot!adminEvent, Boot!progress, Boot!indexer, StartInv, Boot!TypeOK
<1>16. CASE Boot!restart
  <2>1. {listening', retry', everSynced', webhook', migrated', posted'} \subseteq BOOLEAN
    <3>1. /\ listening' = FALSE /\ retry' = FALSE /\ everSynced' = FALSE /\ webhook' = FALSE
          /\ UNCHANGED <<migrated, posted>>
      BY <1>16 DEF Boot!restart
    <3> QED
      BY <1>b, <3>1, Zenon
  <2>2. steps' \in [Boot!StepNames -> Boot!StepStates] /\ \A s \in Boot!StepNames : steps'[s] = "none"
    BY <1>16 DEF Boot!restart, Boot!StepStates
  <2>3. Boot!Migration \in Boot!StepNames /\ Boot!Subscription \in Boot!StepNames
    BY DEF Boot!StepNames
  <2> QED
    BY <1>16, <2>1, <2>2, <2>3 DEF Boot!restart, StartInv, Boot!TypeOK, Listens
<1>17. CASE UNCHANGED startupVars
  <2>1. {listening', retry', everSynced', webhook', migrated', posted'} \subseteq BOOLEAN
    BY <1>b, <1>17, Zenon DEF startupVars
  <2> QED
    BY <1>17, <2>1 DEF startupVars, StartInv, Boot!TypeOK
<1> QED
  BY <1>1, <1>2, <1>3, <1>4, <1>5, <1>6, <1>7, <1>8, <1>9, <1>10, <1>11, <1>12, <1>13, <1>14, <1>15,
     <1>16, <1>17 DEF Boot!Next, Boot!starts

\* The answer of the probe, from what is behind it.
LEMMA StartIsDone == StartInv => Boot!TypeOK /\ Boot!ReadyIsDone
<1> SUFFICES ASSUME StartInv, listening, Boot!readiness PROVE migrated /\ everSynced
  BY DEF StartInv, Boot!ReadyIsDone
<1>1. Boot!Migration \in Boot!StepNames /\ Boot!Subscription \in Boot!StepNames
  BY DEF Boot!StepNames
<1>2. \A s \in Boot!StepNames : steps[s] = "completed"
  BY DEF StartInv, Boot!TypeOK, Boot!StepStates, Boot!readiness
<1>3. sync \notin {"none", "never-synced", "catching-up"}
  BY <1>1, <1>2 DEF StartInv, Boot!readiness
<1>4. sync \in {"none", "never-synced", "catching-up", "disconnected", "synced"}
  BY DEF StartInv, Boot!TypeOK
<1> QED
  BY <1>1, <1>2, <1>3, <1>4 DEF StartInv

-----------------------------------------------------------------------------
\* The public DID, for any locations and endpoints and any number of crashes,
\* failed updates and changed configurations.

\* The document serves this start's configuration.
Serves(d) == d.artifacts = {config.method} /\ d.admin = config.admin

\* The records, and what a start has brought them to.
DidTypes ==
    /\ Identity!TypeOK
    /\ keys \in Nat \ {0}
    /\ dids \in [Identity!Methods -> [location : Locations \cup {"none"}, doc : Identity!Docs, mapped : Nat]]

MappingsAgree ==
    \A mt \in Identity!Methods :
      dids[mt].mapped # 0 => dids[mt].doc.agreement \in {0, dids[mt].mapped}

DidSteps ==
    /\ didAt \in {"start", "keys"} => newKey = 0
    /\ didAt = "keys" => config.method = "webvh" /\ dids["webvh"].doc.agreement = 0
    /\ didAt = "publish" =>
         /\ Serves(doc)
         /\ IF newKey # 0 THEN doc.agreement = newKey /\ Identity!Record.mapped = 0
            ELSE doc.agreement \in {0, Identity!Record.mapped}
    /\ didAt = "map" =>
         newKey # 0 /\ Identity!Record.doc.agreement = newKey /\ Serves(Identity!Record.doc)
    /\ didAt \in {"invite", "running"} =>
         Identity!Record.doc.agreement \in {0, Identity!Record.mapped} /\ Serves(Identity!Record.doc)
    /\ didAt = "running" => invited

IdentityInv == DidTypes /\ MappingsAgree /\ DidSteps

\* The values of a record of the wallet.
DidRecords == [location : Locations \cup {"none"}, doc : Identity!Docs, mapped : Nat]

\* The services of the configuration, and the keys of the agent, in a document.
LEMMA ServicesIn ==
    ASSUME DidTypes, NEW d \in Identity!Docs
    PROVE  /\ Identity!WithServices(d) \in Identity!Docs
           /\ Identity!WithServices(d).agreement = d.agreement
           /\ Serves(Identity!WithServices(d))
  BY DEF DidTypes, Identity!TypeOK, Identity!WithServices, Identity!Docs, Serves

LEMMA KeysIn ==
    ASSUME DidTypes, NEW d \in Identity!Docs
    PROVE  /\ Identity!WithDidCommKeys(d) \in Identity!Docs
           /\ Identity!WithDidCommKeys(d).agreement = keys + 1
           /\ Serves(Identity!WithDidCommKeys(d))
<1> DEFINE e == [d EXCEPT !.ed = d.ed \cup {"own"}, !.agreement = keys + 1, !.didcomm = "own"]
<1>1. keys + 1 \in Nat /\ d.ed \cup {"own"} \in SUBSET {"update", "own"}
  BY DEF DidTypes, Identity!Docs
<1>2. e \in Identity!Docs /\ e.agreement = keys + 1
  BY <1>1 DEF Identity!Docs
<1>3. Identity!WithDidCommKeys(d) = Identity!WithServices(e)
  BY DEF Identity!WithDidCommKeys
<1> HIDE DEF e
<1> QED
  BY <1>2, <1>3, ServicesIn

\* Nothing is in an empty document.
LEMMA EmptyIn ==
    /\ Identity!EmptyDoc \in Identity!Docs /\ Identity!EmptyDoc.agreement = 0
    /\ [Identity!EmptyDoc EXCEPT !.ed = {"update"}] \in Identity!Docs
    /\ [Identity!EmptyDoc EXCEPT !.ed = {"update"}].agreement = 0
    /\ Identity!NoDid \in DidRecords /\ Identity!NoDid.mapped = 0
    /\ Identity!NoDid.doc = Identity!EmptyDoc /\ Identity!NoDid.location = "none"
  BY DEF Identity!EmptyDoc, Identity!Docs, Identity!Admins, Identity!NoDid, DidRecords

\* The parts of DidTypes that concern the records, of one record changed.
LEMMA RecordChanged ==
    ASSUME DidTypes, NEW mt \in Identity!Methods, NEW r \in DidRecords, NEW k \in Nat, keys <= k,
           r.mapped \in {0} \cup 2..k, r.doc.agreement \in 0..k,
           dids' = [dids EXCEPT ![mt] = r]
    PROVE  /\ dids' \in [Identity!Methods -> DidRecords]
           /\ \A x \in Identity!Methods :
                /\ dids'[x].location \in Locations \cup {"none"} /\ dids'[x].doc \in Identity!Docs
                /\ dids'[x].mapped \in {0} \cup 2..k /\ dids'[x].doc.agreement \in 0..k
           /\ dids'[mt] = r /\ \A x \in Identity!Methods : x # mt => dids'[x] = dids[x]
<1>1. dids \in [Identity!Methods -> DidRecords]
  BY DEF DidTypes, DidRecords
<1>2. dids' \in [Identity!Methods -> DidRecords]
  BY <1>1
<1>3. dids'[mt] = r /\ \A x \in Identity!Methods : x # mt => dids'[x] = dids[x]
  BY <1>1
<1>4. \A x \in Identity!Methods : dids[x].mapped \in {0} \cup 2..k /\ dids[x].doc.agreement \in 0..k
  BY DEF DidTypes, Identity!TypeOK
<1>5. \A x \in Identity!Methods : dids'[x].mapped \in {0} \cup 2..k /\ dids'[x].doc.agreement \in 0..k
  BY <1>3, <1>4
<1> QED
  BY <1>2, <1>3, <1>5 DEF DidRecords

LEMMA IdentityBegins == Identity!Init => IdentityInv
<1> SUFFICES ASSUME Identity!Init PROVE IdentityInv
  OBVIOUS
<1> USE DidAssumption, EmptyIn
<1>1. /\ config \in [method : Identity!Methods, location : Locations, admin : Identity!Admins]
      /\ invited = FALSE /\ keys = 1 /\ didAt = "start" /\ doc = Identity!EmptyDoc /\ newKey = 0
      /\ didFaults = 0
  BY DEF Identity!Init, Identity!Derived
<1>2. /\ dids \in [Identity!Methods -> DidRecords]
      /\ \A mt \in Identity!Methods : dids[mt].mapped = 0 /\ dids[mt].doc.agreement \in {0, 1}
  <2>1. CASE dids = [mt \in Identity!Methods |-> Identity!NoDid]
    BY <2>1
  <2>2. ASSUME NEW owner \in Identity!Methods, NEW arts \in SUBSET Identity!Methods,
               dids = [mt \in Identity!Methods |-> IF mt = owner THEN [location |-> config.location, mapped |-> 0,
                   doc |-> [ed |-> {"own"}, agreement |-> 1, didcomm |-> "own", artifacts |-> arts,
                            admin |-> "none"]] ELSE Identity!NoDid]
        PROVE  <1>2!:
    <3>1. [ed |-> {"own"}, agreement |-> 1, didcomm |-> "own", artifacts |-> arts, admin |-> "none"]
            \in Identity!Docs
      BY DEF Identity!Docs, Identity!Admins
    <3>2. [location |-> config.location, mapped |-> 0,
           doc |-> [ed |-> {"own"}, agreement |-> 1, didcomm |-> "own", artifacts |-> arts,
                    admin |-> "none"]] \in DidRecords
      BY <1>1, <3>1 DEF DidRecords
    <3> QED
      BY <2>2, <3>2
  <2>3. \/ dids = [mt \in Identity!Methods |-> Identity!NoDid]
        \/ \E owner \in Identity!Methods, arts \in SUBSET Identity!Methods :
             dids = [mt \in Identity!Methods |-> IF mt = owner THEN [location |-> config.location, mapped |-> 0,
                   doc |-> [ed |-> {"own"}, agreement |-> 1, didcomm |-> "own", artifacts |-> arts,
                            admin |-> "none"]] ELSE Identity!NoDid]
    BY DEF Identity!Init, Identity!Derived
  <2> QED
    BY <2>1, <2>2, <2>3
<1>3. Identity!TypeOK
  <2>1. \A mt \in Identity!Methods :
          /\ dids[mt].location \in Locations \cup {"none"} /\ dids[mt].doc \in Identity!Docs
          /\ dids[mt].mapped \in {0} \cup 2..keys /\ dids[mt].doc.agreement \in 0..keys
    BY <1>1, <1>2 DEF DidRecords
  <2>2. invited \in BOOLEAN
    BY <1>1, Zenon
  <2>3. doc \in Identity!Docs /\ newKey \in {0} \cup 2..keys /\ didFaults \in 0..MaxDidFaults
    BY <1>1
  <2> QED
    BY <1>1, <2>1, <2>2, <2>3 DEF Identity!TypeOK
<1> QED
  BY <1>1, <1>2, <1>3 DEF IdentityInv, DidTypes, MappingsAgree, DidSteps, DidRecords

\* The record of the configured method.
LEMMA RecordFacts ==
    ASSUME IdentityInv
    PROVE  /\ config.method \in Identity!Methods /\ config.location \in Locations
           /\ Identity!Record = dids[config.method] /\ Identity!Record \in DidRecords
           /\ Identity!Record.mapped \in {0} \cup 2..keys /\ Identity!Record.doc.agreement \in 0..keys
           /\ Identity!Record.mapped # 0 => Identity!Record.doc.agreement \in {0, Identity!Record.mapped}
  BY DEF IdentityInv, DidTypes, MappingsAgree, Identity!TypeOK, Identity!Record, DidRecords

\* createDid: did:web has its keys and services at once, did:webvh begins with
\* the Multikey alone.
LEMMA CreateKept == IdentityInv /\ Identity!createDid => IdentityInv'
<1> SUFFICES ASSUME IdentityInv, Identity!createDid PROVE IdentityInv'
  OBVIOUS
<1> USE DidAssumption, EmptyIn
<1>0. /\ didAt = "start" /\ newKey = 0 /\ UNCHANGED <<config, invited, newKey, didFaults>>
      /\ keys \in Nat \ {0} /\ doc \in Identity!Docs /\ didFaults \in 0..MaxDidFaults
      /\ config \in [method : Identity!Methods, location : Locations, admin : Identity!Admins]
      /\ DidTypes /\ invited \in BOOLEAN
  BY DEF Identity!createDid, IdentityInv, DidSteps, DidTypes, Identity!TypeOK
<1>1. CASE config.method = "web"
  <2> DEFINE r == [location |-> config.location, doc |-> Identity!WithDidCommKeys(Identity!EmptyDoc),
                   mapped |-> keys + 1]
  <2>1. /\ keys' = keys + 1 /\ dids' = [dids EXCEPT !["web"] = r] /\ didAt' = "invite" /\ doc' = doc
    BY <1>1 DEF Identity!createDid
  <2>2. /\ r \in DidRecords /\ r.mapped = keys + 1 /\ r.doc.agreement = keys + 1 /\ Serves(r.doc)
    BY <1>0, KeysIn DEF DidRecords
  <2>3. /\ dids' \in [Identity!Methods -> DidRecords]
        /\ \A x \in Identity!Methods :
             /\ dids'[x].location \in Locations \cup {"none"} /\ dids'[x].doc \in Identity!Docs
             /\ dids'[x].mapped \in {0} \cup 2..(keys + 1) /\ dids'[x].doc.agreement \in 0..(keys + 1)
        /\ dids'["web"] = r /\ \A x \in Identity!Methods : x # "web" => dids'[x] = dids[x]
    <3>1. /\ "web" \in Identity!Methods /\ keys + 1 \in Nat /\ keys <= keys + 1
          /\ r.mapped \in {0} \cup 2..(keys + 1) /\ r.doc.agreement \in 0..(keys + 1)
      BY <1>0, <2>2 DEF Identity!Methods
    <3> HIDE DEF r
    <3> QED
      BY <1>0, <2>1, <2>2, <3>1, RecordChanged
  <2>4. DidTypes'
    BY <1>0, <2>1, <2>3 DEF DidTypes, Identity!TypeOK, DidRecords
  <2>5. MappingsAgree'
    BY <2>2, <2>3 DEF MappingsAgree, IdentityInv
  <2>6. DidSteps'
    BY <1>0, <1>1, <2>1, <2>2, <2>3 DEF DidSteps, Identity!Record, Serves
  <2> QED
    BY <2>4, <2>5, <2>6 DEF IdentityInv
<1>2. CASE config.method = "webvh"
  <2> DEFINE r == [location |-> config.location, mapped |-> 0,
                   doc |-> [Identity!EmptyDoc EXCEPT !.ed = {"update"}]]
  <2>1. /\ keys' = keys /\ dids' = [dids EXCEPT !["webvh"] = r] /\ didAt' = "keys"
        /\ doc' = [Identity!EmptyDoc EXCEPT !.ed = {"update"}]
    BY <1>2 DEF Identity!createDid
  <2>2. r \in DidRecords /\ r.mapped = 0 /\ r.doc.agreement = 0
    BY <1>0 DEF DidRecords
  <2>3. /\ dids' \in [Identity!Methods -> DidRecords]
        /\ \A x \in Identity!Methods :
             /\ dids'[x].location \in Locations \cup {"none"} /\ dids'[x].doc \in Identity!Docs
             /\ dids'[x].mapped \in {0} \cup 2..keys /\ dids'[x].doc.agreement \in 0..keys
        /\ dids'["webvh"] = r /\ \A x \in Identity!Methods : x # "webvh" => dids'[x] = dids[x]
    <3>1. "webvh" \in Identity!Methods /\ keys \in Nat /\ keys <= keys
      BY <1>0 DEF Identity!Methods
    <3>2. r.mapped \in {0} \cup 2..keys /\ r.doc.agreement \in 0..keys
      BY <1>0, <2>2
    <3> HIDE DEF r
    <3> QED
      BY <1>0, <2>1, <2>2, <3>1, <3>2, RecordChanged
  <2>4. DidTypes'
    BY <1>0, <2>1, <2>3 DEF DidTypes, Identity!TypeOK, DidRecords
  <2>5. MappingsAgree'
    BY <2>2, <2>3 DEF MappingsAgree, IdentityInv
  <2>6. DidSteps'
    BY <1>0, <1>2, <2>1, <2>2, <2>3 DEF DidSteps
  <2> QED
    BY <2>4, <2>5, <2>6 DEF IdentityInv
<1> QED
  BY <1>0, <1>1, <1>2 DEF Identity!Methods

\* mapDidCommKeys: the keys are mapped before the document names them.
LEMMA MapKept == IdentityInv /\ Identity!mapDidCommKeys => IdentityInv'
<1> SUFFICES ASSUME IdentityInv, Identity!mapDidCommKeys PROVE IdentityInv'
  OBVIOUS
<1>0. /\ didAt = "keys" /\ newKey = 0 /\ config.method = "webvh"
      /\ dids["webvh"].doc.agreement = 0
      /\ UNCHANGED <<config, invited, newKey, didFaults>>
      /\ keys \in Nat \ {0} /\ doc \in Identity!Docs /\ didFaults \in 0..MaxDidFaults
      /\ config \in [method : Identity!Methods, location : Locations, admin : Identity!Admins]
      /\ DidTypes /\ invited \in BOOLEAN
  BY DEF Identity!mapDidCommKeys, IdentityInv, DidSteps, DidTypes, Identity!TypeOK
<1> DEFINE r == [dids["webvh"] EXCEPT !.mapped = keys + 1]
<1>1. /\ keys' = keys + 1 /\ doc' = Identity!WithDidCommKeys(doc) /\ didAt' = "publish"
      /\ dids' = [dids EXCEPT !["webvh"] = r]
  BY DEF Identity!mapDidCommKeys
<1>2. "webvh" \in Identity!Methods /\ dids["webvh"] \in DidRecords
  BY <1>0 DEF DidTypes, DidRecords, Identity!Methods
<1>3. r \in DidRecords /\ r.mapped = keys + 1 /\ r.doc = dids["webvh"].doc
  BY <1>0, <1>2 DEF DidRecords
<1>4. /\ doc' \in Identity!Docs /\ doc'.agreement = keys + 1 /\ Serves(doc')
  BY <1>0, <1>1, KeysIn
<1>5. /\ dids' \in [Identity!Methods -> DidRecords]
      /\ \A x \in Identity!Methods :
           /\ dids'[x].location \in Locations \cup {"none"} /\ dids'[x].doc \in Identity!Docs
           /\ dids'[x].mapped \in {0} \cup 2..(keys + 1) /\ dids'[x].doc.agreement \in 0..(keys + 1)
      /\ dids'["webvh"] = r /\ \A x \in Identity!Methods : x # "webvh" => dids'[x] = dids[x]
  <2>1. keys + 1 \in Nat /\ keys <= keys + 1 /\ r.doc.agreement \in 0..(keys + 1)
        /\ r.mapped \in {0} \cup 2..(keys + 1)
    BY <1>0, <1>3
  <2> HIDE DEF r
  <2> QED
    BY <1>0, <1>1, <1>2, <1>3, <2>1, RecordChanged
<1>6. DidTypes'
  BY <1>0, <1>1, <1>4, <1>5 DEF DidTypes, Identity!TypeOK, DidRecords
<1>7. MappingsAgree'
  <2> SUFFICES ASSUME NEW x \in Identity!Methods, dids'[x].mapped # 0
               PROVE  dids'[x].doc.agreement \in {0, dids'[x].mapped}
    BY Zenon DEF MappingsAgree
  <2>1. CASE x = "webvh"
    BY <1>0, <1>3, <1>5, <2>1
  <2>2. CASE x # "webvh"
    <3>1. dids'[x] = dids[x]
      BY <1>5, <2>2
    <3>2. MappingsAgree
      BY DEF IdentityInv
    <3> QED
      BY <3>1, <3>2 DEF MappingsAgree
  <2> QED
    BY <2>1, <2>2
<1>8. DidSteps'
  BY <1>0, <1>1, <1>3, <1>4, <1>5 DEF DidSteps, Identity!Record, Serves
<1> QED
  BY <1>6, <1>7, <1>8 DEF IdentityInv

\* reconcile: a key agreement key that is not mapped is replaced.
LEMMA ReconcileKept == IdentityInv /\ Identity!reconcile => IdentityInv'
<1> SUFFICES ASSUME IdentityInv, Identity!reconcile PROVE IdentityInv'
  OBVIOUS
<1>0. /\ didAt = "start" /\ newKey = 0 /\ UNCHANGED <<config, dids, invited, didFaults>>
      /\ keys \in Nat \ {0} /\ didFaults \in 0..MaxDidFaults
      /\ config \in [method : Identity!Methods, location : Locations, admin : Identity!Admins]
      /\ DidTypes /\ invited \in BOOLEAN
  BY DEF Identity!reconcile, Identity!wallet, IdentityInv, DidSteps, DidTypes, Identity!TypeOK
<1> DEFINE needs == Identity!NeedsKey(Identity!Record)
           replaced == IF needs THEN [Identity!Record.doc EXCEPT !.agreement = keys + 1] ELSE Identity!Record.doc
           named == IF Identity!servicesChanged(replaced)
                    THEN [replaced EXCEPT !.didcomm = Identity!findEd25519(replaced)] ELSE replaced
<1>1. /\ doc' = Identity!WithServices(named)
      /\ didAt' = IF Identity!WithServices(named) = Identity!Record.doc THEN "invite" ELSE "publish"
      /\ IF needs THEN keys' = keys + 1 /\ newKey' = keys + 1 ELSE UNCHANGED <<keys, newKey>>
  BY DEF Identity!reconcile
<1>2. Identity!Record.doc \in Identity!Docs
  BY RecordFacts DEF DidRecords
<1>3. replaced \in Identity!Docs /\ replaced.agreement = IF needs THEN keys + 1 ELSE Identity!Record.doc.agreement
  BY <1>0, <1>2 DEF Identity!Docs
<1>4. named \in Identity!Docs /\ named.agreement = replaced.agreement
  <2> HIDE DEF replaced
  <2>1. Identity!findEd25519(replaced) \in {"none", "update", "own"}
    BY DEF Identity!findEd25519
  <2> QED
    BY <1>3, <2>1 DEF Identity!Docs
<1>5. doc' \in Identity!Docs /\ doc'.agreement = named.agreement /\ Serves(doc')
  <2> HIDE DEF named
  <2> QED
    BY <1>0, <1>1, <1>4, ServicesIn
<1>6. Identity!Record' = Identity!Record
  BY <1>0 DEF Identity!Record
<1>7. CASE needs
  <2>1. Identity!Record.mapped = 0 /\ doc'.agreement = keys + 1 /\ newKey' = keys + 1 /\ keys' = keys + 1
    BY <1>1, <1>3, <1>4, <1>5, <1>7 DEF Identity!NeedsKey
  <2>2. didAt' = "publish"
    <3>1. doc' # Identity!Record.doc
      BY <1>0, <2>1, RecordFacts
    <3> QED
      BY <1>1, <3>1
  <2>3. DidTypes'
    <3>1. \A x \in Identity!Methods :
            dids[x].mapped \in {0} \cup 2..(keys + 1) /\ dids[x].doc.agreement \in 0..(keys + 1)
      BY <1>0 DEF DidTypes, Identity!TypeOK
    <3> QED
      BY <1>0, <1>5, <2>1, <2>2, <3>1 DEF DidTypes, Identity!TypeOK
  <2>4. MappingsAgree'
    BY <1>0 DEF MappingsAgree, IdentityInv
  <2>5. newKey' # 0 /\ doc'.agreement = newKey' /\ Identity!Record'.mapped = 0 /\ Serves(doc)'
    BY <1>0, <1>5, <1>6, <2>1 DEF Serves
  <2>6. DidSteps'
    BY <2>2, <2>5 DEF DidSteps
  <2> QED
    BY <2>3, <2>4, <2>6 DEF IdentityInv
<1>8. CASE ~needs
  <2>1. /\ Identity!Record.doc.agreement \in {0, Identity!Record.mapped}
        /\ doc'.agreement = Identity!Record.doc.agreement /\ newKey' = newKey /\ keys' = keys
    BY <1>1, <1>3, <1>4, <1>5, <1>8, RecordFacts DEF Identity!NeedsKey
  <2>2. didAt' \in {"invite", "publish"} /\ (didAt' = "invite" => doc' = Identity!Record.doc)
    BY <1>1
  <2>3. DidTypes'
    BY <1>0, <1>5, <2>1, <2>2 DEF DidTypes, Identity!TypeOK
  <2>4. MappingsAgree'
    BY <1>0 DEF MappingsAgree, IdentityInv
  <2>5. /\ newKey' = 0 /\ doc'.agreement \in {0, Identity!Record'.mapped} /\ Serves(doc)'
        /\ Identity!Record'.doc.agreement \in {0, Identity!Record'.mapped}
    BY <1>0, <1>5, <1>6, <2>1 DEF Serves
  <2>6. didAt' = "invite" => Serves(Identity!Record.doc)'
    BY <1>6, <2>2, <2>5 DEF Serves
  <2>7. DidSteps'
    BY <2>2, <2>5, <2>6 DEF DidSteps
  <2> QED
    BY <2>3, <2>4, <2>7 DEF IdentityInv
<1> QED
  BY <1>7, <1>8

\* updateDid and addDidKey: the document first, then the mapping.
LEMMA PublishKept == IdentityInv /\ (Identity!updateDid \/ Identity!addDidKey) => IdentityInv'
<1> SUFFICES ASSUME IdentityInv, Identity!updateDid \/ Identity!addDidKey PROVE IdentityInv'
  OBVIOUS
<1>0. /\ UNCHANGED <<config, invited, keys, doc>>
      /\ keys \in Nat \ {0} /\ doc \in Identity!Docs /\ didFaults \in 0..MaxDidFaults
      /\ newKey \in {0} \cup 2..keys
      /\ config \in [method : Identity!Methods, location : Locations, admin : Identity!Admins]
      /\ DidTypes /\ invited \in BOOLEAN
  BY DEF Identity!updateDid, Identity!addDidKey, IdentityInv, DidTypes, Identity!TypeOK
<1>a. config.method \in Identity!Methods /\ dids[config.method] \in DidRecords
  BY <1>0, RecordFacts
<1>1. CASE didAt = "publish" /\ Identity!Publish(doc) /\ didAt' = (IF newKey # 0 THEN "map" ELSE "invite")
           /\ UNCHANGED <<didFaults, newKey>>
  <2> DEFINE r == [dids[config.method] EXCEPT !.doc = doc]
  <2>1. dids' = [dids EXCEPT ![config.method] = r]
    BY <1>1 DEF Identity!Publish
  <2>2. r \in DidRecords /\ r.mapped = dids[config.method].mapped /\ r.doc = doc
    BY <1>0, <1>a DEF DidRecords
  <2>3. r.mapped \in {0} \cup 2..keys /\ doc.agreement \in 0..keys
    BY <1>0, <1>1, <2>2, RecordFacts DEF IdentityInv, DidSteps
  <2>4. /\ dids' \in [Identity!Methods -> DidRecords]
        /\ \A x \in Identity!Methods :
             /\ dids'[x].location \in Locations \cup {"none"} /\ dids'[x].doc \in Identity!Docs
             /\ dids'[x].mapped \in {0} \cup 2..keys /\ dids'[x].doc.agreement \in 0..keys
        /\ dids'[config.method] = r /\ \A x \in Identity!Methods : x # config.method => dids'[x] = dids[x]
    <3>1. keys \in Nat /\ keys <= keys
      BY <1>0
    <3> HIDE DEF r
    <3> QED
      BY <1>0, <1>a, <2>1, <2>2, <2>3, <3>1, RecordChanged
  <2>5. DidTypes'
    BY <1>0, <1>1, <2>4 DEF DidTypes, Identity!TypeOK, DidRecords
  <2>6. /\ Identity!Record' = r /\ Serves(doc)' /\ Serves(Identity!Record.doc)'
        /\ IF newKey # 0 THEN doc.agreement = newKey /\ r.mapped = 0 ELSE doc.agreement \in {0, r.mapped}
    <3>1. Identity!Record' = r
      BY <1>0, <2>4 DEF Identity!Record
    <3> QED
      BY <1>0, <1>1, <2>2, <3>1, RecordFacts DEF IdentityInv, DidSteps, Serves
  <2>7. MappingsAgree'
    BY <2>2, <2>4, <2>6 DEF MappingsAgree, IdentityInv
  <2>8. DidSteps'
    BY <1>1, <2>2, <2>6 DEF DidSteps
  <2> QED
    BY <2>5, <2>7, <2>8 DEF IdentityInv
<1>2. CASE didFaults < MaxDidFaults /\ didFaults' = didFaults + 1 /\ didAt' = "stopped" /\ UNCHANGED <<dids, newKey>>
  <2>1. DidTypes' /\ MappingsAgree' /\ DidSteps'
    BY <1>0, <1>2, DidAssumption DEF IdentityInv, DidTypes, Identity!TypeOK, MappingsAgree, DidSteps
  <2> QED
    BY <2>1 DEF IdentityInv
<1>3. CASE Identity!addDidKey
  <2> DEFINE r == [dids[config.method] EXCEPT !.mapped = newKey]
  <2>1. dids' = [dids EXCEPT ![config.method] = r] /\ newKey' = 0 /\ didAt' = "invite" /\ didFaults' = didFaults
    BY <1>3 DEF Identity!addDidKey
  <2>2. newKey \in 2..keys /\ dids[config.method].doc.agreement = newKey /\ Serves(dids[config.method].doc)
    BY <1>0, <1>3 DEF Identity!addDidKey, IdentityInv, DidSteps, Identity!Record
  <2>3. r \in DidRecords /\ r.mapped = newKey /\ r.doc = dids[config.method].doc
    BY <1>0, <1>a, <2>2 DEF DidRecords
  <2>4. /\ dids' \in [Identity!Methods -> DidRecords]
        /\ \A x \in Identity!Methods :
             /\ dids'[x].location \in Locations \cup {"none"} /\ dids'[x].doc \in Identity!Docs
             /\ dids'[x].mapped \in {0} \cup 2..keys /\ dids'[x].doc.agreement \in 0..keys
        /\ dids'[config.method] = r /\ \A x \in Identity!Methods : x # config.method => dids'[x] = dids[x]
    <3>1. keys \in Nat /\ keys <= keys /\ r.mapped \in {0} \cup 2..keys /\ r.doc.agreement \in 0..keys
      BY <1>0, <2>2, <2>3
    <3> HIDE DEF r
    <3> QED
      BY <1>0, <1>a, <2>1, <2>3, <3>1, RecordChanged
  <2>5. DidTypes'
    BY <1>0, <2>1, <2>4 DEF DidTypes, Identity!TypeOK, DidRecords
  <2>6. Identity!Record' = r
    BY <1>0, <2>4 DEF Identity!Record
  <2>7. Serves(Identity!Record.doc)' /\ Identity!Record'.doc.agreement = Identity!Record'.mapped
    BY <1>0, <2>2, <2>3, <2>6 DEF Serves
  <2>8. MappingsAgree'
    BY <2>2, <2>3, <2>4 DEF MappingsAgree, IdentityInv
  <2>9. DidSteps'
    BY <2>1, <2>7 DEF DidSteps
  <2> QED
    BY <2>5, <2>8, <2>9 DEF IdentityInv
<1> QED
  BY <1>1, <1>2, <1>3 DEF Identity!updateDid

\* Every step of a start keeps the invariant.
LEMMA IdentityNext == IdentityInv /\ [Identity!Next]_publicDidVars => IdentityInv'
<1> SUFFICES ASSUME IdentityInv, [Identity!Next]_publicDidVars PROVE IdentityInv'
  OBVIOUS
<1> USE DidAssumption
<1>1. CASE Identity!refuse
  BY <1>1 DEF Identity!refuse, Identity!wallet, IdentityInv, DidTypes, Identity!TypeOK, MappingsAgree, DidSteps
<1>2. CASE Identity!ensureSharedPublicDidInvitation
  <2>1. DidTypes' /\ MappingsAgree'
    BY <1>2 DEF Identity!ensureSharedPublicDidInvitation, IdentityInv, DidTypes, Identity!TypeOK, MappingsAgree
  <2>2. DidSteps'
    BY <1>2 DEF Identity!ensureSharedPublicDidInvitation, IdentityInv, DidSteps, Identity!Record, Serves
  <2> QED
    BY <2>1, <2>2 DEF IdentityInv
<1>3. CASE Identity!restart
  <2>1. DidTypes' /\ MappingsAgree'
    BY <1>3, EmptyIn DEF Identity!restart, Identity!wallet, IdentityInv, DidTypes, Identity!TypeOK, MappingsAgree
  <2>2. DidSteps'
    BY <1>3 DEF Identity!restart, DidSteps
  <2> QED
    BY <2>1, <2>2 DEF IdentityInv
<1>4. CASE UNCHANGED publicDidVars
  <2>1. DidTypes' /\ MappingsAgree'
    BY <1>4 DEF publicDidVars, IdentityInv, DidTypes, Identity!TypeOK, MappingsAgree
  <2>2. DidSteps'
    BY <1>4 DEF publicDidVars, IdentityInv, DidSteps, Identity!Record, Serves
  <2> QED
    BY <2>1, <2>2 DEF IdentityInv
<1> QED
  BY <1>1, <1>2, <1>3, <1>4, CreateKept, MapKept, ReconcileKept, PublishKept DEF Identity!Next

\* initialize, wherever it was cut off before: a running agent has the key, the
\* services and the invitation of its document.
LEMMA IdentityIsSound ==
    IdentityInv => /\ Identity!TypeOK /\ Identity!PublishedKeyIsMapped
                   /\ Identity!ConfigurationPublished /\ Identity!PublicDidOpen
  BY DEF IdentityInv, DidTypes, DidSteps, Serves, Identity!PublishedKeyIsMapped,
         Identity!ConfigurationPublished, Identity!PublicDidOpen

\* The start of the agent and its public DID, over retries, exits, restarts,
\* crashes between two writes and changed configurations: a ready agent is
\* migrated and caught up, a running one can decrypt what is sent to the key it
\* publishes, serves this start's configuration and is open to connections.
THEOREM StartIsSound == MCSpec => []StartSound
<1> DEFINE BInv == scenario = "boot" => StartInv
           IInv == scenario = "public DID" => IdentityInv
<1>1. MCInit => BInv /\ IInv
  <2>1. MCInit => BInv
    BY StartBegins, Zenon DEF MCInit
  <2>2. MCInit => IInv
    BY IdentityBegins, Zenon DEF MCInit
  <2> QED
    BY <2>1, <2>2, Zenon
<1>2. BInv /\ IInv /\ [MCNext]_allVars => BInv' /\ IInv'
  <2> SUFFICES ASSUME BInv, IInv, [MCNext]_allVars PROVE BInv' /\ IInv'
    BY Zenon
  <2>0. scenario' = scenario
    BY Zenon DEF MCNext, allVars
  <2>1. scenario = "boot" => [Boot!Next]_startupVars
    BY Zenon DEF MCNext, allVars
  <2>2. scenario = "public DID" => [Identity!Next]_publicDidVars
    BY Zenon DEF MCNext, allVars
  <2> QED
    BY <2>0, <2>1, <2>2, StartNext, IdentityNext, Zenon
<1>3. BInv /\ IInv => StartSound
  BY StartIsDone, IdentityIsSound, Zenon DEF StartSound
<1> QED
  BY <1>1, <1>2, <1>3, PTL DEF MCSpec

-----------------------------------------------------------------------------
\* The outbound sockets and the HTTP requests, for any senders, sockets and
\* requests.

\* A call that opens a socket has one; an entry names a live socket; a request
\* is answered once it is done, and only once.
OutboundInv ==
    /\ Outbound!TypeOK
    /\ \A c \in Senders : sender[c].at = "opening" => sender[c].socket # 0
    /\ Outbound!EntryIsAlive
    /\ httpSessions \subseteq Requests /\ responses \in [Requests -> 0..1]
    /\ \A r \in Requests : http[r] = "none" => responses[r] = 0
    /\ \A r \in Requests : http[r] = "done" => responses[r] = 1

LEMMA OutboundBegins == Outbound!Init => OutboundInv
<1> USE ConnectionBounds
<1> SUFFICES ASSUME Outbound!Init PROVE OutboundInv
  OBVIOUS
<1>1. Outbound!TypeOK
  BY DEF Outbound!Init, Outbound!TypeOK, Outbound!SocketIds, Outbound!ReadyStates
<1>2. Outbound!EntryIsAlive
  BY DEF Outbound!Init, Outbound!EntryIsAlive
<1> QED
  BY <1>1, <1>2 DEF Outbound!Init, OutboundInv

\* Every step of a sender, of a socket and of a request keeps it.
LEMMA OutboundNext == OutboundInv /\ [Outbound!Next]_transportsVars => OutboundInv'
<1> USE ConnectionBounds
<1> SUFFICES ASSUME OutboundInv, [Outbound!Next]_transportsVars PROVE OutboundInv'
  OBVIOUS
<1> DEFINE Calls == [at : {"ready", "opening", "sent", "failed"}, socket : 0..MaxSockets]
<1>0. /\ sockets \in [1..MaxSockets -> Outbound!ReadyStates] /\ idle \subseteq 1..MaxSockets
      /\ table \in 0..MaxSockets /\ sender \in [Senders -> Calls]
      /\ table # 0 => sockets[table] \in {"open", "closing"}
      /\ \A c \in Senders : sender[c].at = "opening" => sender[c].socket \in 1..MaxSockets
  BY DEF OutboundInv, Outbound!TypeOK, Outbound!EntryIsAlive, Outbound!SocketIds
<1>00. /\ http \in [Requests -> {"none", "processing", "done"}]
       /\ \A r \in httpSessions : http[r] = "processing"
       /\ httpSessions \subseteq Requests /\ responses \in [Requests -> 0..1]
       /\ \A r \in Requests : http[r] = "none" => responses[r] = 0
       /\ \A r \in Requests : http[r] = "done" => responses[r] = 1
  BY DEF OutboundInv, Outbound!TypeOK
<1> DEFINE OutOk ==
      /\ sockets \in [1..MaxSockets -> Outbound!ReadyStates] /\ idle \subseteq 1..MaxSockets
      /\ table \in 0..MaxSockets /\ sender \in [Senders -> Calls]
      /\ table # 0 => sockets[table] \in {"open", "closing"}
      /\ \A c \in Senders : sender[c].at = "opening" => sender[c].socket # 0
    InOk ==
      /\ http \in [Requests -> {"none", "processing", "done"}]
      /\ \A r \in httpSessions : http[r] = "processing"
      /\ httpSessions \subseteq Requests /\ responses \in [Requests -> 0..1]
      /\ \A r \in Requests : http[r] = "none" => responses[r] = 0
      /\ \A r \in Requests : http[r] = "done" => responses[r] = 1
<1>1. ASSUME OutOk', InOk' PROVE OutboundInv'
  BY <1>1 DEF OutboundInv, Outbound!TypeOK, Outbound!EntryIsAlive, Outbound!SocketIds
<1>2. ASSUME UNCHANGED <<http, responses, httpSessions>> PROVE InOk'
  BY <1>00, <1>2
<1>3. ASSUME UNCHANGED <<sockets, idle, table, sender>> PROVE OutOk'
  BY <1>0, <1>3
<1>4. ASSUME NEW c \in Senders, Outbound!createSocketConnection(c) PROVE OutboundInv'
  <2>1. OutOk'
    BY <1>0, <1>4 DEF Outbound!createSocketConnection, Outbound!SocketIds, Outbound!ReadyStates
  <2> QED
    BY <2>1, <1>1, <1>2, <1>4 DEF Outbound!createSocketConnection, Outbound!inn
<1>5. ASSUME NEW c \in Senders, Outbound!socketOpens(c) PROVE OutboundInv'
  <2>1. sender[c].socket \in 1..MaxSockets
    BY <1>0, <1>5 DEF Outbound!socketOpens
  <2> DEFINE s == sender[c].socket
  <2>a. /\ sockets' = [sockets EXCEPT ![s] = "open"] /\ table' = s /\ idle' = idle \ {s}
        /\ sender' = [sender EXCEPT ![c] = [at |-> "sent", socket |-> 0]]
    BY <1>5 DEF Outbound!socketOpens
  <2>b. /\ sockets' \in [1..MaxSockets -> Outbound!ReadyStates] /\ idle' \subseteq 1..MaxSockets
        /\ table' \in 0..MaxSockets /\ sockets'[table'] = "open"
    BY <1>0, <2>1, <2>a DEF Outbound!ReadyStates
  <2>c. /\ sender' \in [Senders -> Calls]
        /\ \A d \in Senders : sender'[d].at = "opening" => sender'[d].socket # 0
    BY <1>0, <2>a
  <2>2. OutOk'
    BY <2>b, <2>c
  <2> QED
    BY <2>2, <1>1, <1>2, <1>5 DEF Outbound!socketOpens, Outbound!inn
<1>6. ASSUME NEW c \in Senders, Outbound!socketErrors(c) PROVE OutboundInv'
  <2>1. OutOk'
    BY <1>0, <1>6 DEF Outbound!socketErrors, Outbound!ReadyStates
  <2> QED
    BY <2>1, <1>1, <1>2, <1>6 DEF Outbound!socketErrors, Outbound!inn
<1>7. ASSUME NEW c \in Senders, Outbound!useSocket(c) \/ Outbound!nextMessage(c) PROVE OutboundInv'
  <2>a. /\ sockets' = sockets /\ table' = table /\ idle' \subseteq idle
        /\ \E at \in {"sent", "failed", "ready"} : sender' = [sender EXCEPT ![c].at = at]
    BY <1>7 DEF Outbound!useSocket, Outbound!nextMessage
  <2>b. /\ sender' \in [Senders -> Calls]
        /\ \A d \in Senders : sender'[d].at = "opening" => sender'[d].socket # 0
    BY <1>0, <2>a
  <2>1. OutOk'
    BY <1>0, <2>a, <2>b
  <2> QED
    BY <2>1, <1>1, <1>2, <1>7 DEF Outbound!useSocket, Outbound!nextMessage, Outbound!inn
<1>8. CASE Outbound!goesIdle \/ Outbound!peerCloses \/ Outbound!idleSocketTimer \/ Outbound!onclose
  <2> USE DEF Outbound!SocketIds, Outbound!ReadyStates
  <2>1. ASSUME Outbound!goesIdle PROVE OutOk'
    BY <1>0, <2>1 DEF Outbound!goesIdle
  <2>2. ASSUME Outbound!peerCloses PROVE OutOk'
    <3>1. PICK s \in 1..MaxSockets : sockets[s] = "open" /\ sockets' = [sockets EXCEPT ![s] = "closing"]
      BY <2>2 DEF Outbound!peerCloses
    <3> QED
      BY <1>0, <2>2, <3>1 DEF Outbound!peerCloses
  <2>3. ASSUME Outbound!idleSocketTimer PROVE OutOk'
    BY <1>0, <2>3 DEF Outbound!idleSocketTimer
  <2>4. ASSUME Outbound!onclose PROVE OutOk'
    BY <1>0, <2>4 DEF Outbound!onclose
  <2>5. OutOk'
    BY <1>8, <2>1, <2>2, <2>3, <2>4
  <2> QED
    BY <2>5, <1>1, <1>2, <1>8 DEF Outbound!goesIdle, Outbound!peerCloses, Outbound!idleSocketTimer,
      Outbound!onclose, Outbound!inn
<1>9. ASSUME NEW r \in Requests, Outbound!receives(r) PROVE OutboundInv'
  <2>1. InOk'
    BY <1>00, <1>9 DEF Outbound!receives
  <2> QED
    BY <2>1, <1>1, <1>3, <1>9 DEF Outbound!receives, Outbound!out
<1>10. ASSUME NEW r \in Requests, Outbound!sessionSends(r) PROVE OutboundInv'
  <2>1. InOk'
    BY <1>00, <1>10 DEF Outbound!sessionSends
  <2> QED
    BY <2>1, <1>1, <1>3, <1>10 DEF Outbound!sessionSends, Outbound!out
<1>11. ASSUME NEW r \in Requests, Outbound!handlerEnds(r) PROVE OutboundInv'
  <2>1. InOk'
    BY <1>00, <1>11 DEF Outbound!handlerEnds
  <2> QED
    BY <2>1, <1>1, <1>3, <1>11 DEF Outbound!handlerEnds, Outbound!out
<1>12. CASE UNCHANGED transportsVars
  BY <1>1, <1>2, <1>3, <1>12 DEF transportsVars
<1> QED
  BY <1>4, <1>5, <1>6, <1>7, <1>8, <1>9, <1>10, <1>11, <1>12 DEF Outbound!Next

\* What the transports promise.
LEMMA OutboundIsSound ==
    OutboundInv => Outbound!TypeOK /\ Outbound!EntryIsAlive /\ Outbound!OneResponse
BY DEF OutboundInv, Outbound!OneResponse

-----------------------------------------------------------------------------
\* The calls to one peer, for any callers and any number of records.

\* Only the running attempt has a pending record, and it dials and waits only
\* while no other record of the pair is left.
DiallingInv ==
    /\ Dialling!TypeOK
    /\ attempt \in [at : {"none", "find", "dial", "tag", "wait"}, id : 0..MaxRecords]
    /\ calls \in [Callers -> [at : {"idle", "wait", "failed", "done"}, id : 0..MaxRecords]]
    /\ peerStops = 0
    /\ attempt.at \in {"tag", "wait"} => attempt.id # 0
    /\ \A r \in Dialling!Ids : records[r] = "pending" => attempt.at \in {"tag", "wait"} /\ attempt.id = r
    /\ attempt.at \in {"dial", "tag", "wait"} =>
         \A r \in Dialling!Ids : records[r] = "ready" => attempt.at # "dial" /\ attempt.id = r
    /\ \A r, s \in Dialling!Ids : records[r] = "ready" /\ records[s] = "ready" => r = s

LEMMA DiallingBegins == Dialling!Init => DiallingInv
<1> USE ConnectionBounds
<1> SUFFICES ASSUME Dialling!Init PROVE DiallingInv
  OBVIOUS
<1>1. Dialling!TypeOK
  BY DEF Dialling!Init, Dialling!TypeOK, Dialling!Ids, Dialling!Idle, Dialling!Call
<1> QED
  BY <1>1 DEF Dialling!Init, DiallingInv, Dialling!Ids, Dialling!Idle, Dialling!Call

\* Every step of a call, of its attempt and of the peer keeps it.
LEMMA DiallingNext == DiallingInv /\ [Dialling!Next]_peerConnectionVars => DiallingInv'
<1> USE ConnectionBounds
<1> SUFFICES ASSUME DiallingInv, [Dialling!Next]_peerConnectionVars PROVE DiallingInv'
  OBVIOUS
<1> DEFINE Ids == 1..MaxRecords
    RecordStates == {"none", "pending", "ready", "ended", "gone"}
    Ok ==
      /\ records \in [Ids -> RecordStates] /\ tag \subseteq Ids
      /\ calls \in [Callers -> [at : {"idle", "wait", "failed", "done"}, id : 0..MaxRecords]]
      /\ attempt \in [at : {"none", "find", "dial", "tag", "wait"}, id : 0..MaxRecords]
      /\ (\E c \in Callers : calls[c].at = "wait") => attempt # [at |-> "none", id |-> 0]
      /\ attempt.at \in {"tag", "wait"} => attempt.id # 0
      /\ \A r \in Ids : records[r] = "pending" => attempt.at \in {"tag", "wait"} /\ attempt.id = r
      /\ attempt.at \in {"dial", "tag", "wait"} =>
           \A r \in Ids : records[r] = "ready" => attempt.at # "dial" /\ attempt.id = r
      /\ \A r, s \in Ids : records[r] = "ready" /\ records[s] = "ready" => r = s
<1>0. Ok /\ peerStops = 0
  BY DEF DiallingInv, Dialling!TypeOK, Dialling!Ids, Dialling!Idle
<1>k. UNCHANGED peerStops
  BY <1>0 DEF Dialling!Next, Dialling!Attempt, Dialling!useReady, Dialling!deleteExisting,
    Dialling!receiveImplicitInvitation, Dialling!setTag, Dialling!returnWhenIsConnected,
    Dialling!failDeletes, Dialling!peerConnects, Dialling!crash, Dialling!connectToPublicDid,
    Dialling!callAgain, Dialling!becomesReady, Dialling!peerHangsUp, Dialling!deleteConnection,
    peerConnectionVars
<1>1. ASSUME Ok' PROVE DiallingInv'
  <2>1. \A c \in Callers : calls'[c] \in [at : {"idle", "wait", "failed", "done"}, id : 0..MaxRecords]
    BY <1>1
  <2>2. attempt'.at \in {"none", "find", "dial", "tag", "wait"} /\ attempt'.id \in 0..MaxRecords
    BY <1>1
  <2>3. Dialling!TypeOK'
    BY <1>1, <2>1, <2>2 DEF Dialling!TypeOK, Dialling!Ids, Dialling!Idle
  <2> QED
    BY <1>0, <1>k, <1>1, <2>3 DEF DiallingInv, Dialling!Ids
<1>s. SUFFICES Ok'
  BY <1>1
<1> DEFINE Ats == {"none", "find", "dial", "tag", "wait"}
    Attempts == [at : Ats, id : 0..MaxRecords]
    Results == [at : {"idle", "wait", "failed", "done"}, id : 0..MaxRecords]
    Rest(at, id, recs) ==
      /\ at \in {"tag", "wait"} => id # 0
      /\ \A r \in Ids : recs[r] = "pending" => at \in {"tag", "wait"} /\ id = r
      /\ at \in {"dial", "tag", "wait"} =>
           \A r \in Ids : recs[r] = "ready" => at # "dial" /\ id = r
      /\ \A r, s \in Ids : recs[r] = "ready" /\ recs[s] = "ready" => r = s
<1>a. /\ attempt.at \in Ats /\ attempt.id \in 0..MaxRecords
      /\ attempt = [at |-> attempt.at, id |-> attempt.id]
  BY <1>0
<1>b. ASSUME NEW c \in Callers, calls[c].at = "wait" PROVE ~(attempt.at = "none" /\ attempt.id = 0)
  BY <1>0, <1>a, <1>b
<1>c. Rest(attempt.at, attempt.id, records)
  BY <1>0
\* The attempt goes on, and nobody begins to wait for it.
<1>d. ASSUME NEW at \in Ats, NEW id \in 0..MaxRecords, NEW recs \in [Ids -> RecordStates],
             attempt' = [at |-> at, id |-> id], at # "none", records' = recs, calls' = calls,
             tag' \subseteq Ids, Rest(at, id, recs)
      PROVE  Ok'
  BY <1>0, <1>d
\* The attempt ends, with a result for those that wait for it.
<1>e. ASSUME NEW result \in Results, result.at # "wait", Dialling!Settle(result), tag' = tag,
             NEW recs \in [Ids -> RecordStates],
             records' = recs, Rest("none", 0, recs)
      PROVE  Ok'
  <2>1. attempt' = [at |-> "none", id |-> 0]
    BY <1>e DEF Dialling!Settle, Dialling!Idle
  <2>2. /\ calls' \in [Callers -> Results]
        /\ \A c \in Callers : calls'[c].at # "wait"
    BY <1>0, <1>e DEF Dialling!Settle
  <2> QED
    BY <1>0, <1>e, <2>1, <2>2
<1>f. ASSUME NEW recs \in [Ids -> RecordStates],
             records' = recs, UNCHANGED <<attempt, calls, tag>>, Rest(attempt.at, attempt.id, recs)
      PROVE  Ok'
  BY <1>0, <1>f
<1>g. /\ Dialling!Call("failed", 0) \in Results /\ Dialling!Call("failed", 0).at = "failed"
      /\ \A r \in Ids : Dialling!Call("done", r) \in Results /\ Dialling!Call("done", r).at = "done"
  BY DEF Dialling!Call
<1>r. /\ records \in [Ids -> RecordStates] /\ tag \subseteq Ids /\ calls \in [Callers -> Results]
      /\ attempt \in Attempts
  BY <1>0
<1> HIDE DEF Ok, Rest, Results, Attempts, RecordStates
<1>2. ASSUME NEW c \in Callers, Dialling!connectToPublicDid(c) PROVE Ok'
  <2>1. /\ calls' = [calls EXCEPT ![c] = [at |-> "wait", id |-> 0]] /\ records' = records /\ tag' = tag
        /\ \/ attempt' = [at |-> "find", id |-> 0] /\ attempt.at = "none"
           \/ attempt' = attempt /\ attempt # [at |-> "none", id |-> 0]
    BY <1>2, <1>a DEF Dialling!connectToPublicDid, Dialling!Idle, Dialling!Call
  <2>2. calls' \in [Callers -> Results]
    BY <1>r, <2>1 DEF Results
  <2>3. attempt' \in Attempts /\ attempt' # [at |-> "none", id |-> 0]
    BY <1>r, <2>1 DEF Attempts
  <2>4. Rest(attempt'.at, attempt'.id, records')
    <3>1. CASE attempt' = attempt
      BY <1>c, <2>1, <3>1
    <3>2. CASE attempt' = [at |-> "find", id |-> 0] /\ attempt.at = "none"
      <4>1. attempt'.at = "find" /\ attempt'.id = 0
        BY <3>2
      <4> QED
        BY <1>c, <2>1, <3>2, <4>1 DEF Rest
    <3> QED
      BY <2>1, <3>1, <3>2
  <2> QED
    BY <1>r, <2>1, <2>2, <2>3, <2>4 DEF Ok, Rest, RecordStates, Results, Attempts
<1>3. CASE Dialling!useReady
  <2>1. PICK r \in Ids : Dialling!Settle(Dialling!Call("done", r)) /\ UNCHANGED <<records, tag>>
    BY <1>3 DEF Dialling!useReady, Dialling!Alive, Dialling!Ids
  <2>2. attempt.at = "find"
    BY <1>3 DEF Dialling!useReady
  <2>3. Rest("none", 0, records)
    BY <1>c, <2>2 DEF Rest
  <2> QED
    BY <1>r, <1>e, <1>g, <2>1, <2>3
<1>4. CASE Dialling!deleteExisting
  <2>1. /\ attempt.at = "find" /\ UNCHANGED <<tag, calls>>
        /\ attempt' = [attempt EXCEPT !.at = "dial"]
        /\ records' \in [Ids -> RecordStates]
        /\ \A r \in Ids : records[r] # "ready" /\ records'[r] \in {records[r], "gone"}
    BY <1>r, <1>4 DEF Dialling!deleteExisting, Dialling!Alive, Dialling!Ids, RecordStates
  <2>2. attempt' = [at |-> "dial", id |-> attempt.id]
    BY <1>a, <2>1
  <2>3. Rest("dial", attempt.id, records')
    BY <1>c, <2>1 DEF Rest
  <2> QED
    BY <1>r, <1>a, <1>d, <2>1, <2>2, <2>3
<1>5. CASE Dialling!receiveImplicitInvitation
  <2>1. attempt.at = "dial" /\ tag' = tag
    BY <1>5 DEF Dialling!receiveImplicitInvitation
  <2>2. CASE Dialling!Settle(Dialling!Call("failed", 0)) /\ UNCHANGED records
    <3>1. Rest("none", 0, records)
      BY <1>c, <2>1 DEF Rest
    <3> QED
      BY <1>r, <1>e, <1>g, <2>1, <2>2, <3>1
  <2>3. ASSUME NEW r \in Dialling!Fresh, records' = [records EXCEPT ![r] = "pending"],
               attempt' = [at |-> "tag", id |-> r], UNCHANGED calls
        PROVE  Ok'
    <3>1. r \in Ids /\ r # 0
      BY <2>3 DEF Dialling!Fresh, Dialling!Ids
    <3>2. records' \in [Ids -> RecordStates]
      BY <1>r, <2>3 DEF RecordStates
    <3>3. Rest("tag", r, records')
      BY <1>r, <1>c, <2>1, <2>3, <3>1 DEF Rest
    <3> QED
      <4>1. r \in 0..MaxRecords /\ "tag" \in Ats /\ "tag" # "none"
        BY <3>1
      <4>2. calls' = calls /\ tag' \subseteq Ids
        BY <1>r, <2>1, <2>3
      <4> HIDE DEF Ats
      <4> QED
        BY <1>d, <2>3, <3>2, <3>3, <4>1, <4>2
  <2> QED
    BY <1>5, <2>2, <2>3 DEF Dialling!receiveImplicitInvitation
<1>6. CASE Dialling!setTag
  <2>1. /\ attempt.at = "tag" /\ UNCHANGED <<records, calls>> /\ tag' = tag \union {attempt.id}
        /\ attempt' = [attempt EXCEPT !.at = "wait"]
    BY <1>6 DEF Dialling!setTag
  <2>2. attempt' = [at |-> "wait", id |-> attempt.id] /\ attempt.id \in Ids
    BY <1>c, <1>a, <2>1 DEF Rest
  <2>3. Rest("wait", attempt.id, records)
    BY <1>c, <2>1 DEF Rest
  <2> QED
    BY <1>r, <1>a, <1>d, <2>1, <2>2, <2>3
<1>7. CASE Dialling!returnWhenIsConnected
  <2>1. /\ Dialling!Settle(Dialling!Call("done", attempt.id)) /\ UNCHANGED <<records, tag>>
        /\ attempt.at = "wait" /\ records[attempt.id] = "ready"
    BY <1>7 DEF Dialling!returnWhenIsConnected
  <2>2. attempt.id \in Ids
    BY <1>c, <1>a, <2>1 DEF Rest
  <2>3. Rest("none", 0, records)
    BY <1>c, <2>1, <2>2 DEF Rest
  <2> QED
    BY <1>r, <1>e, <1>g, <2>1, <2>2, <2>3
<1>8. CASE Dialling!failDeletes
  <2>1. /\ Dialling!Settle(Dialling!Call("failed", 0)) /\ tag' = tag
        /\ attempt.at \in {"tag", "wait"} /\ records' = [records EXCEPT ![attempt.id] = "gone"]
    BY <1>8 DEF Dialling!failDeletes
  <2>2. records' \in [Ids -> RecordStates]
    BY <1>r, <2>1 DEF RecordStates
  <2>3. Rest("none", 0, records')
    BY <1>r, <1>c, <2>1 DEF Rest
  <2> QED
    BY <1>r, <1>e, <1>g, <2>1, <2>2, <2>3
<1>9. ASSUME NEW r \in Ids,
             Dialling!becomesReady(r) \/ Dialling!peerHangsUp(r) \/ Dialling!deleteConnection(r)
      PROVE  Ok'
  <2>1. /\ UNCHANGED <<attempt, calls, tag>>
        /\ \/ records[r] = "pending" /\ records' = [records EXCEPT ![r] = "ready"]
           \/ records' = [records EXCEPT ![r] = "ended"]
           \/ records' = [records EXCEPT ![r] = "gone"]
    BY <1>9 DEF Dialling!becomesReady, Dialling!peerHangsUp, Dialling!deleteConnection
  <2>2. records' \in [Ids -> RecordStates]
    BY <1>r, <2>1 DEF RecordStates
  <2>3. Rest(attempt.at, attempt.id, records')
    BY <1>r, <1>c, <2>1 DEF Rest
  <2> QED
    BY <1>f, <2>1, <2>2, <2>3
<1>10. ASSUME NEW c \in Callers, Dialling!callAgain(c) PROVE Ok'
  BY <1>0, <1>10 DEF Dialling!callAgain, Dialling!Call, Ok, Results, Attempts
<1>11. CASE UNCHANGED peerConnectionVars
  BY <1>r, <1>c, <1>f, <1>11 DEF peerConnectionVars
<1>12. ~Dialling!crash /\ ~Dialling!peerConnects
  BY <1>0 DEF Dialling!crash, Dialling!peerConnects
<1> QED
  BY <1>2, <1>3, <1>4, <1>5, <1>6, <1>7, <1>8, <1>9, <1>10, <1>11, <1>12
     DEF Dialling!Next, Dialling!Attempt, Dialling!Ids

\* One record at most, and none left behind.
LEMMA DiallingIsSound ==
    DiallingInv => Dialling!TypeOK /\ Dialling!OneRecordPerPeer /\ Dialling!NothingLeftPending
<1> SUFFICES ASSUME DiallingInv PROVE Dialling!OneRecordPerPeer /\ Dialling!NothingLeftPending
  BY DEF DiallingInv
<1>0. Dialling!NothingLeftPending
  BY DEF DiallingInv, Dialling!NothingLeftPending
<1>1. \A r, s \in Dialling!Pair : r = s
  BY DEF DiallingInv, Dialling!Pair
<1>c. Dialling!Cardinality(Dialling!Pair) = Cardinality(Dialling!Pair)
  BY DEF Dialling!Cardinality, Cardinality
<1>2. CASE Dialling!Pair = {}
  BY <1>0, <1>c, <1>2, FS_EmptySet DEF Dialling!OneRecordPerPeer
<1>3. CASE Dialling!Pair # {}
  <2>1. PICK r : Dialling!Pair = {r}
    BY <1>1, <1>3
  <2>2. Cardinality({r}) = 1
    BY FS_Singleton
  <2> QED
    BY <1>0, <1>c, <2>1, <2>2 DEF Dialling!OneRecordPerPeer
<1> QED
  BY <1>2, <1>3

-----------------------------------------------------------------------------
\* The listeners of the connection states, for any connections.

\* The announcing listener of a state runs once, after the state is reached;
\* what is announced was reached by the listener that announces it.
ListenersInv ==
    /\ Listeners!TypeOK
    /\ callbacks = {} /\ up = TRUE
    /\ \A c \in Conns : NoTwice(events[c])
    /\ \A c \in Conns, s \in Listeners!States : Has(events[c], s) => announcing[c][s] = "end"
    /\ \A c \in Conns : Has(events[c], "updated") => disclose[c] = "done"
    /\ \A c \in Conns : Has(events[c], "terminated") => c \in ended
    /\ \A c \in Conns : state[c] = "none" => announcing[c]["request-received"] = "idle" /\ accept[c] = "idle"
    /\ \A c \in Conns : state[c] \in {"none", "request-received"} => announcing[c]["response-sent"] = "idle"
    /\ \A c \in Conns : state[c] # "completed" => announcing[c]["completed"] = "idle"
    /\ \A c \in Conns : accept[c] = "lookup" /\ target[c] \in Listeners!publicDidsOf =>
         state[c] = "request-received"
    /\ \A c \in Conns : disclose[c] # "idle" => query[c] = "answered"
    /\ \A c \in Conns : query[c] # "no" => announcing[c]["completed"] \notin {"idle", "discard", "query"}

LEMMA ListenersBegin == Listeners!Init => ListenersInv
<1> USE ConnectionBounds
<1> SUFFICES ASSUME Listeners!Init PROVE ListenersInv
  OBVIOUS
<1> USE DEF Listeners!Init, Listeners!States
<1>1. Listeners!TypeOK
  BY DEF Listeners!TypeOK
<1>2. \A c \in Conns : NoTwice(events[c]) /\ \A e : ~Has(events[c], e)
  BY DEF NoTwice, Has
<1> QED
  BY <1>1, <1>2 DEF ListenersInv

\* Every step of a connection, of its listeners and of the wallet keeps it.
LEMMA ListenersNext == ListenersInv /\ [Listeners!Next]_connectionEventsVars => ListenersInv'
<1> USE ConnectionBounds
<1> SUFFICES ASSUME ListenersInv, [Listeners!Next]_connectionEventsVars PROVE ListenersInv'
  OBVIOUS
<1> DEFINE Ats == {"idle", "discard", "query", "querying", "oob", "end", "failed"}
    States == {"request-received", "response-sent", "completed"}
    Seqs == Seq(States \cup {"updated", "terminated"})
    Types(tg, st, an, ac, qu, di, en, ev) ==
      /\ tg \in {"public", "alternative", "foreign", "invitation"}
      /\ st \in States \cup {"none"} /\ an \in [States -> Ats]
      /\ ac \in {"idle", "lookup", "end", "failed"} /\ qu \in {"no", "sent", "answered"}
      /\ di \in {"idle", "updating", "done", "failed"} /\ ev \in Seqs /\ en \in BOOLEAN
      /\ \A s \in States : an[s] \in {"query", "querying"} => s = "completed"
    \* One connection: what it addresses, its state, its listeners, its events.
    Order(tg, st, an, ac, qu, di, en, ev) ==
      /\ NoTwice(ev)
      /\ \A s \in States : Has(ev, s) => an[s] = "end"
      /\ Has(ev, "updated") => di = "done"
      /\ Has(ev, "terminated") => en = TRUE
      /\ st = "none" => an["request-received"] = "idle" /\ ac = "idle"
      /\ st \in {"none", "request-received"} => an["response-sent"] = "idle"
      /\ st # "completed" => an["completed"] = "idle"
      /\ ac = "lookup" /\ tg \in {"public", "alternative"} => st = "request-received"
      /\ di # "idle" => qu = "answered"
      /\ qu # "no" => an["completed"] \notin {"idle", "discard", "query"}
    One(tg, st, an, ac, qu, di, en, ev) ==
      Types(tg, st, an, ac, qu, di, en, ev) /\ Order(tg, st, an, ac, qu, di, en, ev)
    Functions ==
      /\ target = [c \in Conns |-> target[c]] /\ state = [c \in Conns |-> state[c]]
      /\ announcing = [c \in Conns |-> announcing[c]] /\ accept = [c \in Conns |-> accept[c]]
      /\ query = [c \in Conns |-> query[c]] /\ disclose = [c \in Conns |-> disclose[c]]
      /\ events = [c \in Conns |-> events[c]]
    Whole ==
      /\ Functions /\ ended \subseteq Conns /\ connected \subseteq Conns
      /\ listenerFailures \in 0..MaxListenerFails /\ callbacks = {} /\ up = TRUE
    Here(c) == One(target[c], state[c], announcing[c], accept[c], query[c], disclose[c],
                   c \in ended, events[c])
<1>1. Whole /\ \A c \in Conns : Here(c)
  <2>1. Whole
    BY DEF ListenersInv, Listeners!TypeOK
  <2>2. ASSUME NEW c \in Conns PROVE Types(target[c], state[c], announcing[c], accept[c], query[c],
                                             disclose[c], c \in ended, events[c])
    <3>1. (c \in ended) \in BOOLEAN
      OBVIOUS
    <3> QED
      BY <3>1 DEF ListenersInv, Listeners!TypeOK, Listeners!States
  <2>3. ASSUME NEW c \in Conns PROVE Order(target[c], state[c], announcing[c], accept[c], query[c],
                                             disclose[c], c \in ended, events[c])
    BY DEF ListenersInv, Listeners!States, Listeners!publicDidsOf
  <2> HIDE DEF Types, Order, Whole
  <2>4. ASSUME NEW c \in Conns PROVE Here(c)
    BY <2>2, <2>3, Zenon
  <2> QED
    BY <2>1, <2>4, Zenon
<1>2. ASSUME Whole', \A c \in Conns : Here(c)' PROVE ListenersInv'
  <2>1. Listeners!TypeOK'
    <3>1. /\ target' \in [Conns -> {"public", "alternative", "foreign", "invitation"}]
          /\ state' \in [Conns -> States \cup {"none"}] /\ announcing' \in [Conns -> [States -> Ats]]
          /\ accept' \in [Conns -> {"idle", "lookup", "end", "failed"}]
      BY <1>2
    <3>2. /\ query' \in [Conns -> {"no", "sent", "answered"}]
          /\ disclose' \in [Conns -> {"idle", "updating", "done", "failed"}]
          /\ events' \in [Conns -> Seqs]
      BY <1>2
    <3>3. \A c \in Conns, s \in States : announcing'[c][s] \in {"query", "querying"} => s = "completed"
      BY <1>2
    <3> QED
      BY <1>2, <3>1, <3>2, <3>3 DEF Listeners!TypeOK, Listeners!States
  <2> QED
    BY <1>2, <2>1 DEF ListenersInv, Listeners!States, Listeners!publicDidsOf
<1>s. SUFFICES Whole' /\ \A c \in Conns : Here(c)'
  BY <1>2
\* A step of one connection leaves the others as they are.
<1>3. ASSUME NEW c \in Conns,
             NEW st, NEW an, NEW ac, NEW qu, NEW di, NEW en \in SUBSET Conns, NEW ev,
             NEW cn \in SUBSET Conns, NEW fa \in 0..MaxListenerFails,
             target' = target, state' = [state EXCEPT ![c] = st],
             announcing' = [announcing EXCEPT ![c] = an], accept' = [accept EXCEPT ![c] = ac],
             query' = [query EXCEPT ![c] = qu], disclose' = [disclose EXCEPT ![c] = di],
             events' = [events EXCEPT ![c] = ev], ended' = en, connected' = cn,
             \A d \in Conns \ {c} : d \in en <=> d \in ended,
             listenerFailures' = fa, callbacks' = {}, up' = TRUE,
             One(target[c], st, an, ac, qu, di, c \in en, ev)
      PROVE  Whole' /\ \A d \in Conns : Here(d)'
  <2> HIDE DEF One
  <2>1. Whole'
    BY <1>1, <1>3
  <2>2. ASSUME NEW d \in Conns PROVE Here(d)'
    <3>1. CASE d = c
      <4>1. /\ target'[c] = target[c] /\ state'[c] = st /\ announcing'[c] = an /\ accept'[c] = ac
            /\ query'[c] = qu /\ disclose'[c] = di /\ events'[c] = ev
        BY <1>1, <1>3
      <4> QED
        BY <1>3, <3>1, <4>1
    <3>2. CASE d # c
      <4>1. /\ target'[d] = target[d] /\ state'[d] = state[d] /\ announcing'[d] = announcing[d]
            /\ accept'[d] = accept[d] /\ query'[d] = query[d] /\ disclose'[d] = disclose[d]
            /\ events'[d] = events[d]
        BY <1>1, <1>3, <3>2
      <4>2. (d \in ended') = (d \in ended)
        BY <1>3, <3>2
      <4> QED
        BY <1>1, <4>1, <4>2
    <3> QED
      BY <3>1, <3>2
  <2> QED
    BY <2>1, <2>2
\* What a step does not change is written back.
<1>4. ASSUME NEW c \in Conns
      PROVE  /\ state = [state EXCEPT ![c] = state[c]] /\ announcing = [announcing EXCEPT ![c] = announcing[c]]
             /\ accept = [accept EXCEPT ![c] = accept[c]] /\ query = [query EXCEPT ![c] = query[c]]
             /\ disclose = [disclose EXCEPT ![c] = disclose[c]] /\ events = [events EXCEPT ![c] = events[c]]
  <2>1. Functions
    BY <1>1, Zenon
  <2>2. state = [state EXCEPT ![c] = state[c]] /\ announcing = [announcing EXCEPT ![c] = announcing[c]]
    BY <2>1
  <2>3. accept = [accept EXCEPT ![c] = accept[c]] /\ query = [query EXCEPT ![c] = query[c]]
    BY <2>1
  <2>4. disclose = [disclose EXCEPT ![c] = disclose[c]] /\ events = [events EXCEPT ![c] = events[c]]
    BY <2>1
  <2> QED
    BY <2>2, <2>3, <2>4
<1>5. ASSUME NEW c \in Conns, NEW s \in States, NEW v \in Ats
      PROVE  /\ [announcing EXCEPT ![c][s] = v] = [announcing EXCEPT ![c] = [announcing[c] EXCEPT ![s] = v]]
             /\ [announcing[c] EXCEPT ![s] = v] \in [States -> Ats]
             /\ [announcing[c] EXCEPT ![s] = v][s] = v
             /\ \A t \in States \ {s} : [announcing[c] EXCEPT ![s] = v][t] = announcing[c][t]
  <2>1. announcing \in [Conns -> [States -> Ats]]
    BY <1>1
  <2>2. announcing[c] \in [States -> Ats]
    BY <2>1
  <2>3. [announcing EXCEPT ![c][s] = v] = [announcing EXCEPT ![c] = [announcing[c] EXCEPT ![s] = v]]
    BY <2>1
  <2>4. /\ [announcing[c] EXCEPT ![s] = v] \in [States -> Ats]
        /\ [announcing[c] EXCEPT ![s] = v][s] = v
        /\ \A t \in States \ {s} : [announcing[c] EXCEPT ![s] = v][t] = announcing[c][t]
    BY <2>2
  <2> QED
    BY <2>3, <2>4
<1>6. /\ ended \in SUBSET Conns /\ connected \in SUBSET Conns
      /\ listenerFailures \in 0..MaxListenerFails /\ callbacks = {} /\ up = TRUE
  BY <1>1
<1>7. Listeners!Fail => listenerFailures' \in 0..MaxListenerFails
  BY <1>6 DEF Listeners!Fail
<1> HIDE DEF Whole
<1>8. ASSUME NEW c \in Conns, Listeners!requestArrives(c) PROVE Whole' /\ \A d \in Conns : Here(d)'
  <2> DEFINE an == [announcing[c] EXCEPT !["request-received"] = "discard"]
  <2>1. /\ target' = target
        /\ state' = [state EXCEPT ![c] = "request-received"]
        /\ accept' = [accept EXCEPT ![c] = "lookup"]
        /\ query' = [query EXCEPT ![c] = query[c]]
        /\ disclose' = [disclose EXCEPT ![c] = disclose[c]]
        /\ events' = [events EXCEPT ![c] = events[c]]
        /\ announcing' = [announcing EXCEPT ![c] = an]
    BY <1>4, <1>5, <1>8 DEF Listeners!requestArrives, Listeners!StateChanged
  <2>2. /\ connected' = connected /\ callbacks' = {} /\ up' = TRUE
        /\ ended' = ended /\ listenerFailures' \in 0..MaxListenerFails
    BY <1>1, <1>6, <1>7, <1>8 DEF Listeners!requestArrives, Listeners!StateChanged
  <2>3. Types(target[c], "request-received", an, "lookup", query[c], disclose[c], c \in ended', events[c])
    BY <1>1, <1>5, <1>8 DEF Listeners!requestArrives, Listeners!StateChanged
  <2>4. Order(target[c], "request-received", an, "lookup", query[c], disclose[c], c \in ended', events[c])
    BY <1>1, <1>5, <1>8, <2>2 DEF Listeners!requestArrives, Listeners!StateChanged
  <2> HIDE DEF Types, Order, an
  <2> QED
    BY <1>3, <1>6, <2>1, <2>2, <2>3, <2>4
<1>9. ASSUME NEW c \in Conns, Listeners!autoAccept(c) PROVE Whole' /\ \A d \in Conns : Here(d)'
  <2> DEFINE an == [announcing[c] EXCEPT !["response-sent"] = "discard"]
  <2>1. /\ target' = target
        /\ state' = [state EXCEPT ![c] = "response-sent"]
        /\ accept' = [accept EXCEPT ![c] = accept[c]]
        /\ query' = [query EXCEPT ![c] = query[c]]
        /\ disclose' = [disclose EXCEPT ![c] = disclose[c]]
        /\ events' = [events EXCEPT ![c] = events[c]]
        /\ announcing' = [announcing EXCEPT ![c] = an]
    BY <1>4, <1>5, <1>9 DEF Listeners!autoAccept, Listeners!StateChanged
  <2>2. /\ connected' = connected /\ callbacks' = {} /\ up' = TRUE
        /\ ended' = ended /\ listenerFailures' \in 0..MaxListenerFails
    BY <1>1, <1>6, <1>7, <1>9 DEF Listeners!autoAccept, Listeners!StateChanged
  <2>3. Types(target[c], "response-sent", an, accept[c], query[c], disclose[c], c \in ended', events[c])
    BY <1>1, <1>5, <1>9 DEF Listeners!autoAccept, Listeners!StateChanged
  <2>4. Order(target[c], "response-sent", an, accept[c], query[c], disclose[c], c \in ended', events[c])
    BY <1>1, <1>5, <1>9, <2>2 DEF Listeners!autoAccept, Listeners!StateChanged
  <2> HIDE DEF Types, Order, an
  <2> QED
    BY <1>3, <1>6, <2>1, <2>2, <2>3, <2>4
<1>10. ASSUME NEW c \in Conns, Listeners!peerCompletes(c) PROVE Whole' /\ \A d \in Conns : Here(d)'
  <2> DEFINE an == [announcing[c] EXCEPT !["completed"] = "discard"]
  <2>1. /\ target' = target
        /\ state' = [state EXCEPT ![c] = "completed"]
        /\ accept' = [accept EXCEPT ![c] = accept[c]]
        /\ query' = [query EXCEPT ![c] = query[c]]
        /\ disclose' = [disclose EXCEPT ![c] = disclose[c]]
        /\ events' = [events EXCEPT ![c] = events[c]]
        /\ announcing' = [announcing EXCEPT ![c] = an]
    BY <1>4, <1>5, <1>10 DEF Listeners!peerCompletes, Listeners!StateChanged
  <2>2. /\ connected' = connected /\ callbacks' = {} /\ up' = TRUE
        /\ ended' = ended /\ listenerFailures' \in 0..MaxListenerFails
    BY <1>1, <1>6, <1>7, <1>10 DEF Listeners!peerCompletes, Listeners!StateChanged
  <2>3. Types(target[c], "completed", an, accept[c], query[c], disclose[c], c \in ended', events[c])
    BY <1>1, <1>5, <1>10 DEF Listeners!peerCompletes, Listeners!StateChanged
  <2>4. Order(target[c], "completed", an, accept[c], query[c], disclose[c], c \in ended', events[c])
    BY <1>1, <1>5, <1>10, <2>2 DEF Listeners!peerCompletes, Listeners!StateChanged
  <2> HIDE DEF Types, Order, an
  <2> QED
    BY <1>3, <1>6, <2>1, <2>2, <2>3, <2>4
<1>11. ASSUME NEW c \in Conns, NEW s \in States, Listeners!discarded(c, s) PROVE Whole' /\ \A d \in Conns : Here(d)'
  <2> DEFINE an == [announcing[c] EXCEPT ![s] = IF s = "completed" THEN "query" ELSE "oob"]
  <2>1. /\ target' = target
        /\ state' = [state EXCEPT ![c] = state[c]]
        /\ accept' = [accept EXCEPT ![c] = accept[c]]
        /\ query' = [query EXCEPT ![c] = query[c]]
        /\ disclose' = [disclose EXCEPT ![c] = disclose[c]]
        /\ events' = [events EXCEPT ![c] = events[c]]
        /\ announcing' = [announcing EXCEPT ![c] = an]
    BY <1>4, <1>5, <1>11 DEF Listeners!discarded, Listeners!Goes
  <2>2. /\ connected' = connected /\ callbacks' = {} /\ up' = TRUE
        /\ ended' = ended /\ listenerFailures' \in 0..MaxListenerFails
    BY <1>1, <1>6, <1>7, <1>11 DEF Listeners!discarded, Listeners!Goes
  <2>3. Types(target[c], state[c], an, accept[c], query[c], disclose[c], c \in ended', events[c])
    BY <1>1, <1>5, <1>11 DEF Listeners!discarded, Listeners!Goes
  <2>4. Order(target[c], state[c], an, accept[c], query[c], disclose[c], c \in ended', events[c])
    BY <1>1, <1>5, <1>11, <2>2 DEF Listeners!discarded, Listeners!Goes
  <2> HIDE DEF Types, Order, an
  <2> QED
    BY <1>3, <1>6, <2>1, <2>2, <2>3, <2>4
<1>12. ASSUME NEW c \in Conns, Listeners!queryFeatures(c) PROVE Whole' /\ \A d \in Conns : Here(d)'
  <2> DEFINE an == [announcing[c] EXCEPT !["completed"] = "querying"]
  <2>1. /\ target' = target
        /\ state' = [state EXCEPT ![c] = state[c]]
        /\ accept' = [accept EXCEPT ![c] = accept[c]]
        /\ query' = [query EXCEPT ![c] = "sent"]
        /\ disclose' = [disclose EXCEPT ![c] = disclose[c]]
        /\ events' = [events EXCEPT ![c] = events[c]]
        /\ announcing' = [announcing EXCEPT ![c] = an]
    BY <1>4, <1>5, <1>12 DEF Listeners!queryFeatures, Listeners!Goes
  <2>2. /\ connected' = connected /\ callbacks' = {} /\ up' = TRUE
        /\ ended' = ended /\ listenerFailures' \in 0..MaxListenerFails
    BY <1>1, <1>6, <1>7, <1>12 DEF Listeners!queryFeatures, Listeners!Goes
  <2>3. Types(target[c], state[c], an, accept[c], "sent", disclose[c], c \in ended', events[c])
    BY <1>1, <1>5, <1>12 DEF Listeners!queryFeatures, Listeners!Goes
  <2>4. Order(target[c], state[c], an, accept[c], "sent", disclose[c], c \in ended', events[c])
    BY <1>1, <1>5, <1>12, <2>2 DEF Listeners!queryFeatures, Listeners!Goes
  <2> HIDE DEF Types, Order, an
  <2> QED
    BY <1>3, <1>6, <2>1, <2>2, <2>3, <2>4
<1>13. ASSUME NEW c \in Conns, Listeners!queried(c) PROVE Whole' /\ \A d \in Conns : Here(d)'
  <2> DEFINE an == [announcing[c] EXCEPT !["completed"] = "oob"]
  <2>1. /\ target' = target
        /\ state' = [state EXCEPT ![c] = state[c]]
        /\ accept' = [accept EXCEPT ![c] = accept[c]]
        /\ query' = [query EXCEPT ![c] = query[c]]
        /\ disclose' = [disclose EXCEPT ![c] = disclose[c]]
        /\ events' = [events EXCEPT ![c] = events[c]]
        /\ announcing' = [announcing EXCEPT ![c] = an]
    BY <1>4, <1>5, <1>13 DEF Listeners!queried, Listeners!Goes
  <2>2. /\ connected' = connected /\ callbacks' = {} /\ up' = TRUE
        /\ ended' = ended /\ listenerFailures' \in 0..MaxListenerFails
    BY <1>1, <1>6, <1>7, <1>13 DEF Listeners!queried, Listeners!Goes
  <2>3. Types(target[c], state[c], an, accept[c], query[c], disclose[c], c \in ended', events[c])
    BY <1>1, <1>5, <1>13 DEF Listeners!queried, Listeners!Goes
  <2>4. Order(target[c], state[c], an, accept[c], query[c], disclose[c], c \in ended', events[c])
    BY <1>1, <1>5, <1>13, <2>2 DEF Listeners!queried, Listeners!Goes
  <2> HIDE DEF Types, Order, an
  <2> QED
    BY <1>3, <1>6, <2>1, <2>2, <2>3, <2>4
<1>14. ASSUME NEW c \in Conns, NEW s \in States, Listeners!announce(c, s) PROVE Whole' /\ \A d \in Conns : Here(d)'
  <2> DEFINE an == [announcing[c] EXCEPT ![s] = "end"]
  <2>1. /\ target' = target
        /\ state' = [state EXCEPT ![c] = state[c]]
        /\ accept' = [accept EXCEPT ![c] = accept[c]]
        /\ query' = [query EXCEPT ![c] = query[c]]
        /\ disclose' = [disclose EXCEPT ![c] = disclose[c]]
        /\ events' = [events EXCEPT ![c] = Append(events[c], s)]
        /\ announcing' = [announcing EXCEPT ![c] = an]
    BY <1>4, <1>5, <1>14 DEF Listeners!announce, Listeners!Goes
  <2>2. /\ connected' = connected /\ callbacks' = {} /\ up' = TRUE
        /\ ended' = ended /\ listenerFailures' \in 0..MaxListenerFails
    BY <1>1, <1>6, <1>7, <1>14 DEF Listeners!announce, Listeners!Goes
  <2>a. /\ Append(events[c], s) \in Seqs
        /\ \A x : Has(Append(events[c], s), x) <=> Has(events[c], x) \/ x = s
        /\ NoTwice(events[c]) /\ ~Has(events[c], s) => NoTwice(Append(events[c], s))
    BY <1>1, Appended
  <2>3. Types(target[c], state[c], an, accept[c], query[c], disclose[c], c \in ended', Append(events[c], s))
    BY <1>1, <1>5, <1>14, <2>a DEF Listeners!announce, Listeners!Goes
  <2>4. Order(target[c], state[c], an, accept[c], query[c], disclose[c], c \in ended', Append(events[c], s))
    BY <1>1, <1>5, <1>14, <2>2, <2>a DEF Listeners!announce, Listeners!Goes
  <2> HIDE DEF Types, Order, an
  <2> QED
    BY <1>3, <1>6, <2>1, <2>2, <2>3, <2>4
<1>15. ASSUME NEW c \in Conns, Listeners!disclosureReceived(c) PROVE Whole' /\ \A d \in Conns : Here(d)'
  <2> DEFINE an == announcing[c]
  <2>1. /\ target' = target
        /\ state' = [state EXCEPT ![c] = state[c]]
        /\ accept' = [accept EXCEPT ![c] = accept[c]]
        /\ query' = [query EXCEPT ![c] = "answered"]
        /\ disclose' = [disclose EXCEPT ![c] = "updating"]
        /\ events' = [events EXCEPT ![c] = events[c]]
        /\ announcing' = [announcing EXCEPT ![c] = an]
    BY <1>4, <1>5, <1>15 DEF Listeners!disclosureReceived
  <2>2. /\ connected' = connected /\ callbacks' = {} /\ up' = TRUE
        /\ ended' = ended /\ listenerFailures' \in 0..MaxListenerFails
    BY <1>1, <1>6, <1>7, <1>15 DEF Listeners!disclosureReceived
  <2>3. Types(target[c], state[c], an, accept[c], "answered", "updating", c \in ended', events[c])
    BY <1>1, <1>5, <1>15 DEF Listeners!disclosureReceived
  <2>4. Order(target[c], state[c], an, accept[c], "answered", "updating", c \in ended', events[c])
    BY <1>1, <1>5, <1>15, <2>2 DEF Listeners!disclosureReceived
  <2> HIDE DEF Types, Order, an
  <2> QED
    BY <1>3, <1>6, <2>1, <2>2, <2>3, <2>4
<1>16. ASSUME NEW c \in Conns, Listeners!featuresStored(c) PROVE Whole' /\ \A d \in Conns : Here(d)'
  <2> DEFINE an == announcing[c]
  <2>1. /\ target' = target
        /\ state' = [state EXCEPT ![c] = state[c]]
        /\ accept' = [accept EXCEPT ![c] = accept[c]]
        /\ query' = [query EXCEPT ![c] = query[c]]
        /\ disclose' = [disclose EXCEPT ![c] = "done"]
        /\ events' = [events EXCEPT ![c] = Append(events[c], "updated")]
        /\ announcing' = [announcing EXCEPT ![c] = an]
    BY <1>4, <1>5, <1>16 DEF Listeners!featuresStored
  <2>2. /\ connected' = connected /\ callbacks' = {} /\ up' = TRUE
        /\ ended' = ended /\ listenerFailures' \in 0..MaxListenerFails
    BY <1>1, <1>6, <1>7, <1>16 DEF Listeners!featuresStored
  <2>a. /\ Append(events[c], "updated") \in Seqs
        /\ \A x : Has(Append(events[c], "updated"), x) <=> Has(events[c], x) \/ x = "updated"
        /\ NoTwice(events[c]) /\ ~Has(events[c], "updated") => NoTwice(Append(events[c], "updated"))
    BY <1>1, Appended
  <2>3. Types(target[c], state[c], an, accept[c], query[c], "done", c \in ended', Append(events[c], "updated"))
    BY <1>1, <1>5, <1>16, <2>a DEF Listeners!featuresStored
  <2>4. Order(target[c], state[c], an, accept[c], query[c], "done", c \in ended', Append(events[c], "updated"))
    BY <1>1, <1>5, <1>16, <2>2, <2>a DEF Listeners!featuresStored
  <2> HIDE DEF Types, Order, an
  <2> QED
    BY <1>3, <1>6, <2>1, <2>2, <2>3, <2>4
<1>17. ASSUME NEW c \in Conns, Listeners!DidRotated(c) PROVE Whole' /\ \A d \in Conns : Here(d)'
  <2> DEFINE an == announcing[c]
  <2>1. /\ target' = target
        /\ state' = [state EXCEPT ![c] = state[c]]
        /\ accept' = [accept EXCEPT ![c] = accept[c]]
        /\ query' = [query EXCEPT ![c] = query[c]]
        /\ disclose' = [disclose EXCEPT ![c] = disclose[c]]
        /\ events' = [events EXCEPT ![c] = Append(events[c], "terminated")]
        /\ announcing' = [announcing EXCEPT ![c] = an]
    BY <1>4, <1>5, <1>17 DEF Listeners!DidRotated
  <2>2. /\ connected' = connected /\ callbacks' = {} /\ up' = TRUE
        /\ ended' = ended \cup {c} /\ listenerFailures' \in 0..MaxListenerFails
    BY <1>1, <1>6, <1>7, <1>17 DEF Listeners!DidRotated
  <2>a. /\ Append(events[c], "terminated") \in Seqs
        /\ \A x : Has(Append(events[c], "terminated"), x) <=> Has(events[c], x) \/ x = "terminated"
        /\ NoTwice(events[c]) /\ ~Has(events[c], "terminated") => NoTwice(Append(events[c], "terminated"))
    BY <1>1, Appended
  <2>3. Types(target[c], state[c], an, accept[c], query[c], disclose[c], c \in ended', Append(events[c], "terminated"))
    BY <1>1, <1>5, <1>17, <2>a DEF Listeners!DidRotated
  <2>4. Order(target[c], state[c], an, accept[c], query[c], disclose[c], c \in ended', Append(events[c], "terminated"))
    BY <1>1, <1>5, <1>17, <2>2, <2>a DEF Listeners!DidRotated
  <2>5. ended' \in SUBSET Conns /\ \A d \in Conns \ {c} : d \in ended' <=> d \in ended
    BY <1>6, <2>2
  <2> HIDE DEF Types, Order, an
  <2> QED
    BY <1>3, <1>6, <2>1, <2>2, <2>3, <2>4, <2>5
<1>18. ASSUME NEW c \in Conns, NEW s \in States, Listeners!announceFails(c, s) PROVE Whole' /\ \A d \in Conns : Here(d)'
  <2> DEFINE an == [announcing[c] EXCEPT ![s] = "failed"]
  <2>1. /\ target' = target
        /\ state' = [state EXCEPT ![c] = state[c]]
        /\ accept' = [accept EXCEPT ![c] = accept[c]]
        /\ query' = [query EXCEPT ![c] = query[c]]
        /\ disclose' = [disclose EXCEPT ![c] = disclose[c]]
        /\ events' = [events EXCEPT ![c] = events[c]]
        /\ announcing' = [announcing EXCEPT ![c] = an]
    BY <1>4, <1>5, <1>18 DEF Listeners!announceFails, Listeners!Fail
  <2>2. /\ connected' = connected /\ callbacks' = {} /\ up' = TRUE
        /\ ended' = ended /\ listenerFailures' \in 0..MaxListenerFails
    BY <1>1, <1>6, <1>7, <1>18 DEF Listeners!announceFails, Listeners!Fail
  <2>3. Types(target[c], state[c], an, accept[c], query[c], disclose[c], c \in ended', events[c])
    BY <1>1, <1>5, <1>18 DEF Listeners!announceFails, Listeners!Fail
  <2>4. Order(target[c], state[c], an, accept[c], query[c], disclose[c], c \in ended', events[c])
    BY <1>1, <1>5, <1>18, <2>2 DEF Listeners!announceFails, Listeners!Fail
  <2> HIDE DEF Types, Order, an
  <2> QED
    BY <1>3, <1>6, <2>1, <2>2, <2>3, <2>4
<1>19. ASSUME NEW c \in Conns, Listeners!acceptFails(c) PROVE Whole' /\ \A d \in Conns : Here(d)'
  <2> DEFINE an == announcing[c]
  <2>1. /\ target' = target
        /\ state' = [state EXCEPT ![c] = state[c]]
        /\ accept' = [accept EXCEPT ![c] = "failed"]
        /\ query' = [query EXCEPT ![c] = query[c]]
        /\ disclose' = [disclose EXCEPT ![c] = disclose[c]]
        /\ events' = [events EXCEPT ![c] = events[c]]
        /\ announcing' = [announcing EXCEPT ![c] = an]
    BY <1>4, <1>5, <1>19 DEF Listeners!acceptFails, Listeners!Fail
  <2>2. /\ connected' = connected /\ callbacks' = {} /\ up' = TRUE
        /\ ended' = ended /\ listenerFailures' \in 0..MaxListenerFails
    BY <1>1, <1>6, <1>7, <1>19 DEF Listeners!acceptFails, Listeners!Fail
  <2>3. Types(target[c], state[c], an, "failed", query[c], disclose[c], c \in ended', events[c])
    BY <1>1, <1>5, <1>19 DEF Listeners!acceptFails, Listeners!Fail
  <2>4. Order(target[c], state[c], an, "failed", query[c], disclose[c], c \in ended', events[c])
    BY <1>1, <1>5, <1>19, <2>2 DEF Listeners!acceptFails, Listeners!Fail
  <2> HIDE DEF Types, Order, an
  <2> QED
    BY <1>3, <1>6, <2>1, <2>2, <2>3, <2>4
<1>20. ASSUME NEW c \in Conns, Listeners!discloseFails(c) PROVE Whole' /\ \A d \in Conns : Here(d)'
  <2> DEFINE an == announcing[c]
  <2>1. /\ target' = target
        /\ state' = [state EXCEPT ![c] = state[c]]
        /\ accept' = [accept EXCEPT ![c] = accept[c]]
        /\ query' = [query EXCEPT ![c] = query[c]]
        /\ disclose' = [disclose EXCEPT ![c] = "failed"]
        /\ events' = [events EXCEPT ![c] = events[c]]
        /\ announcing' = [announcing EXCEPT ![c] = an]
    BY <1>4, <1>5, <1>20 DEF Listeners!discloseFails, Listeners!Fail
  <2>2. /\ connected' = connected /\ callbacks' = {} /\ up' = TRUE
        /\ ended' = ended /\ listenerFailures' \in 0..MaxListenerFails
    BY <1>1, <1>6, <1>7, <1>20 DEF Listeners!discloseFails, Listeners!Fail
  <2>3. Types(target[c], state[c], an, accept[c], query[c], "failed", c \in ended', events[c])
    BY <1>1, <1>5, <1>20 DEF Listeners!discloseFails, Listeners!Fail
  <2>4. Order(target[c], state[c], an, accept[c], query[c], "failed", c \in ended', events[c])
    BY <1>1, <1>5, <1>20, <2>2 DEF Listeners!discloseFails, Listeners!Fail
  <2> HIDE DEF Types, Order, an
  <2> QED
    BY <1>3, <1>6, <2>1, <2>2, <2>3, <2>4
<1>21. ASSUME NEW c \in Conns, Listeners!acceptRequest(c) PROVE Whole' /\ \A d \in Conns : Here(d)'
  <2> DEFINE own == target[c] \in Listeners!publicDidsOf
             an == IF own THEN [announcing[c] EXCEPT !["response-sent"] = "discard"] ELSE announcing[c]
             st == IF own THEN "response-sent" ELSE state[c]
  <2>1. /\ target' = target
        /\ state' = [state EXCEPT ![c] = st]
        /\ accept' = [accept EXCEPT ![c] = "end"]
        /\ query' = [query EXCEPT ![c] = query[c]]
        /\ disclose' = [disclose EXCEPT ![c] = disclose[c]]
        /\ events' = [events EXCEPT ![c] = events[c]]
        /\ announcing' = [announcing EXCEPT ![c] = an]
    BY <1>4, <1>5, <1>21 DEF Listeners!acceptRequest
  <2>2. /\ connected' = connected /\ callbacks' = {} /\ up' = TRUE
        /\ ended' = ended /\ listenerFailures' \in 0..MaxListenerFails
    BY <1>6, <1>21 DEF Listeners!acceptRequest
  <2>3. Types(target[c], st, an, "end", query[c], disclose[c], c \in ended', events[c])
    BY <1>1, <1>5, <1>21, <2>2 DEF Listeners!acceptRequest
  <2>4. Order(target[c], st, an, "end", query[c], disclose[c], c \in ended', events[c])
    <3>1. CASE own
      <4>1. state[c] = "request-received" /\ accept[c] = "lookup"
        BY <1>1, <1>21, <3>1 DEF Listeners!acceptRequest, Listeners!publicDidsOf
      <4> QED
        BY <1>1, <1>5, <2>2, <3>1, <4>1
    <3>2. CASE ~own
      BY <1>1, <1>5, <1>21, <2>2, <3>2 DEF Listeners!acceptRequest
    <3> QED
      BY <3>1, <3>2
  <2> HIDE DEF Types, Order, an, st
  <2> QED
    BY <1>3, <1>6, <2>1, <2>2, <2>3, <2>4
\* No connection has a request whose callback could fail.
<1>22. ASSUME NEW c \in Conns, NEW s \in States PROVE ~Listeners!callback(c, s) /\ ~Listeners!callbackFails(c, s)
  BY <1>6 DEF Listeners!callback, Listeners!callbackFails
<1>23. CASE UNCHANGED connectionEventsVars
  BY <1>1, <1>23 DEF connectionEventsVars, Whole
<1> QED
  BY <1>8, <1>9, <1>10, <1>11, <1>12, <1>13, <1>14, <1>15, <1>16, <1>17, <1>18, <1>19, <1>20, <1>21,
     <1>22, <1>23 DEF Listeners!Next, Listeners!States

\* Each state is announced once, and no failure ends the process.
LEMMA ListenersAreSound ==
    ListenersInv => Listeners!TypeOK /\ Listeners!EachStateOnce /\ Listeners!ProcessSurvives
<1> SUFFICES ASSUME ListenersInv PROVE Listeners!EachStateOnce
  BY DEF ListenersInv, Listeners!ProcessSurvives
<1>1. ASSUME NEW c \in Conns PROVE Listeners!IsInjective(events[c])
  <2>1. DOMAIN events[c] = 1..Len(events[c])
    BY DEF ListenersInv, Listeners!TypeOK
  <2> QED
    BY <2>1 DEF Listeners!IsInjective, ListenersInv, NoTwice
<1> QED
  BY <1>1 DEF Listeners!EachStateOnce

-----------------------------------------------------------------------------
\* The invitations, for any number of peers.

Peers == 1..MaxPeers
Acceptance == [by : Peers, reused : BOOLEAN]
Deleted == oob = "deleted" /\ ~short

\* The invitation, its record and the queue of its acceptances: what a call of
\* accept read is what the record still holds, unless the record went.
SingleRecord ==
    /\ creating \in {"start", "oob", "short", "shared"} /\ oob \in {"none", "await", "done", "deleted"}
    /\ {tagged, short} \subseteq BOOLEAN
    /\ record \in [state : {"none", "created", "accepted"}, acceptances : Seq(Acceptance)]
    /\ snapshot \in [state : {"none", "created", "accepted", "gone"}, acceptances : Seq(Acceptance)]
    /\ accepting \in Seq(Acceptance)
    /\ creating # "shared" => record.state = "none" /\ accepting = <<>> /\ deletion = "idle"
    /\ snapshot.state # "none" => accepting # <<>>
    /\ snapshot.state \in {"created", "accepted"} => record.state = "none" \/ snapshot = record
    /\ snapshot.state = "gone" => record.state = "none"
    /\ record.state # "accepted" => record.acceptances = <<>>
    /\ Len(record.acceptances) <= 1

\* The deletion: the record goes last.
SingleDeletion ==
    /\ deletion \in {"idle", "oob", "short", "record"} /\ deletes \in 0..MaxDeletes
    /\ deletion = "short" => oob = "deleted"
    /\ deletion = "record" => Deleted
    /\ creating = "shared" /\ record.state = "none" => Deleted

\* The connections: those that wait to be saved are bound, and the listener
\* closes none before it is saved.
SingleConns ==
    /\ conn \in [Peers -> {"none", "bound", "open", "complete", "closed"}] /\ claims \subseteq Peers
    /\ born \in [Peers -> 0..2] /\ millisecond \in 1..2
    /\ saving \in Seq(Peers) /\ NoTwice(saving)
    /\ \A p \in Peers : Has(saving, p) <=> conn[p] = "bound"
    /\ discarding \in [Peers -> {"no", "due", "hangup"}]
    /\ \A p \in Peers : discarding[p] # "no" => conn[p] \notin {"none", "bound"}
    /\ creating # "shared" => saving = <<>>

SingleInv == SingleRecord /\ SingleDeletion /\ SingleConns

LEMMA SingleBegins == SingleUse!Init => SingleInv
<1> USE ConnectionBounds DEF SingleUse!Init
<1> SUFFICES ASSUME SingleUse!Init PROVE SingleInv
  OBVIOUS
<1>1. SingleRecord
  <2>1. {tagged, short} \subseteq BOOLEAN
    BY Zenon
  <2>2. record = [state |-> "none", acceptances |-> <<>>] /\ snapshot = record
    BY DEF SingleUse!NoRecord
  <2> QED
    BY <2>1, <2>2 DEF SingleRecord
<1>2. SingleDeletion
  BY DEF SingleDeletion
<1>3. SingleConns
  BY Nothing DEF SingleConns, SingleUse!Peers, Peers
<1> QED
  BY <1>1, <1>2, <1>3 DEF SingleInv

\* Creation, acceptance and deletion keep the record.
LEMMA SingleRecordKept == SingleInv /\ [SingleUse!Next]_invitationsVars => SingleRecord' /\ SingleDeletion'
<1> USE ConnectionBounds
<1> SUFFICES ASSUME SingleInv, [SingleUse!Next]_invitationsVars PROVE SingleRecord' /\ SingleDeletion'
  OBVIOUS
<1> DEFINE Records == [state : {"none", "created", "accepted"}, acceptances : Seq(Acceptance)]
           Snapshots == [state : {"none", "created", "accepted", "gone"}, acceptances : Seq(Acceptance)]
<1>0. SingleRecord /\ SingleDeletion
  BY DEF SingleInv
<1>a. /\ record = [state |-> record.state, acceptances |-> record.acceptances]
      /\ record.acceptances \in Seq(Acceptance) /\ record.state \in {"none", "created", "accepted"}
      /\ snapshot.acceptances \in Seq(Acceptance)
      /\ snapshot.state \in {"none", "created", "accepted", "gone"}
  BY <1>0 DEF SingleRecord
<1>b. /\ SingleUse!NoRecord \in Records /\ SingleUse!NoRecord \in Snapshots
      /\ SingleUse!NoRecord.state = "none" /\ SingleUse!NoRecord.acceptances = <<>>
  BY DEF SingleUse!NoRecord
\* Only the queue grows.
<1>1. ASSUME accepting' \in Seq(Acceptance), accepting' # <<>> \/ accepting' = accepting,
             creating = "shared" \/ accepting' = accepting,
             UNCHANGED <<creating, oob, tagged, short, record, snapshot, deletion, deletes>>
      PROVE  SingleRecord' /\ SingleDeletion'
  BY <1>0, <1>1 DEF SingleRecord, SingleDeletion, Deleted
<1>2. CASE SingleUse!createInvitation \/ SingleUse!createShortUrl
  <2>1. {tagged', short'} \subseteq BOOLEAN
    <3>1. tagged' = tagged /\ (short' = short \/ short' = TRUE)
      BY <1>2 DEF SingleUse!createInvitation, SingleUse!createShortUrl
    <3> QED
      BY <1>0, <3>1, Zenon DEF SingleRecord
  <2> QED
    BY <1>0, <1>2, <2>1 DEF SingleUse!createInvitation, SingleUse!createShortUrl, SingleUse!cons,
      SingleUse!acc, SingleUse!adm, SingleRecord, SingleDeletion, Deleted
<1>3. CASE SingleUse!saveRecord
  <2>1. {tagged', short'} \subseteq BOOLEAN
    <3>1. tagged' = TRUE /\ short' = short
      BY <1>3 DEF SingleUse!saveRecord
    <3> QED
      BY <1>0, <3>1, Zenon DEF SingleRecord
  <2>2. /\ record' \in Records /\ record'.state = "created" /\ record'.acceptances = <<>>
    BY <1>3 DEF SingleUse!saveRecord
  <2>3. snapshot.state = "none"
    BY <1>0, <1>3, <1>a DEF SingleUse!saveRecord, SingleRecord
  <2> QED
    BY <1>0, <1>3, <2>1, <2>2, <2>3 DEF SingleUse!saveRecord, SingleUse!cons, SingleUse!acc, SingleUse!adm,
      SingleRecord, SingleDeletion, Deleted
<1>4. ASSUME NEW p \in SingleUse!Peers,
             SingleUse!bind(p) \/ SingleUse!completes(p) \/ SingleUse!tagAndSave(p)
             \/ SingleUse!discardExtraConnection(p) \/ SingleUse!deleteExtra(p)
      PROVE  SingleRecord' /\ SingleDeletion'
  <2> DEFINE call == [by |-> p, reused |-> FALSE]
  <2>1. call \in Acceptance
    BY DEF Acceptance, SingleUse!Peers, Peers
  <2>2. UNCHANGED <<creating, oob, tagged, short, record, snapshot, deletion, deletes>>
    BY <1>4 DEF SingleUse!bind, SingleUse!completes, SingleUse!tagAndSave, SingleUse!discardExtraConnection,
      SingleUse!deleteExtra, SingleUse!inv, SingleUse!acc, SingleUse!adm
  <2>3. accepting' = accepting \/ (accepting' = Append(accepting, call) /\ SingleUse!tagAndSave(p))
    BY <1>4 DEF SingleUse!bind, SingleUse!completes, SingleUse!tagAndSave, SingleUse!discardExtraConnection,
      SingleUse!deleteExtra, SingleUse!inv, SingleUse!acc, SingleUse!adm
  <2>4. SingleUse!tagAndSave(p) => creating = "shared"
    BY DEF SingleUse!tagAndSave, SingleInv, SingleConns
  <2>5. accepting' \in Seq(Acceptance) /\ (accepting' # <<>> \/ accepting' = accepting)
    <3>1. accepting \in Seq(Acceptance)
      BY <1>0 DEF SingleRecord
    <3>2. Append(accepting, call) \in Seq(Acceptance) /\ Append(accepting, call) # <<>>
      BY <2>1, <3>1
    <3> QED
      BY <2>3, <3>1, <3>2
  <2> QED
    BY <1>1, <2>2, <2>3, <2>4, <2>5
<1>5. ASSUME NEW p \in SingleUse!Peers, SingleUse!markDone(p) PROVE SingleRecord' /\ SingleDeletion'
  BY <1>0, <1>5 DEF SingleUse!markDone, SingleUse!cons, SingleUse!acc, SingleUse!adm, SingleRecord,
    SingleDeletion, Deleted
<1>6. CASE SingleUse!readRecord
  <2>1. /\ snapshot' \in Snapshots
        /\ \/ snapshot'.state = "gone" /\ record.state = "none"
           \/ snapshot' = record /\ record.state # "none"
        /\ UNCHANGED <<creating, oob, tagged, short, record, accepting, deletion, deletes>>
        /\ accepting # <<>>
    BY <1>0, <1>6, <1>a DEF SingleUse!readRecord, SingleUse!inv, SingleUse!adm, SingleRecord
  <2> QED
    BY <1>0, <1>a, <2>1 DEF SingleRecord, SingleDeletion, Deleted
<1>7. CASE SingleUse!recordAcceptance
  <2> DEFINE call == Head(accepting)
  <2>1. /\ accepting # <<>> /\ snapshot.state # "none" /\ snapshot' = SingleUse!NoRecord
        /\ accepting' = Tail(accepting)
        /\ UNCHANGED <<creating, oob, tagged, short, deletion, deletes>>
    BY <1>7 DEF SingleUse!recordAcceptance, SingleUse!inv, SingleUse!adm
  <2>2. call \in Acceptance /\ accepting' \in Seq(Acceptance) /\ creating = "shared"
    BY <1>0, <2>1, Begun DEF SingleRecord
  <2>3. CASE record' = record
    BY <1>0, <1>b, <2>1, <2>2, <2>3 DEF SingleRecord, SingleDeletion, Deleted
  <2>4. CASE record' # record
    <3>1. /\ record' = [state |-> "accepted", acceptances |-> Append(snapshot.acceptances, call)]
          /\ record.state # "none" /\ snapshot.state \notin {"accepted", "gone"}
      BY <1>7, <2>4 DEF SingleUse!recordAcceptance, SingleUse!update, SingleUse!Refused
    <3>2. snapshot.acceptances = <<>>
      BY <1>0, <1>a, <2>1, <3>1 DEF SingleRecord
    <3>3. record' \in Records /\ record'.state = "accepted" /\ Len(record'.acceptances) <= 1
      BY <1>a, <2>2, <3>1, <3>2
    <3> QED
      BY <1>0, <1>b, <2>1, <2>2, <3>1, <3>3 DEF SingleRecord, SingleDeletion, Deleted
  <2> QED
    BY <2>3, <2>4
<1>8. CASE SingleUse!tick
  BY <1>0, <1>8 DEF SingleUse!tick, SingleUse!inv, SingleUse!acc, SingleUse!adm, SingleRecord,
    SingleDeletion, Deleted
<1>9. ASSUME NEW p \in SingleUse!Peers, SingleUse!deleteConnection(p) PROVE SingleRecord' /\ SingleDeletion'
  BY <1>0, <1>9 DEF SingleUse!deleteConnection, SingleUse!inv, SingleUse!acc, SingleRecord,
    SingleDeletion, Deleted
<1>10. CASE SingleUse!deleteInvitation \/ SingleUse!deletionFails
  BY <1>0, <1>10 DEF SingleUse!deleteInvitation, SingleUse!deletionFails, SingleUse!inv, SingleUse!acc,
    SingleUse!cons, SingleRecord, SingleDeletion, Deleted
<1>11. CASE SingleUse!deleteOob
  BY <1>0, <1>11 DEF SingleUse!deleteOob, SingleUse!acc, SingleUse!cons, SingleRecord, SingleDeletion, Deleted
<1>12. CASE SingleUse!deleteShortUrlByRelatedFlowId
  <2>1. {tagged', short'} \subseteq BOOLEAN
    <3>1. tagged' = tagged /\ short' = FALSE
      BY <1>12 DEF SingleUse!deleteShortUrlByRelatedFlowId
    <3> QED
      BY <1>0, <3>1, Zenon DEF SingleRecord
  <2> QED
    BY <1>0, <1>12, <2>1 DEF SingleUse!deleteShortUrlByRelatedFlowId, SingleUse!acc, SingleUse!cons,
      SingleRecord, SingleDeletion, Deleted
<1>13. CASE SingleUse!deleteRecord
  BY <1>0, <1>b, <1>13 DEF SingleUse!deleteRecord, SingleUse!inv, SingleUse!acc, SingleUse!cons,
    SingleRecord, SingleDeletion, Deleted
<1>14. CASE UNCHANGED invitationsVars
  BY <1>0, <1>14 DEF invitationsVars, SingleRecord, SingleDeletion, Deleted
<1>15. \A p \in SingleUse!Peers : ~SingleUse!handshakeReused(p)
  BY DEF SingleUse!handshakeReused
<1> QED
  BY <1>2, <1>3, <1>4, <1>5, <1>6, <1>7, <1>8, <1>9, <1>10, <1>11, <1>12, <1>13, <1>14, <1>15
     DEF SingleUse!Next, SingleUse!Handlers

\* Peers that connect, the queue of saves and the listener keep the connections.
LEMMA SingleConnsKept == SingleInv /\ [SingleUse!Next]_invitationsVars => SingleConns'
<1> USE ConnectionBounds
<1> SUFFICES ASSUME SingleInv, [SingleUse!Next]_invitationsVars PROVE SingleConns'
  OBVIOUS
<1> DEFINE States == {"none", "bound", "open", "complete", "closed"}
<1>0. SingleConns
  BY DEF SingleInv
<1>1. ASSUME UNCHANGED <<conn, claims, born, millisecond, saving, discarding>>,
             creating' = creating \/ creating' = "shared" \/ creating # "shared"
      PROVE  SingleConns'
  BY <1>0, <1>1 DEF SingleConns
<1>2. ASSUME NEW p \in Peers, SingleUse!bind(p) PROVE SingleConns'
  <2>1. /\ conn[p] = "none" /\ creating = "shared" /\ creating' = creating
        /\ conn' = [conn EXCEPT ![p] = "bound"] /\ born' = [born EXCEPT ![p] = millisecond]
        /\ saving' = Append(saving, p) /\ UNCHANGED <<claims, millisecond, discarding>>
    BY <1>2 DEF SingleUse!bind, SingleUse!inv
  <2>2. /\ saving' \in Seq(Peers) /\ NoTwice(saving')
        /\ \A q \in Peers : Has(saving', q) <=> Has(saving, q) \/ q = p
    <3>1. saving \in Seq(Peers) /\ NoTwice(saving) /\ ~Has(saving, p)
      BY <1>0, <2>1 DEF SingleConns
    <3> QED
      BY <2>1, <3>1, Appended
  <2> QED
    BY <1>0, <2>1, <2>2 DEF SingleConns
<1>3. ASSUME NEW p \in Peers, SingleUse!tagAndSave(p) PROVE SingleConns'
  <2>1. /\ saving # <<>> /\ p = Head(saving) /\ saving' = Tail(saving)
        /\ conn' = [conn EXCEPT ![p] = "open"] /\ discarding' = [discarding EXCEPT ![p] = "due"]
        /\ claims' \subseteq Peers /\ UNCHANGED <<born, millisecond, creating>>
    BY <1>0, <1>3 DEF SingleUse!tagAndSave, SingleUse!inv, SingleConns
  <2>2. /\ saving' \in Seq(Peers) /\ NoTwice(saving') /\ ~Has(saving', p)
        /\ \A q \in Peers : Has(saving, q) <=> q = p \/ Has(saving', q)
    <3>1. saving \in Seq(Peers) /\ NoTwice(saving)
      BY <1>0 DEF SingleConns
    <3> QED
      BY <2>1, <3>1, Begun
  <2> QED
    BY <1>0, <2>1, <2>2 DEF SingleConns
<1>4. ASSUME NEW p \in Peers,
             SingleUse!discardExtraConnection(p) \/ SingleUse!deleteExtra(p) \/ SingleUse!deleteConnection(p)
             \/ SingleUse!markDone(p)
      PROVE  SingleConns'
  BY <1>0, <1>4 DEF SingleConns, SingleUse!discardExtraConnection, SingleUse!deleteExtra,
    SingleUse!deleteConnection, SingleUse!markDone, SingleUse!inv, SingleUse!cons
<1>5. CASE SingleUse!tick
  BY <1>0, <1>5 DEF SingleUse!tick, SingleUse!inv, SingleConns
<1>6. CASE \/ SingleUse!createInvitation \/ SingleUse!createShortUrl \/ SingleUse!saveRecord
           \/ SingleUse!readRecord \/ SingleUse!recordAcceptance \/ SingleUse!deleteInvitation
           \/ SingleUse!deletionFails \/ SingleUse!deleteOob
           \/ SingleUse!deleteShortUrlByRelatedFlowId \/ SingleUse!deleteRecord
  BY <1>1, <1>6 DEF SingleUse!createInvitation, SingleUse!createShortUrl, SingleUse!saveRecord,
    SingleUse!readRecord, SingleUse!recordAcceptance, SingleUse!deleteInvitation, SingleUse!deletionFails,
    SingleUse!deleteOob, SingleUse!deleteShortUrlByRelatedFlowId, SingleUse!deleteRecord, SingleUse!inv,
    SingleUse!cons
<1>7. \A p \in Peers : ~SingleUse!handshakeReused(p) /\ ~SingleUse!completes(p)
  BY DEF SingleUse!handshakeReused, SingleUse!completes
<1>8. CASE UNCHANGED invitationsVars
  BY <1>1, <1>8 DEF invitationsVars
<1> QED
  BY <1>2, <1>3, <1>4, <1>5, <1>6, <1>7, <1>8 DEF SingleUse!Next, SingleUse!Handlers, SingleUse!Peers, Peers

\* One acceptance, and a deletion that leaves nothing.
LEMMA SingleIsSound ==
    SingleInv => SingleUse!TypeOK /\ SingleUse!AcceptedOnce /\ SingleUse!NothingLeft
<1> USE ConnectionBounds
<1> SUFFICES ASSUME SingleInv PROVE SingleUse!TypeOK /\ SingleUse!AcceptedOnce /\ SingleUse!NothingLeft
  OBVIOUS
<1>1. SingleUse!TypeOK
  <2>1. /\ SingleUse!Range(saving) = {p \in Peers : conn[p] = "bound"}
    <3>1. saving \in Seq(Peers) /\ \A p \in Peers : Has(saving, p) <=> conn[p] = "bound"
      BY DEF SingleInv, SingleConns
    <3>2. DOMAIN saving = 1..Len(saving) /\ \A i \in 1..Len(saving) : saving[i] \in Peers
      BY <3>1
    <3> QED
      BY <3>1, <3>2 DEF SingleUse!Range, Has
  <2>2. SingleUse!Acceptances \subseteq Acceptance
    <3>1. record.acceptances \in Seq(Acceptance)
      BY DEF SingleInv, SingleRecord
    <3>2. DOMAIN record.acceptances = 1..Len(record.acceptances)
          /\ \A i \in 1..Len(record.acceptances) : record.acceptances[i] \in Acceptance
      BY <3>1
    <3> QED
      BY <3>2 DEF SingleUse!Range, SingleUse!Acceptances
  <2>3. record.state \in {"none", "created", "accepted"}
    BY DEF SingleInv, SingleRecord
  <2> QED
    BY <2>1, <2>2, <2>3 DEF SingleUse!TypeOK, SingleInv, SingleRecord, SingleDeletion, SingleConns,
      SingleUse!Peers, Peers, Acceptance
<1>2. SingleUse!AcceptedOnce
  <2>1. Len(record.acceptances) \in Nat /\ Len(record.acceptances) <= 1
    BY DEF SingleInv, SingleRecord
  <2> QED
    BY <2>1 DEF SingleUse!AcceptedOnce
<1>3. SingleUse!NothingLeft
  BY DEF SingleUse!NothingLeft, SingleInv, SingleDeletion, Deleted
<1> QED
  BY <1>1, <1>2, <1>3

-----------------------------------------------------------------------------
\* A multi-use invitation: what a call of accept read is what the record still
\* holds, a reuse is announced once, and a claim has its call or its acceptance.
Reuse(p) == [by |-> p, reused |-> TRUE]

MultiTypes ==
    /\ creating \in {"start", "oob", "short", "shared"}
    /\ record \in [state : {"none", "created", "accepted"}, acceptances : Seq(Acceptance)]
    /\ snapshot \in [state : {"none", "created", "accepted", "gone"}, acceptances : Seq(Acceptance)]
    /\ accepting \in Seq(Acceptance) /\ saving \in Seq(Peers) /\ claims \subseteq Peers
    /\ conn \in [Peers -> {"none", "bound", "open", "complete", "closed"}]

MultiRecord ==
    /\ creating # "shared" =>
         record.state = "none" /\ accepting = <<>> /\ saving = <<>> /\ claims = {}
    /\ snapshot.state # "none" => accepting # <<>>
    /\ snapshot.state \in {"created", "accepted"} => record.state = "none" \/ snapshot = record
    /\ snapshot.state = "gone" => record.state = "none"
    /\ record.state = "none" => record.acceptances = <<>>
    /\ NoTwice(record.acceptances)

MultiReuse ==
    \A p \in Peers :
      /\ Once(accepting, Reuse(p))
      /\ Has(accepting, Reuse(p)) => ~Has(record.acceptances, Reuse(p))
      /\ conn[p] = "none" => ~Has(accepting, Reuse(p)) /\ ~Has(record.acceptances, Reuse(p))

MultiClaims ==
    \A p \in claims : record.state # "none" =>
      \E reused \in BOOLEAN :
         \/ Has(accepting, [by |-> p, reused |-> reused])
         \/ Has(record.acceptances, [by |-> p, reused |-> reused])

MultiInv == MultiTypes /\ MultiRecord /\ MultiReuse /\ MultiClaims

LEMMA MultiBegins == MultiUse!Init => MultiInv
<1> SUFFICES ASSUME MultiUse!Init PROVE MultiInv
  OBVIOUS
<1> USE ConnectionBounds DEF MultiUse!Init
<1>1. record = [state |-> "none", acceptances |-> <<>>] /\ snapshot = record
  BY DEF MultiUse!NoRecord
<1>2. MultiTypes
  BY <1>1 DEF MultiTypes, MultiUse!Peers, Peers
<1>3. MultiRecord /\ MultiReuse /\ MultiClaims
  BY <1>1, Nothing DEF MultiRecord, MultiReuse, MultiClaims
<1> QED
  BY <1>2, <1>3 DEF MultiInv

\* Every step of creation, acceptance and deletion keeps it.
LEMMA MultiNext == MultiInv /\ [MultiUse!Next]_invitationsVars => MultiInv'
<1> USE ConnectionBounds
<1> SUFFICES ASSUME MultiInv, [MultiUse!Next]_invitationsVars PROVE MultiInv'
  OBVIOUS
<1> DEFINE Records == [state : {"none", "created", "accepted"}, acceptances : Seq(Acceptance)]
           Snapshots == [state : {"none", "created", "accepted", "gone"}, acceptances : Seq(Acceptance)]
           States == {"none", "bound", "open", "complete", "closed"}
<1>0. MultiTypes /\ MultiRecord /\ MultiReuse /\ MultiClaims
  BY DEF MultiInv
<1>a. /\ record = [state |-> record.state, acceptances |-> record.acceptances]
      /\ record.acceptances \in Seq(Acceptance) /\ record.state \in {"none", "created", "accepted"}
      /\ snapshot.acceptances \in Seq(Acceptance)
      /\ snapshot.state \in {"none", "created", "accepted", "gone"}
  BY <1>0 DEF MultiTypes
<1>b. /\ MultiUse!NoRecord \in Records /\ MultiUse!NoRecord \in Snapshots
      /\ MultiUse!NoRecord.state = "none" /\ MultiUse!NoRecord.acceptances = <<>>
  BY DEF MultiUse!NoRecord
<1>c. ASSUME NEW p \in Peers, NEW r \in BOOLEAN PROVE [by |-> p, reused |-> r] \in Acceptance
  BY DEF Acceptance
<1>d. \A p, q \in Peers : /\ Reuse(p) # [by |-> q, reused |-> FALSE]
                          /\ Reuse(p) = Reuse(q) => p = q
  BY DEF Reuse
\* A call of accept is announced, a reuse for the first time.
<1>1. ASSUME NEW p \in Peers, NEW r \in BOOLEAN,
             accepting' = Append(accepting, [by |-> p, reused |-> r]),
             creating = "shared", creating' = creating, UNCHANGED <<record, snapshot>>,
             conn' \in [Peers -> States], \A q \in Peers : conn'[q] = "none" => conn[q] = "none",
             saving' \in Seq(Peers), claims' \subseteq claims \cup {p},
             r => conn[p] = "none" /\ conn'[p] # "none"
      PROVE  MultiInv'
  <2> DEFINE call == [by |-> p, reused |-> r]
  <2>1. call \in Acceptance /\ accepting \in Seq(Acceptance)
    BY <1>0, <1>c DEF MultiTypes
  <2>2. /\ accepting' \in Seq(Acceptance) /\ accepting' # <<>>
        /\ \A x : Has(accepting', x) <=> Has(accepting, x) \/ x = call
        /\ \A x : Once(accepting, x) /\ x # call => Once(accepting', x)
        /\ ~Has(accepting, call) => Once(accepting', call)
    BY <1>1, <2>1, Appended
  <2>3. MultiTypes'
    BY <1>0, <1>1, <2>2 DEF MultiTypes
  <2>4. MultiRecord'
    BY <1>0, <1>1, <2>2 DEF MultiRecord
  <2>5. MultiReuse'
    <3> SUFFICES ASSUME NEW q \in Peers
                 PROVE  /\ Once(accepting', Reuse(q))
                        /\ Has(accepting', Reuse(q)) => ~Has(record.acceptances, Reuse(q))
                        /\ conn'[q] = "none" => ~Has(accepting', Reuse(q)) /\ ~Has(record.acceptances, Reuse(q))
      BY <1>1 DEF MultiReuse
    <3>1. CASE Reuse(q) # call
      BY <1>0, <1>1, <2>2, <3>1 DEF MultiReuse
    <3>2. CASE Reuse(q) = call
      <4>1. q = p /\ r = TRUE
        BY <3>2 DEF Reuse
      <4>2. ~Has(accepting, call) /\ ~Has(record.acceptances, call)
        BY <1>0, <1>1, <3>2, <4>1 DEF MultiReuse
      <4> QED
        BY <1>1, <2>2, <3>2, <4>1, <4>2
    <3> QED
      BY <3>1, <3>2
  <2>6. MultiClaims'
    BY <1>0, <1>1, <2>2 DEF MultiClaims
  <2> QED
    BY <2>3, <2>4, <2>5, <2>6 DEF MultiInv
\* The queue and the record stay.
<1>2. ASSUME UNCHANGED <<creating, record, snapshot, accepting>>, claims' = claims,
             conn' \in [Peers -> States], \A q \in Peers : conn'[q] = "none" => conn[q] = "none",
             saving' \in Seq(Peers), saving' = saving \/ creating = "shared"
      PROVE  MultiInv'
  <2>1. MultiTypes'
    BY <1>0, <1>2 DEF MultiTypes
  <2>2. MultiRecord'
    BY <1>0, <1>2 DEF MultiRecord
  <2>3. MultiReuse' /\ MultiClaims'
    BY <1>0, <1>2 DEF MultiReuse, MultiClaims
  <2> QED
    BY <2>1, <2>2, <2>3 DEF MultiInv
<1>3. CASE MultiUse!createInvitation \/ MultiUse!createShortUrl
  <2>1. /\ UNCHANGED <<record, snapshot, accepting, claims, conn, saving>>
        /\ creating' \in {"oob", "short"} /\ creating # "shared"
    BY <1>3 DEF MultiUse!createInvitation, MultiUse!createShortUrl, MultiUse!cons, MultiUse!acc
  <2> QED
    BY <1>0, <2>1 DEF MultiInv, MultiTypes, MultiRecord, MultiReuse, MultiClaims
<1>4. CASE MultiUse!saveRecord
  <2>1. /\ UNCHANGED <<snapshot, accepting, claims, conn, saving>> /\ creating = "short"
        /\ record' = [state |-> "created", acceptances |-> <<>>] /\ creating' = "shared"
    BY <1>4 DEF MultiUse!saveRecord, MultiUse!cons, MultiUse!acc
  <2>2. snapshot.state = "none" /\ claims = {} /\ accepting = <<>>
    BY <1>0, <1>a, <2>1 DEF MultiRecord
  <2>3. record' \in Records /\ record'.state = "created" /\ record'.acceptances = <<>>
    BY <2>1
  <2>4. MultiTypes'
    BY <1>0, <2>1, <2>3 DEF MultiTypes
  <2>5. MultiRecord'
    BY <1>0, <2>1, <2>2, <2>3, Nothing DEF MultiRecord
  <2>6. MultiReuse' /\ MultiClaims'
    BY <2>1, <2>2, <2>3, Nothing DEF MultiReuse, MultiClaims
  <2> QED
    BY <2>4, <2>5, <2>6 DEF MultiInv
<1>5. ASSUME NEW p \in Peers, MultiUse!bind(p) PROVE MultiInv'
  <2>1. /\ UNCHANGED <<creating, record, snapshot, accepting, claims>> /\ creating = "shared"
        /\ conn' = [conn EXCEPT ![p] = "bound"] /\ saving' = Append(saving, p)
    BY <1>5 DEF MultiUse!bind, MultiUse!inv, MultiUse!acc
  <2>2. saving' \in Seq(Peers)
    BY <1>0, <2>1 DEF MultiTypes
  <2>3. conn' \in [Peers -> States] /\ \A q \in Peers : conn'[q] = "none" => conn[q] = "none"
    BY <1>0, <2>1 DEF MultiTypes
  <2> QED
    BY <1>2, <2>1, <2>2, <2>3
<1>6. ASSUME NEW p \in Peers, MultiUse!tagAndSave(p) PROVE MultiInv'
  <2>1. /\ saving # <<>> /\ saving' = Tail(saving) /\ conn' = [conn EXCEPT ![p] = "open"]
        /\ UNCHANGED <<creating, record, snapshot>>
        /\ \/ accepting' = accepting /\ claims' = claims
           \/ accepting' = Append(accepting, [by |-> p, reused |-> FALSE]) /\ claims' = claims \cup {p}
    BY <1>6 DEF MultiUse!tagAndSave, MultiUse!inv
  <2>2. saving' \in Seq(Peers) /\ creating = "shared"
    BY <1>0, <2>1, Begun DEF MultiTypes, MultiRecord
  <2>3. conn' \in [Peers -> States] /\ \A q \in Peers : conn'[q] = "none" => conn[q] = "none"
    BY <1>0, <2>1 DEF MultiTypes
  <2> QED
    BY <1>1, <1>2, <2>1, <2>2, <2>3
<1>7. ASSUME NEW p \in Peers, MultiUse!completes(p) PROVE MultiInv'
  <2>1. /\ conn[p] = "open" /\ conn' = [conn EXCEPT ![p] = "complete"]
        /\ UNCHANGED <<creating, record, snapshot, claims, saving>>
        /\ \/ accepting' = accepting
           \/ p \in claims /\ accepting' = Append(accepting, [by |-> p, reused |-> FALSE])
    BY <1>7 DEF MultiUse!completes, MultiUse!inv
  <2>2. saving' \in Seq(Peers) /\ (p \in claims => creating = "shared") /\ claims' \subseteq claims \cup {p}
    BY <1>0, <2>1 DEF MultiTypes, MultiRecord
  <2>3. conn' \in [Peers -> States] /\ \A q \in Peers : conn'[q] = "none" => conn[q] = "none"
    BY <1>0, <2>1 DEF MultiTypes
  <2> QED
    BY <1>1, <1>2, <2>1, <2>2, <2>3
<1>8. ASSUME NEW p \in Peers, MultiUse!handshakeReused(p) PROVE MultiInv'
  <2>1. /\ conn[p] = "none" /\ conn' = [conn EXCEPT ![p] = "complete"] /\ creating = "shared"
        /\ UNCHANGED <<creating, record, snapshot, claims, saving>>
        /\ \/ accepting' = accepting
           \/ accepting' = Append(accepting, [by |-> p, reused |-> TRUE])
    BY <1>8 DEF MultiUse!handshakeReused, MultiUse!inv
  <2>2. saving' \in Seq(Peers) /\ claims' \subseteq claims \cup {p}
    BY <1>0, <2>1 DEF MultiTypes
  <2>3. /\ conn' \in [Peers -> States] /\ \A q \in Peers : conn'[q] = "none" => conn[q] = "none"
        /\ conn'[p] # "none"
    BY <1>0, <2>1 DEF MultiTypes
  <2> QED
    BY <1>1, <1>2, <2>1, <2>2, <2>3
<1>9. CASE MultiUse!readRecord
  <2>1. /\ snapshot' \in Snapshots
        /\ \/ snapshot'.state = "gone" /\ record.state = "none"
           \/ snapshot' = record /\ record.state # "none"
        /\ UNCHANGED <<creating, record, accepting, conn, saving, claims>>
        /\ accepting # <<>>
    BY <1>9, <1>a DEF MultiUse!readRecord, MultiUse!inv, MultiUse!cons
  <2>2. MultiTypes'
    BY <1>0, <2>1 DEF MultiTypes
  <2>3. MultiRecord'
    BY <1>0, <1>a, <2>1 DEF MultiRecord
  <2>4. MultiReuse' /\ MultiClaims'
    BY <1>0, <2>1 DEF MultiReuse, MultiClaims
  <2> QED
    BY <2>2, <2>3, <2>4 DEF MultiInv
<1>10. CASE MultiUse!recordAcceptance
  <2> DEFINE call == Head(accepting)
  <2>1. /\ accepting # <<>> /\ snapshot.state # "none" /\ snapshot' = MultiUse!NoRecord
        /\ accepting' = Tail(accepting)
        /\ UNCHANGED <<creating, conn, saving, claims>>
    BY <1>10 DEF MultiUse!recordAcceptance, MultiUse!inv, MultiUse!cons
  <2>2. /\ call \in Acceptance /\ accepting' \in Seq(Acceptance) /\ creating = "shared"
        /\ \A x : Has(accepting, x) <=> x = call \/ Has(accepting', x)
        /\ \A x : Once(accepting, x) => Once(accepting', x)
        /\ Once(accepting, call) => ~Has(accepting', call)
    <3>1. accepting \in Seq(Acceptance) /\ (creating # "shared" => accepting = <<>>)
      BY <1>0 DEF MultiTypes, MultiRecord
    <3> QED
      BY <2>1, <3>1, Begun
  <2>3. \E p \in Peers, r \in BOOLEAN : call = [by |-> p, reused |-> r]
    BY <2>2 DEF Acceptance
  <2> HIDE DEF call
  \* The acceptance is in the record already, or the record is gone.
  <2>4. CASE record' = record
    <3>1. record.state # "none" => Has(record.acceptances, call)
      <4> SUFFICES ASSUME record.state # "none" PROVE Has(record.acceptances, call)
        OBVIOUS
      <4>1. snapshot = record
        BY <1>0, <1>a, <2>1 DEF MultiRecord
      <4>2. CASE MultiUse!Refused(call)
        <5>1. call \in MultiUse!Range(snapshot.acceptances)
          BY <1>0, <4>2 DEF MultiUse!Refused, MultiRecord
        <5>2. DOMAIN record.acceptances = 1..Len(record.acceptances)
          BY <1>a
        <5> QED
          BY <4>1, <5>1, <5>2 DEF MultiUse!Range, Has
      <4>3. CASE ~MultiUse!Refused(call)
        <5>1. record' = [state |-> "accepted", acceptances |-> Append(record.acceptances, call)]
          BY <1>10, <4>1, <4>3 DEF MultiUse!recordAcceptance, MultiUse!update, call
        <5>2. record.acceptances = Append(record.acceptances, call)
          BY <2>4, <5>1
        <5> QED
          BY <1>a, <2>2, <5>2, Appended
      <4> QED
        BY <4>2, <4>3
    <3>2. MultiTypes' /\ MultiRecord'
      BY <1>0, <1>b, <2>1, <2>2, <2>4 DEF MultiTypes, MultiRecord
    <3>3. MultiReuse'
      BY <1>0, <2>1, <2>2, <2>4 DEF MultiReuse
    <3>4. MultiClaims'
      BY <1>0, <2>1, <2>2, <2>4, <3>1 DEF MultiClaims
    <3> QED
      BY <3>2, <3>3, <3>4 DEF MultiInv
  <2>5. CASE record' # record
    <3>1. /\ record' = [state |-> "accepted", acceptances |-> Append(snapshot.acceptances, call)]
          /\ record.state # "none" /\ ~MultiUse!Refused(call)
      BY <1>10, <2>5 DEF MultiUse!recordAcceptance, MultiUse!update, call
    <3>2. snapshot = record
      BY <1>0, <1>a, <2>1, <3>1 DEF MultiRecord
    <3>3. ~Has(record.acceptances, call)
      <4>1. CASE call.reused = TRUE
        <5>1. PICK p \in Peers : call = Reuse(p)
          <6>1. PICK p \in Peers, r \in BOOLEAN : call = [by |-> p, reused |-> r]
            BY <2>3
          <6>2. call.reused = r
            BY <6>1
          <6> QED
            BY <4>1, <6>1, <6>2 DEF Reuse
        <5> QED
          BY <1>0, <2>2, <5>1 DEF MultiReuse
      <4>2. CASE call.reused = FALSE
        <5>1. call \notin MultiUse!Range(record.acceptances)
          BY <3>1, <3>2, <4>2 DEF MultiUse!Refused
        <5>2. DOMAIN record.acceptances = 1..Len(record.acceptances)
          BY <1>a
        <5> QED
          BY <5>1, <5>2 DEF MultiUse!Range, Has
      <4>3. call.reused = TRUE \/ call.reused = FALSE
        <5>1. PICK p \in Peers, r \in BOOLEAN : call = [by |-> p, reused |-> r]
          BY <2>3
        <5>2. call.reused = r
          BY <5>1
        <5> QED
          BY <5>2
      <4> QED
        BY <4>1, <4>2, <4>3
    <3>4. /\ record'.state = "accepted" /\ record'.acceptances = Append(record.acceptances, call)
          /\ record' \in Records
      BY <1>a, <2>2, <3>1, <3>2
    <3>5. /\ \A x : Has(record'.acceptances, x) <=> Has(record.acceptances, x) \/ x = call
          /\ NoTwice(record'.acceptances)
      BY <1>0, <1>a, <2>2, <3>3, <3>4, Appended DEF MultiRecord
    <3>6. MultiTypes'
      BY <1>0, <1>b, <2>1, <2>2, <3>4 DEF MultiTypes
    <3>7. MultiRecord'
      BY <1>0, <1>b, <2>1, <2>2, <3>4, <3>5 DEF MultiRecord
    <3>8. MultiReuse'
      BY <1>0, <2>1, <2>2, <3>5 DEF MultiReuse
    <3>9. MultiClaims'
      BY <1>0, <2>1, <2>2, <3>1, <3>5 DEF MultiClaims
    <3> QED
      BY <3>6, <3>7, <3>8, <3>9 DEF MultiInv
  <2> QED
    BY <2>4, <2>5
<1>11. ASSUME NEW p \in Peers,
             MultiUse!discardExtraConnection(p) \/ MultiUse!deleteExtra(p) \/ MultiUse!deleteConnection(p)
             \/ MultiUse!markDone(p)
      PROVE  MultiInv'
  <2>1. /\ UNCHANGED <<creating, record, snapshot, accepting, claims, saving>>
        /\ conn' = conn \/ conn' = [conn EXCEPT ![p] = "closed"]
    BY <1>11 DEF MultiUse!discardExtraConnection, MultiUse!deleteExtra, MultiUse!deleteConnection,
      MultiUse!markDone, MultiUse!inv, MultiUse!acc, MultiUse!cons
  <2>2. /\ conn' \in [Peers -> States] /\ \A q \in Peers : conn'[q] = "none" => conn[q] = "none"
        /\ saving' \in Seq(Peers)
    BY <1>0, <2>1 DEF MultiTypes
  <2> QED
    BY <1>2, <2>1, <2>2
<1>12. CASE \/ MultiUse!tick \/ MultiUse!deleteInvitation \/ MultiUse!deletionFails \/ MultiUse!deleteOob
            \/ MultiUse!deleteShortUrlByRelatedFlowId \/ UNCHANGED invitationsVars
  <2>1. UNCHANGED <<creating, record, snapshot, accepting, claims, saving, conn>>
    BY <1>12 DEF MultiUse!tick, MultiUse!deleteInvitation, MultiUse!deletionFails, MultiUse!deleteOob,
      MultiUse!deleteShortUrlByRelatedFlowId, invitationsVars, MultiUse!inv, MultiUse!acc, MultiUse!cons
  <2>2. conn' \in [Peers -> States] /\ saving' \in Seq(Peers)
    BY <1>0, <2>1 DEF MultiTypes
  <2> QED
    BY <1>2, <2>1, <2>2
<1>13. CASE MultiUse!deleteRecord
  <2>1. /\ UNCHANGED <<creating, snapshot, accepting, claims, saving, conn>>
        /\ record' = MultiUse!NoRecord
    BY <1>13 DEF MultiUse!deleteRecord, MultiUse!inv, MultiUse!acc, MultiUse!cons
  <2>2. MultiTypes'
    BY <1>0, <1>b, <2>1 DEF MultiTypes
  <2>3. MultiRecord'
    BY <1>0, <1>b, <2>1, Nothing DEF MultiRecord
  <2>4. MultiReuse' /\ MultiClaims'
    BY <1>0, <1>b, <2>1, Nothing DEF MultiReuse, MultiClaims
  <2> QED
    BY <2>2, <2>3, <2>4 DEF MultiInv
<1> QED
  BY <1>3, <1>4, <1>5, <1>6, <1>7, <1>8, <1>9, <1>10, <1>11, <1>12, <1>13
     DEF MultiUse!Next, MultiUse!Handlers, MultiUse!Peers, Peers

\* No acceptance is recorded twice, and none that was claimed is lost.
LEMMA MultiIsSound == MultiInv => MultiUse!AcceptedOnce /\ MultiUse!AcceptanceKept
<1> SUFFICES ASSUME MultiInv PROVE MultiUse!AcceptedOnce /\ MultiUse!AcceptanceKept
  OBVIOUS
<1>1. MultiUse!AcceptedOnce
  BY DEF MultiUse!AcceptedOnce, MultiInv, MultiRecord, NoTwice
<1>2. ASSUME NEW p \in claims, record.state # "none", ~MultiUse!InProgress(p)
      PROVE  \E a \in MultiUse!Acceptances : a.by = p
  <2>1. PICK reused \in BOOLEAN : \/ Has(accepting, [by |-> p, reused |-> reused])
                                  \/ Has(record.acceptances, [by |-> p, reused |-> reused])
    BY <1>2 DEF MultiInv, MultiClaims
  <2>2. ~Has(accepting, [by |-> p, reused |-> reused])
    <3>1. [by |-> p, reused |-> reused].by = p
      OBVIOUS
    <3> QED
      BY <1>2, <3>1 DEF MultiUse!InProgress, Has
  <2>3. DOMAIN record.acceptances = 1..Len(record.acceptances)
    BY DEF MultiInv, MultiTypes
  <2>4. [by |-> p, reused |-> reused] \in MultiUse!Acceptances
    BY <2>1, <2>2, <2>3 DEF MultiUse!Acceptances, MultiUse!Range, Has
  <2> QED
    BY <2>4
<1> QED
  BY <1>1, <1>2 DEF MultiUse!AcceptanceKept

-----------------------------------------------------------------------------
\* An invitation under races of peers, of the two queues, of the listener and of
\* a deletion that fails between two steps: a single-use one is accepted once
\* and leaves nothing behind, an acceptance of a multi-use one is not lost
\* (InvitationEvents, deleteInvitation).
THEOREM InvitationsAreSound == MCSpec => []InvitationsSound
<1> DEFINE SInv == scenario = "single use" => SingleInv
           MInv == scenario = "multi use" => MultiInv
<1>1. MCInit => SInv /\ MInv
  <2>1. MCInit => SInv
    BY SingleBegins, Zenon DEF MCInit
  <2>2. MCInit => MInv
    BY MultiBegins, Zenon DEF MCInit
  <2> QED
    BY <2>1, <2>2, Zenon
<1>2. SInv /\ MInv /\ [MCNext]_allVars => SInv' /\ MInv'
  <2> SUFFICES ASSUME SInv, MInv, [MCNext]_allVars PROVE SInv' /\ MInv'
    BY Zenon
  <2>0. scenario' = scenario
    BY Zenon DEF MCNext, allVars
  <2>1. scenario = "single use" => [SingleUse!Next]_invitationsVars
    BY Zenon DEF MCNext, allVars
  <2>2. scenario = "multi use" => [MultiUse!Next]_invitationsVars
    BY Zenon DEF MCNext, allVars
  <2>3. SingleInv /\ [SingleUse!Next]_invitationsVars => SingleInv'
    BY SingleRecordKept, SingleConnsKept, Zenon DEF SingleInv
  <2> QED
    BY <2>0, <2>1, <2>2, <2>3, MultiNext, Zenon
<1>3. SInv /\ MInv => InvitationsSound
  BY SingleIsSound, MultiIsSound, Zenon DEF InvitationsSound
<1> QED
  BY <1>1, <1>2, <1>3, PTL DEF MCSpec

\* The connections, over late close events, races of dialling calls and failing
\* listeners: no entry of the transport table outlives its socket, a request
\* over HTTP has one response, a peer has one record and none is left pending,
\* a state is announced once and the listeners do not end the process.
THEOREM ConnectionsAreSound == MCSpec => []ConnectionsSound
<1> DEFINE OInv == scenario = "outbound" => OutboundInv
           DInv == scenario = "dialling" => DiallingInv
           LInv == scenario = "listeners" => ListenersInv
<1>1. MCInit => OInv /\ DInv /\ LInv
  <2>1. MCInit => OInv
    BY OutboundBegins, Zenon DEF MCInit
  <2>2. MCInit => DInv
    BY DiallingBegins, Zenon DEF MCInit
  <2>3. MCInit => LInv
    BY ListenersBegin, Zenon DEF MCInit
  <2> QED
    BY <2>1, <2>2, <2>3, Zenon
<1>2. OInv /\ DInv /\ LInv /\ [MCNext]_allVars => OInv' /\ DInv' /\ LInv'
  <2> SUFFICES ASSUME OInv, DInv, LInv, [MCNext]_allVars PROVE OInv' /\ DInv' /\ LInv'
    BY Zenon
  <2>0. scenario' = scenario
    BY Zenon DEF MCNext, allVars
  <2>1. scenario = "outbound" => [Outbound!Next]_transportsVars
    BY Zenon DEF MCNext, allVars
  <2>2. scenario = "dialling" => [Dialling!Next]_peerConnectionVars
    BY Zenon DEF MCNext, allVars
  <2>3. scenario = "listeners" => [Listeners!Next]_connectionEventsVars
    BY Zenon DEF MCNext, allVars
  <2> QED
    BY <2>0, <2>1, <2>2, <2>3, OutboundNext, DiallingNext, ListenersNext, Zenon
<1>3. OInv /\ DInv /\ LInv => ConnectionsSound
  BY OutboundIsSound, DiallingIsSound, ListenersAreSound, Zenon DEF ConnectionsSound
<1> QED
  BY <1>1, <1>2, <1>3, PTL DEF MCSpec
=============================================================================
