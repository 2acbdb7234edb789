----------------------------- MODULE MessageEvents -----------------------------
(***************************************************************************)
(* The events the chat and MRTD plugins raise for the DIDComm messages a   *)
(* peer sends: plugin-chat/src/events and plugin-mrtd/src/events.          *)
(*                                                                         *)
(* A message reaches the outside over two channels.  The webhook posts the *)
(* module events (emitModuleMessageEvent) and the basic messages of        *)
(* apps/vs-agent/src/utils/webhookEvent.ts; the bus carries the            *)
(* MessageReceived events of the plugins' own listeners.  A message is     *)
(* first run by the handler of its protocol, which may raise a protocol    *)
(* event; then by the middleware behind the handler; then the framework    *)
(* raises DidCommMessageProcessed.  Every one of these has a listener that *)
(* announces some kinds of message, and some listeners wait for the wallet *)
(* (getRecordId) before they do.  Nobody awaits a listener: a rejection in *)
(* one takes the process down (webhookEvent.ts:64).                        *)
(***************************************************************************)
EXTENDS Naturals, Sequences, FiniteSets, SequencesExt

CONSTANTS Inbound,      \* the messages peers send
          Own,          \* the messages this agent sends
          Kinds,        \* the kinds of inbound message of the instance
          MaxCrashes    \* how often a rejected listener ends the process

VARIABLES phase,        \* how far each inbound message is
          msg,          \* its kind, connection and parent thread
          waiting,      \* messages whose listener waits for the wallet
          hooks,        \* posted on the webhook, in order
          bus,          \* raised as MessageReceived, in order
          sent,         \* own messages sent
          disclosed,    \* profile requests answered with this agent's profile
          cut,          \* messages in work when the process ended
          crashes,
          up

vars == <<phase, msg, waiting, hooks, bus, sent, disclosed, cut, crashes, up>>

-----------------------------------------------------------------------------

\* The kinds of message of the modules in CHAT_DIDCOMM_MODULES.
ChatKinds == {"receipt", "reaction", "requestProfile", "profile", "requestMedia",
              "shareMedia", "call", "menuRequest", "perform", "answer"}

\* Announced from the event of their protocol, not from the middleware.
FROM_MODULE_EVENT == {"shareMedia", "profile"}

MrtdData == {"mrz", "emrtd"}
MrtdReports == {"refused", "timeout", "otherReport"}

\* The kinds whose handler raises an event of its own; it needs a connection.
RaisesEvent == {"text", "reaction"} \cup FROM_MODULE_EVENT \cup MrtdData \cup MrtdReports

Letters == [kind : Kinds, connected : BOOLEAN, threaded : BOOLEAN]

\* What a listener adds to the channels: posts, bus events, suspended listeners.
Nothing == [hook |-> FALSE, bus |-> FALSE, wait |-> FALSE]

\* The effect of a listener on message m.
Apply(m, e) ==
  /\ hooks' = IF e.hook THEN Append(hooks, m) ELSE hooks
  /\ bus' = IF e.bus THEN Append(bus, m) ELSE bus
  /\ waiting' = IF e.wait THEN waiting \cup {m} ELSE waiting

-----------------------------------------------------------------------------
(* The listeners of the protocols' own events.                             *)

\* Media: both listeners want a record the agent received; the one of the bus
\* waits for the wallet when the message is in a parent thread.
mediaStateChanged(role, threaded) ==
  IF role = "receiver"
  THEN [hook |-> TRUE, bus |-> ~threaded, wait |-> threaded]
  ELSE Nothing

\* A basic message: the webhook wants the received ones only.
basicMessageReceived(role) == [Nothing EXCEPT !.hook = role = "receiver"]

profileUpdated == [Nothing EXCEPT !.hook = TRUE, !.bus = TRUE]

reactionsReceived == [Nothing EXCEPT !.bus = TRUE]

\* MRZ and eMRTD data: nothing is announced before the wallet answers.
mrtdDataReceived == [Nothing EXCEPT !.wait = TRUE]

\* A problem report: posted at once, raised on the bus after the wallet answers
\* when its code is one of the four known ones.
mrtdProblemReport(kind) == [Nothing EXCEPT !.hook = TRUE, !.wait = kind # "otherReport"]

\* The event the handler of a kind raises, as its listeners treat it.
moduleEvent(l) ==
  CASE l.kind = "text" -> basicMessageReceived("receiver")
    [] l.kind = "shareMedia" -> mediaStateChanged("receiver", l.threaded)
    [] l.kind = "profile" -> profileUpdated
    [] l.kind = "reaction" -> reactionsReceived
    [] l.kind \in MrtdData -> mrtdDataReceived
    [] l.kind \in MrtdReports -> mrtdProblemReport(l.kind)
    [] OTHER -> Nothing

-----------------------------------------------------------------------------
(* The middleware and the listener of DidCommMessageProcessed.             *)

announceEvery(l) == [Nothing EXCEPT !.hook = l.connected /\ l.kind \in ChatKinds]

\* Behind the handler: post every chat message, except those posted from their
\* module event.
middlewareEffect(l) ==
  [Nothing EXCEPT !.hook = /\ l.connected
                           /\ l.kind \in ChatKinds \ FROM_MODULE_EVENT]

\* Menus are raised at once; a text in a thread waits for the id of the thread's
\* record, an answer for its question, a call message for the id of its record.
processedEffect(l) ==
  IF ~l.connected THEN Nothing
  ELSE [hook |-> FALSE,
        bus  |-> \/ l.kind \in {"menuRequest", "perform"}
                 \/ l.kind = "text" /\ ~l.threaded,
        wait |-> \/ l.kind \in {"answer", "call"}
                 \/ l.kind = "text" /\ l.threaded]

\* What the listener does once the wallet answered.
resumedEffect(kind) == [Nothing EXCEPT !.bus = TRUE, !.hook = kind \in MrtdData]

-----------------------------------------------------------------------------

Init ==
  /\ phase = [m \in Inbound |-> "wire"]
  /\ msg \in [Inbound -> Letters]
  /\ \A m \in Inbound : msg[m].kind \in RaisesEvent => msg[m].connected
  /\ waiting = {} /\ hooks = <<>> /\ bus = <<>>
  /\ sent = {} /\ disclosed = {} /\ cut = {}
  /\ crashes = 0 /\ up = TRUE

\* The handler of the protocol runs and raises its event.
handle(m) ==
  /\ up /\ phase[m] = "wire"
  /\ phase' = [phase EXCEPT ![m] = "handled"]
  /\ Apply(m, moduleEvent(msg[m]))
  /\ UNCHANGED <<msg, sent, disclosed, cut, crashes, up>>

\* The handler throws: neither the rest of the middleware nor the framework's
\* event follows.
refuse(m) ==
  /\ up /\ phase[m] = "wire"
  /\ phase' = [phase EXCEPT ![m] = "rejected"]
  /\ UNCHANGED <<msg, waiting, hooks, bus, sent, disclosed, cut, crashes, up>>

\* The middleware goes on after next().
middleware(m) ==
  /\ up /\ phase[m] = "handled"
  /\ phase' = [phase EXCEPT ![m] = "dispatched"]
  /\ Apply(m, middlewareEffect(msg[m]))
  /\ UNCHANGED <<msg, sent, disclosed, cut, crashes, up>>

\* The framework raises DidCommMessageProcessed.
processed(m) ==
  /\ up /\ phase[m] = "dispatched"
  /\ phase' = [phase EXCEPT ![m] = "done"]
  /\ Apply(m, processedEffect(msg[m]))
  /\ UNCHANGED <<msg, sent, disclosed, cut, crashes, up>>

\* The wallet answers a waiting listener.
getRecordId(m) ==
  /\ up /\ m \in waiting
  /\ hooks' = IF resumedEffect(msg[m].kind).hook THEN Append(hooks, m) ELSE hooks
  /\ bus' = IF resumedEffect(msg[m].kind).bus THEN Append(bus, m) ELSE bus
  /\ waiting' = waiting \ {m}
  /\ UNCHANGED <<phase, msg, sent, disclosed, cut, crashes, up>>

InWork == waiting \cup {m \in Inbound : phase[m] \in {"handled", "dispatched"}}

\* A listener rejects and nobody catches it: the process ends with all it held.
processEnds ==
  /\ up /\ crashes < MaxCrashes
  /\ up' = FALSE /\ crashes' = crashes + 1
  /\ cut' = cut \cup InWork
  /\ phase' = [m \in Inbound |-> IF phase[m] \in {"handled", "dispatched"}
                                 THEN "lost" ELSE phase[m]]
  /\ waiting' = {}
  /\ UNCHANGED <<msg, hooks, bus, sent, disclosed>>

\* The lookup behind a waiting listener fails.
lookupFails == waiting # {} /\ processEnds

\* A connection completes; the request for the peer's profile is awaited in the
\* listener and cannot be sent.
requestUserProfileFails == processEnds

\* The supervisor starts the process again.
restart ==
  /\ ~up
  /\ up' = TRUE
  /\ UNCHANGED <<phase, msg, waiting, hooks, bus, sent, disclosed, cut, crashes>>

\* An operator shares media: the record of the agent's own message changes state.
shareMedia(o) ==
  /\ up /\ o \in Own \ sent
  /\ sent' = sent \cup {o}
  /\ Apply(o, mediaStateChanged("sender", FALSE))
  /\ UNCHANGED <<phase, msg, disclosed, cut, crashes, up>>

\* An operator sends a text.
sendText(o) ==
  /\ up /\ o \in Own \ sent
  /\ sent' = sent \cup {o}
  /\ Apply(o, basicMessageReceived("sender"))
  /\ UNCHANGED <<phase, msg, disclosed, cut, crashes, up>>

\* An operator sends the profile in the thread of a posted request.
sendProfile(m) ==
  /\ up /\ m \in Range(hooks) \ (disclosed \cup Own)
  /\ msg[m].kind = "requestProfile"
  /\ disclosed' = disclosed \cup {m}
  /\ UNCHANGED <<phase, msg, waiting, hooks, bus, sent, cut, crashes, up>>

Next ==
  \/ \E m \in Inbound : \/ handle(m) \/ refuse(m) \/ middleware(m)
                        \/ processed(m) \/ getRecordId(m) \/ sendProfile(m)
  \/ \E o \in Own : shareMedia(o) \/ sendText(o)
  \/ lookupFails \/ requestUserProfileFails \/ restart

Spec == Init /\ [][Next]_vars

\* What the event loop and the wallet guarantee: a handled message is carried on
\* and a lookup is answered.  An operator need not act.
Fairness ==
  \A m \in Inbound : /\ WF_vars(middleware(m)) /\ WF_vars(processed(m))
                     /\ WF_vars(getRecordId(m))

FairSpec == Spec /\ Fairness

-----------------------------------------------------------------------------
(* Properties.                                                             *)

\* Type invariant.
TypeOK ==
  /\ phase \in [Inbound -> {"wire", "handled", "dispatched", "done", "rejected", "lost"}]
  /\ msg \in [Inbound -> Letters]
  /\ waiting \subseteq Inbound
  /\ hooks \in Seq(Inbound \cup Own) /\ bus \in Seq(Inbound \cup Own)
  /\ sent \subseteq Own /\ disclosed \subseteq Inbound /\ cut \subseteq Inbound
  /\ crashes \in 0..MaxCrashes /\ up \in BOOLEAN

\* No message is announced twice on a channel, although three listeners look at
\* each one (FROM_MODULE_EVENT, didcommModuleEvents.ts:90), and a restart does
\* not announce one again.
AnnouncedOnce == IsInjective(hooks) /\ IsInjective(bus)

\* What the agent itself sends is announced on neither channel: the listeners of
\* a record's state see its own messages too (didcommModuleEvents.ts:115,
\* webhookEvent.ts:126).
OwnIsSilent == (Range(hooks) \cup Range(bus)) \cap Own = {}

\* A message the framework finished with is on the webhook even when the bus
\* listener behind it never resumed; MRTD data, which waits for the wallet on
\* both channels, is on the webhook whenever it is on the bus.
PostedBeforeLookup ==
  \A m \in Inbound :
    /\ (phase[m] = "done" /\ msg[m].connected /\ msg[m].kind \notin MrtdData)
         => m \in Range(hooks)
    /\ (m \in Range(bus) /\ msg[m].kind \in MrtdData) => m \in Range(hooks)

\* A message a handler took on a connection is posted in the end, unless the
\* process ended with it in work.
HandledIsPosted ==
  \A m \in Inbound :
    (phase[m] = "handled" /\ msg[m].connected) ~> (m \in Range(hooks) \/ m \in cut)

\* A request for the agent's profile is answered with it: setupChatProtocols.ts:27
\* turns the module's own answer off because it is "managed externally in
\* ChatEvents".
ProfileDisclosed ==
  \A m \in Inbound :
    (msg[m].kind = "requestProfile" /\ phase[m] = "handled")
      ~> (m \in disclosed \/ m \in cut)

=============================================================================
