-------------------------------- MODULE EventBus --------------------------------
(*****************************************************************************)
(* packages/events/bus.py: EventBus, between its publishers, its local       *)
(* subscribers, the NATS client and the JetStream server.                    *)
(*                                                                           *)
(* The bus lives in one asyncio process: a publisher is suspended while it   *)
(* waits for the server and while a local handler runs, and anything else    *)
(* may happen then.  The NATS client and server are external: the client     *)
(* keeps one connection, reports its loss and its return by callbacks that   *)
(* it awaits one after the other, and reconnects without limit; the server   *)
(* stores a message in the stream that takes its subject, drops one whose    *)
(* Nats-Msg-Id it has seen (its window is longer than a behaviour here), and *)
(* redelivers what a durable consumer has not acknowledged.                  *)
(*****************************************************************************)
EXTENDS Naturals, Sequences, FiniteSets, SequencesExt

CONSTANTS
  Events,        \* events that may be published, once each
  Class,         \* event -> first word of its event_type
  Correlation,   \* event -> its correlation_id
  Patterns,      \* patterns local subscribers use
  Hears,         \* pattern -> the events it matches
  Closes,        \* TRUE: the application may close the bus
  MaxHandlers,   \* bound on the handlers of one pattern
  MaxDrops       \* bound on losses of the connection

\* _STREAM_CONFIGS: a stream takes the subjects of one class of events.
Streams == {"AUDIT", "DATA", "SCHEMA", "JOBS", "SYNC"}
SubjectOf == [AUDIT |-> "audit", DATA |-> "data", SCHEMA |-> "schema",
              JOBS |-> "jobs", SYNC |-> "sync"]
Classes == {"audit", "data", "edge", "schema", "jobs", "sync", "ingestion"}

ASSUME BusAssumption ==
  /\ Class \in [Events -> Classes]
  /\ DOMAIN Correlation = Events
  /\ Hears \in [Patterns -> SUBSET Events]
  /\ Closes \in BOOLEAN
  /\ MaxHandlers \in Nat \ {0} /\ MaxDrops \in Nat

StreamsFor(e) == {s \in Streams : SubjectOf[s] = Class[e]}

\* The durable consumer of this instance reads the DATA stream.
Consumable(e) == "DATA" \in StreamsFor(e)

VARIABLES
  link,        \* connection of the NATS client: "none", "up" or "down"
  callbacks,   \* connection callbacks the client has yet to run
  client,      \* TRUE: _nc and _js are set
  connected,   \* _connected
  setup,       \* "none", then the streams left to provision, then "ready"
  streams,     \* streams that exist on the server
  closing,     \* progress of close(): "open", "draining", "closed"
  stage,       \* where publish() of each event is
  at,          \* position of its dispatch: pattern, handler, size of the dict
  wire,        \* messages sent and not arrived
  stored,      \* messages the streams hold, in order of arrival
  reply,       \* the server's answer to each publish
  acked,       \* events whose publisher was told they are stored
  subs,        \* _subscribers, in insertion order: [pattern, handlers]
  late,        \* history: events that a pattern was new to during their dispatch
  known,       \* history: local registrations when publish() was called
  heard,       \* history: registrations that were invoked, in order
  durable,     \* TRUE: the JetStream subscription is open
  inHand,      \* messages in _msg_handler, with its stage
  handled,     \* history: messages whose durable handler returned
  consumed,    \* messages the server has as acknowledged
  drops        \* losses of the connection so far

clientVars   == <<link, callbacks, client, connected, closing, drops>>
serverVars   == <<setup, streams, wire, stored, reply>>
publishVars  == <<stage, at, acked, known, heard>>
consumerVars == <<durable, inHand, handled, consumed>>
localVars    == <<subs, late>>
vars == <<clientVars, serverVars, publishVars, consumerVars, localVars>>

Registrations == {<<p, i>> : p \in Patterns, i \in 1..MaxHandlers}
Registered(r) == \E s \in ToSet(subs) : s.pattern = r[1] /\ r[2] <= s.handlers
At(i, h, n) == [entry |-> i, handler |-> h, size |-> n]
Nowhere == At(0, 0, 0)

Init ==
  /\ link = "none" /\ callbacks = <<>> /\ client = FALSE /\ connected = FALSE
  /\ closing = "open" /\ drops = 0
  /\ setup = "none" /\ streams = {} /\ wire = <<>> /\ stored = <<>>
  /\ reply = [e \in Events |-> "none"]
  /\ stage = [e \in Events |-> "idle"]
  /\ at = [e \in Events |-> Nowhere]
  /\ acked = {}
  /\ known = [e \in Events |-> {}]
  /\ heard = [e \in Events |-> <<>>]
  /\ durable = FALSE /\ inHand = {} /\ handled = {} /\ consumed = {}
  /\ subs = <<>> /\ late = {}

--------------------------------------------------------------------------------
(* The connection.                                                           *)

\* connect(): the connection is made, or the bus stays local-only.
Connect ==
  /\ setup = "none"
  /\ \/ /\ link' = "up" /\ client' = TRUE /\ connected' = TRUE
        /\ setup' = "streams"
     \/ setup' = "ready" /\ UNCHANGED <<link, client, connected>>
  /\ UNCHANGED <<callbacks, closing, drops, streams, wire, stored, reply,
                 publishVars, consumerVars, localVars>>

\* _ensure_streams: each stream is created or updated; one that cannot be is
\* logged and passed over.  No request is served before connect() returns.
EnsureStreams ==
  /\ setup = "streams"
  /\ \E made \in SUBSET Streams :
       /\ drops = 0 => made = Streams
       /\ streams' = streams \union made
  /\ setup' = "ready"
  /\ UNCHANGED <<clientVars, wire, stored, reply, publishVars, consumerVars, localVars>>

\* The connection is lost.  Messages on the wire may be lost or kept for later.
Drop ==
  /\ link = "up" /\ drops < MaxDrops
  /\ link' = "down" /\ drops' = drops + 1
  /\ callbacks' = Append(callbacks, "disconnected")
  /\ wire' \in {wire, <<>>}
  /\ UNCHANGED <<client, connected, closing, setup, streams, stored, reply,
                 publishVars, consumerVars, localVars>>

Reconnect ==
  /\ link = "down"
  /\ link' = "up"
  /\ callbacks' = Append(callbacks, "reconnected")
  /\ UNCHANGED <<client, connected, closing, drops, serverVars, publishVars,
                 consumerVars, localVars>>

\* Slip: a loss of the connection is only logged.
FlagAfter_LossLogged(cb) == IF cb = "disconnected" THEN connected ELSE cb = "reconnected"
\* _on_disconnected, _on_reconnected and _on_closed.
FlagAfter(cb) == cb = "reconnected"

RunCallback ==
  /\ callbacks # <<>>
  /\ connected' = FlagAfter(Head(callbacks))
  /\ callbacks' = Tail(callbacks)
  /\ UNCHANGED <<link, client, closing, drops, serverVars, publishVars,
                 consumerVars, localVars>>

\* close(): the subscriptions end, then the client drains.
CloseBegin ==
  /\ Closes /\ closing = "open" /\ setup = "ready"
  /\ durable' = FALSE
  /\ closing' = IF client THEN "draining" ELSE "closed"
  /\ UNCHANGED <<link, callbacks, client, connected, drops, serverVars,
                 publishVars, inHand, handled, consumed, localVars>>

\* drain() ends the connection; while the client is reconnecting it raises and
\* leaves the client as it is.  Either way the bus forgets the client.
CloseEnd ==
  /\ closing = "draining"
  /\ IF link = "up" THEN link' = "none" /\ callbacks' = Append(callbacks, "closed")
                    ELSE UNCHANGED <<link, callbacks>>
  /\ client' = FALSE /\ connected' = FALSE /\ closing' = "closed"
  /\ UNCHANGED <<drops, serverVars, publishVars, consumerVars, localVars>>

--------------------------------------------------------------------------------
(* Publishing.                                                               *)

\* Index of the first entry of the dict from i on that matches e; 0: none.
MatchFrom(e, i) == SelectInSubSeq(subs, i, Len(subs), LAMBDA s : e \in Hears[s.pattern])

\* The list of handlers is read as it is now.
MoreHandlers(p) == p.entry > 0 /\ p.handler < subs[p.entry].handlers

\* The loops of _dispatch_local go on from position p to the next handler, or
\* end; the iterator over the dict raises RuntimeError once its size changed.
GoOn(e, p) ==
  LET i == MatchFrom(e, p.entry + 1)
      To(s, q) == stage' = [stage EXCEPT ![e] = s] /\ at' = [at EXCEPT ![e] = q]
  IN CASE MoreHandlers(p)     -> To("dispatching", At(p.entry, p.handler + 1, p.size))
       [] ~MoreHandlers(p) /\ Len(subs) # p.size -> To("raised", Nowhere)
       [] ~MoreHandlers(p) /\ Len(subs) = p.size /\ i = 0 -> To("done", Nowhere)
       [] OTHER               -> To("dispatching", At(i, 1, p.size))

\* Always dispatch to local subscribers.
EnterDispatch(e) == GoOn(e, At(0, 0, Len(subs)))

\* publish(): to the server if there is one; a draining client refuses.
Publish(e) ==
  /\ setup = "ready" /\ stage[e] = "idle"
  /\ IF connected /\ client /\ closing = "open"
       THEN /\ wire' = Append(wire, e)
            /\ stage' = [stage EXCEPT ![e] = "sending"]
            /\ UNCHANGED at
       ELSE EnterDispatch(e) /\ UNCHANGED wire
  /\ known' = [known EXCEPT ![e] = {r \in Registrations : Registered(r) /\ e \in Hears[r[1]]}]
  /\ UNCHANGED <<setup, streams, stored, reply, acked, heard, clientVars,
                 consumerVars, localVars>>

\* Slip: the type of the event for its identity.
MsgId_Type(e) == Class[e]
\* _event_headers: the correlation identifier is the message identifier.
MsgId(e) == Correlation[e]

\* A message reaches the server: stored, dropped as a duplicate, or refused
\* because no stream takes its subject.
Arrive ==
  /\ link = "up" /\ wire # <<>>
  /\ LET e == Head(wire)
         answer == IF StreamsFor(e) \intersect streams = {} THEN "no_stream"
                   ELSE IF \E f \in ToSet(stored) : MsgId(f) = MsgId(e) /\ Class[f] = Class[e]
                     THEN "duplicate" ELSE "stored"
     IN /\ reply' = [reply EXCEPT ![e] = answer]
        /\ stored' = IF answer = "stored" THEN Append(stored, e) ELSE stored
  /\ wire' = Tail(wire)
  /\ UNCHANGED <<setup, streams, clientVars, publishVars, consumerVars, localVars>>

\* Slip: an event the server did not take is dropped altogether.
PublishReturns_GivesUp(e) ==
  /\ stage[e] = "sending"
  /\ \/ /\ reply[e] \in {"stored", "duplicate"} /\ acked' = acked \union {e}
        /\ EnterDispatch(e)
     \/ UNCHANGED <<acked, at>> /\ stage' = [stage EXCEPT ![e] = "done"]
  /\ UNCHANGED <<known, heard, clientVars, serverVars, consumerVars, localVars>>

\* Slip: publish() waits for the answer, however long it takes.
PublishReturns_NoTimeout(e) ==
  /\ stage[e] = "sending" /\ reply[e] # "none"
  /\ acked' = IF reply[e] = "no_stream" THEN acked ELSE acked \union {e}
  /\ EnterDispatch(e)
  /\ UNCHANGED <<known, heard, clientVars, serverVars, consumerVars, localVars>>

\* The client's publish returns with the acknowledgement, or raises: for want
\* of a stream, of a connection, or of an answer in time.  It is all the same.
PublishReturns(e) ==
  /\ stage[e] = "sending"
  /\ acked' \in IF reply[e] \in {"stored", "duplicate"} THEN {acked, acked \union {e}}
                                                        ELSE {acked}
  /\ EnterDispatch(e)
  /\ UNCHANGED <<known, heard, clientVars, serverVars, consumerVars, localVars>>

\* Slip: without the try block, the exception of a handler ends publish().
HandlerEnds_Uncaught(e) ==
  /\ stage[e] = "dispatching"
  /\ heard' = [heard EXCEPT ![e] = Append(@, <<subs[at[e].entry].pattern, at[e].handler>>)]
  /\ \/ GoOn(e, at[e])
     \/ stage' = [stage EXCEPT ![e] = "raised"] /\ UNCHANGED at
  /\ UNCHANGED <<acked, known, clientVars, serverVars, consumerVars, localVars>>

\* A local handler returns or raises; an exception is logged.
HandlerEnds(e) ==
  /\ stage[e] = "dispatching"
  /\ heard' = [heard EXCEPT ![e] = Append(@, <<subs[at[e].entry].pattern, at[e].handler>>)]
  /\ GoOn(e, at[e])
  /\ UNCHANGED <<acked, known, clientVars, serverVars, consumerVars, localVars>>

\* subscribe(): setdefault(pattern, []).append(handler).  A pattern that is new
\* changes the size of the dict, also while it is iterated.
Subscribe(p) ==
  LET i == SelectInSeq(subs, LAMBDA s : s.pattern = p) IN
  /\ IF i > 0 THEN /\ subs[i].handlers < MaxHandlers
                   /\ subs' = [subs EXCEPT ![i].handlers = @ + 1]
                   /\ UNCHANGED late
              ELSE /\ subs' = Append(subs, [pattern |-> p, handlers |-> 1])
                   /\ late' = late \union {e \in Events : stage[e] = "dispatching"}
  /\ UNCHANGED <<clientVars, serverVars, publishVars, consumerVars>>

--------------------------------------------------------------------------------
(* The durable consumer: subscribe_jetstream and its _msg_handler.           *)

SubscribeJetstream ==
  /\ connected /\ client /\ closing = "open" /\ setup = "ready"
  /\ link = "up" /\ "DATA" \in streams /\ ~durable
  /\ durable' = TRUE
  /\ UNCHANGED <<clientVars, serverVars, publishVars, inHand, handled, consumed, localVars>>

\* The client runs the callback of a subscription for one message at a time.
Deliver ==
  /\ durable /\ link = "up" /\ inHand = {}
  /\ \E e \in ToSet(stored) \ consumed :
       Consumable(e) /\ inHand' = {[event |-> e, at |-> "handler"]}
  /\ UNCHANGED <<clientVars, serverVars, publishVars, durable, handled, consumed, localVars>>

\* The handler returns, then the acknowledgement is sent; it may be lost.
HandlerReturns(m) ==
  IF m.at = "handler" THEN handled' = handled \union {m.event} /\ consumed' = consumed
  ELSE handled' = handled /\ consumed' \in
         IF link = "up" THEN {consumed \union {m.event}} ELSE {consumed, consumed \union {m.event}}

Handle ==
  \E m \in inHand :
    /\ HandlerReturns(m)
    /\ inHand' = IF m.at = "handler" THEN {[m EXCEPT !.at = "ack"]} ELSE {}
    /\ UNCHANGED <<clientVars, serverVars, publishVars, durable, localVars>>

\* Slip: a finally clause acknowledges what the handler could not handle.
HandlerRaises_Acked ==
  /\ \E m \in inHand : m.at = "handler" /\ consumed' = consumed \union {m.event}
  /\ inHand' = {}
  /\ UNCHANGED <<clientVars, serverVars, publishVars, durable, handled, localVars>>

\* An exception leads to a NAK, and the message comes again.
HandlerRaises ==
  /\ \E m \in inHand : m.at = "handler"
  /\ inHand' = {}
  /\ UNCHANGED <<clientVars, serverVars, publishVars, durable, handled, consumed, localVars>>

PublishStep(e) == PublishReturns(e) \/ HandlerEnds(e)

Next ==
  \/ Connect \/ EnsureStreams \/ Drop \/ Reconnect \/ RunCallback \/ CloseBegin \/ CloseEnd
  \/ \E e \in Events : Publish(e) \/ PublishStep(e)
  \/ Arrive
  \/ \E p \in Patterns : Subscribe(p)
  \/ SubscribeJetstream \/ Deliver \/ Handle \/ HandlerRaises

Spec == Init /\ [][Next]_vars

\* The event loop resumes what can go on, a publish times out, the client
\* reconnects, the server delivers; a handler that keeps being called succeeds.
FairSpec ==
  /\ Spec
  /\ WF_vars(Reconnect) /\ WF_vars(RunCallback) /\ WF_vars(Arrive)
  /\ \A e \in Events : WF_vars(PublishStep(e))
  /\ WF_vars(Deliver) /\ SF_vars(Handle)

--------------------------------------------------------------------------------
(* Properties.                                                               *)

\* Every variable has its type; positions point at registered handlers.
TypeOK ==
  /\ link \in {"none", "up", "down"}
  /\ callbacks \in Seq({"disconnected", "reconnected", "closed"})
  /\ {client, connected, durable} \subseteq BOOLEAN
  /\ setup \in {"none", "streams", "ready"}
  /\ streams \subseteq Streams
  /\ closing \in {"open", "draining", "closed"}
  /\ stage \in [Events -> {"idle", "sending", "dispatching", "done", "raised"}]
  /\ \A e \in Events : stage[e] = "dispatching" =>
       at[e].entry \in DOMAIN subs /\ at[e].handler \in 1..subs[at[e].entry].handlers
  /\ wire \in Seq(Events) /\ stored \in Seq(Events)
  /\ reply \in [Events -> {"none", "stored", "duplicate", "no_stream"}]
  /\ acked \subseteq Events
  /\ subs \in Seq([pattern : Patterns, handlers : 1..MaxHandlers])
  /\ late \subseteq Events
  /\ known \in [Events -> SUBSET Registrations]
  /\ heard \in [Events -> Seq(Registrations)]
  /\ inHand \subseteq [event : Events, at : {"handler", "ack"}]
  /\ handled \subseteq Events /\ consumed \subseteq Events
  /\ drops \in 0..MaxDrops

\* The local subscribers there are when publish() is called hear the event, once
\* each, whatever the state of the connection and whatever the other handlers do.
HeardByAll ==
  \A e \in Events :
    /\ IsInjective(heard[e])
    /\ stage[e] = "done" => known[e] \subseteq ToSet(heard[e])

\* The dispatch to local subscribers, and the positions it stands at.
LocalDelivery == TypeOK /\ HeardByAll

\* What reaches the caller of publish() is one thing alone: a pattern that is
\* subscribed to for the first time while a handler of the event runs, and then
\* it always does.  No failure of the server, the connection or a handler does.
RaisesForNewPatterns ==
  \A e \in Events : /\ stage[e] = "raised" => e \in late
                    /\ stage[e] = "done" => e \notin late

\* An event whose publisher was told that the server has it is in a stream.
AckedIsStored == acked \subseteq ToSet(stored)

\* Until the bus is closed, and once the callbacks have run, is_connected says
\* whether there is a connection.
ConnectedIsTrue ==
  callbacks = <<>> /\ closing # "closed" => (connected <=> client /\ link = "up")

\* A message is acknowledged only when its handler has returned.
HandledBeforeAck == consumed \subseteq handled

\* No acknowledgement lies: neither the server's to the publisher, nor the
\* consumer's to the server.
AcksTruthful == AckedIsStored /\ HandledBeforeAck

\* publish() ends, with or without a server.
PublishEnds ==
  \A e \in Events : stage[e] \in {"sending", "dispatching"} ~> stage[e] \in {"done", "raised"}

\* A stored message reaches the durable handler, while the subscription lasts.
EventuallyHandled ==
  \A e \in Events :
    durable /\ Consumable(e) /\ e \in ToSet(stored) ~> e \in handled \/ ~durable
================================================================================
