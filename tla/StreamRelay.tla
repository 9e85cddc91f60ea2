---------------------------- MODULE StreamRelay ----------------------------
(***************************************************************************)
(* From the stream registry to a browser: the SSE handler of               *)
(* apps/api/src/modules/chat/chat.controller.ts, the HTTP response it      *)
(* writes, and the EventSource of apps/web/src/lib/sse-client.ts at the    *)
(* other end.  Every inference has at most one EventSource (a page opens   *)
(* one per message it sends), which has one connection at a time.          *)
(*                                                                         *)
(* The handler looks the entry up first and subscribes to it when the      *)
(* framework subscribes to the Observable; the registry may publish, end   *)
(* and delete in between.  It holds the entry by reference, so it still    *)
(* sees an entry that the grace timer has deleted from the map.            *)
(***************************************************************************)
EXTENDS StreamSource

CONSTANTS
  MaxDrops,     \* bound: connections that break
  MaxCrashes    \* bound: crashes of the API process

ASSUME RelayAssumption == MaxDrops \in Nat /\ MaxCrashes \in Nat

VARIABLES
  source,     \* the EventSource: none, open (connecting or connected), closed
  handler,    \* the server's side of its current connection
  kept,       \* entries referenced by a handler after their deletion
  wire,       \* events written to the response and not dispatched yet
  received,   \* events dispatched over the current connection
  drops, crashes

connection == <<source, handler, kept, wire, received>>
relayVars == <<streams, connection, drops, crashes>>

HandlerState == {"none", "resolved", "live", "finished", "refused", "broken"}

RelayTypeOK ==
  /\ streams \in [Inference -> StreamEntry(StreamEvent)]
  /\ source \in [Inference -> {"none", "open", "closed"}]
  /\ handler \in [Inference -> HandlerState]
  /\ kept \in [Inference -> StreamEntry(StreamEvent)]
  /\ wire \in [Inference -> Seq(StreamEvent)]
  /\ received \in [Inference -> Seq(StreamEvent)]
  /\ drops \in 0..MaxDrops
  /\ crashes \in 0..MaxCrashes

RelayInit ==
  /\ SourceInit
  /\ source = [i \in Inference |-> "none"]
  /\ handler = [i \in Inference |-> "none"]
  /\ kept = [i \in Inference |-> NoEntry]
  /\ wire = [i \in Inference |-> <<>>]
  /\ received = [i \in Inference |-> <<>>]
  /\ drops = 0 /\ crashes = 0
-----------------------------------------------------------------------------
\* The registry's side.  A live handler listens to 'event' and 'end'.

Emit(i, events) ==
  wire' = IF handler[i] = "live" THEN [wire EXCEPT ![i] = @ \o events] ELSE wire

RelayOpen(i) == OpenStream(i) /\ UNCHANGED <<connection, drops, crashes>>

RelayToken(i) ==
  /\ PublishToken(i) /\ Emit(i, <<"token">>)
  /\ UNCHANGED <<source, handler, kept, received, drops, crashes>>

RelayClosing(i, e) ==
  /\ PublishClosing(i, e) /\ Emit(i, <<e>>)
  /\ UNCHANGED <<source, handler, kept, received, drops, crashes>>

RelayEnd(i) ==
  /\ EndStream(i) /\ Emit(i, LastWords(i))
  /\ handler' = IF handler[i] = "live" THEN [handler EXCEPT ![i] = "finished"]
                                       ELSE handler
  /\ UNCHANGED <<source, kept, received, drops, crashes>>

\* The map's key goes; a handler between look-up and subscription keeps the entry.
RelayExpire(i) ==
  /\ ExpireStream(i)
  /\ kept' = IF handler[i] = "resolved" THEN [kept EXCEPT ![i] = streams[i]] ELSE kept
  /\ UNCHANGED <<source, handler, wire, received, drops, crashes>>
-----------------------------------------------------------------------------
\* The handler's side.

Lookup(i) ==
  /\ source[i] = "open"
  /\ handler[i] = "none"
  /\ handler' = [handler EXCEPT ![i] =
                   IF streams[i].state = "absent" THEN "refused" ELSE "resolved"]
  /\ UNCHANGED <<streams, source, kept, wire, received, drops, crashes>>

Referenced(i) == IF streams[i].state = "absent" THEN kept[i] ELSE streams[i]

\* Seeded fault: the handler only forwards what is published from now on.
SubscribeWithoutReplay(i) ==
  /\ handler[i] = "resolved"
  /\ handler' = [handler EXCEPT ![i] =
                   IF Referenced(i).state = "ended" THEN "finished" ELSE "live"]
  /\ kept' = [kept EXCEPT ![i] = NoEntry]
  /\ UNCHANGED <<streams, source, wire, received, drops, crashes>>

\* The subscription replays the buffer and, unless the entry has ended, listens;
\* both happen in one synchronous callback.
Subscribe(i) ==
  /\ handler[i] = "resolved"
  /\ wire' = [wire EXCEPT ![i] = Referenced(i).buffer]
  /\ handler' = [handler EXCEPT ![i] =
                   IF Referenced(i).state = "ended" THEN "finished" ELSE "live"]
  /\ kept' = [kept EXCEPT ![i] = NoEntry]
  /\ UNCHANGED <<streams, source, received, drops, crashes>>
-----------------------------------------------------------------------------
\* The browser's side.

\* The connection and what it still carries are gone.
Reset(i, h) ==
  /\ handler' = [handler EXCEPT ![i] = h]
  /\ kept' = [kept EXCEPT ![i] = NoEntry]
  /\ wire' = [wire EXCEPT ![i] = <<>>]
  /\ received' = [received EXCEPT ![i] = <<>>]

OpenSource(i) ==
  /\ source[i] = "none"
  /\ source' = [source EXCEPT ![i] = "open"]
  /\ UNCHANGED <<streams, handler, kept, wire, received, drops, crashes>>

\* es.close(): nothing of this connection is dispatched any more; the server
\* removes the handler's listeners.
CloseSource(i) ==
  /\ source[i] = "open"
  /\ source' = [source EXCEPT ![i] = "closed"]
  /\ Reset(i, "none")
  /\ UNCHANGED <<streams, drops, crashes>>

DispatchEvent(i) ==
  /\ source[i] = "open"
  /\ wire[i] # <<>>
  /\ wire' = [wire EXCEPT ![i] = Tail(@)]
  /\ received' = [received EXCEPT ![i] = Append(@, Head(wire[i]))]
  /\ UNCHANGED <<streams, source, handler, kept, drops, crashes>>

\* The callback of a dispatched event closes an EventSource, this one or another.
DispatchAndClose(i, j) ==
  /\ source[i] = "open" /\ source[j] = "open"
  /\ wire[i] # <<>>
  /\ source' = [source EXCEPT ![j] = "closed"]
  /\ handler' = [handler EXCEPT ![j] = "none"]
  /\ kept' = [kept EXCEPT ![j] = NoEntry]
  /\ wire' = [wire EXCEPT ![i] = Tail(@), ![j] = <<>>]
  /\ received' = [received EXCEPT ![i] = Append(@, Head(wire[i])), ![j] = <<>>]
  /\ UNCHANGED <<streams, drops, crashes>>

\* The page is left: the browser closes all its connections.
CloseAllSources ==
  /\ source' = [i \in Inference |-> IF source[i] = "open" THEN "closed" ELSE source[i]]
  /\ handler' = [i \in Inference |-> "none"]
  /\ kept' = [i \in Inference |-> NoEntry]
  /\ wire' = [i \in Inference |-> <<>>]
  /\ received' = [i \in Inference |-> <<>>]
  /\ UNCHANGED <<streams, drops, crashes>>

\* onerror: a refusal (404) closes the EventSource for good; after a break or
\* the end of the response it connects again.
DispatchError(i) ==
  /\ source[i] = "open"
  /\ \/ handler[i] \in {"refused", "broken"}
     \/ handler[i] = "finished" /\ wire[i] = <<>>
  /\ source' = [source EXCEPT ![i] = IF handler[i] = "refused" THEN "closed" ELSE "open"]
  /\ Reset(i, "none")
  /\ UNCHANGED <<streams, drops, crashes>>

BreakConnection(i) ==
  /\ drops < MaxDrops
  /\ source[i] = "open"
  /\ handler[i] \in {"none", "resolved", "live", "finished"}
  /\ Reset(i, "broken")
  /\ drops' = drops + 1
  /\ UNCHANGED <<streams, source, crashes>>

\* The API process dies and is restarted: the registry and all responses go.
CrashApi ==
  /\ crashes < MaxCrashes
  /\ crashes' = crashes + 1
  /\ LoseStreams
  /\ handler' = [i \in Inference |->
                   IF handler[i] \in {"none", "refused"} THEN handler[i] ELSE "broken"]
  /\ kept' = [i \in Inference |-> NoEntry]
  /\ wire' = [i \in Inference |-> <<>>]
  /\ received' = [i \in Inference |-> <<>>]
  /\ UNCHANGED <<source, drops>>
-----------------------------------------------------------------------------
RelayStep(i) ==
  \/ RelayOpen(i) \/ RelayToken(i) \/ RelayEnd(i) \/ RelayExpire(i)
  \/ \E e \in ClosingType : RelayClosing(i, e)
  \/ Lookup(i) \/ Subscribe(i)
  \/ OpenSource(i) \/ CloseSource(i)
  \/ DispatchEvent(i) \/ DispatchError(i) \/ BreakConnection(i)
  \/ \E j \in Inference : DispatchAndClose(i, j)

RelayNext == (\E i \in Inference : RelayStep(i)) \/ CloseAllSources \/ CrashApi

RelaySpec == RelayInit /\ [][RelayNext]_relayVars
-----------------------------------------------------------------------------
\* What is delivered.

OnTheWay(i) == received[i] \o wire[i]

\* A connection carries the whole stream from its first event on, in order and
\* without a gap or a repetition, wherever publishing, end() and the grace timer
\* fell between the handler's look-up and its subscription.
NothingMissed ==
  \A i \in Inference :
    handler[i] \in {"live", "finished"} /\ streams[i].state # "absent" =>
      OnTheWay(i) = streams[i].buffer

\* A handler that listens does so to a stream that is still open, and a response
\* ends only after a closing event: no subscriber waits for an 'end' that has
\* already been emitted, and none is cut off without a verdict.
NobodyHangs ==
  \A i \in Inference :
    /\ handler[i] = "live" => streams[i].state = "open"
    /\ handler[i] = "finished" => Closed(OnTheWay(i))
=============================================================================
