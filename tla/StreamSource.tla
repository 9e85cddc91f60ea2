---------------------------- MODULE StreamSource ----------------------------
(***************************************************************************)
(* What the subscribers of an inference's event stream can count on: the   *)
(* entries of StreamRegistry as the background run of ChatService drives   *)
(* them.  A stream opens with message_start, carries tokens and then one   *)
(* closing event, ends, and is deleted by the grace timer; a crash of the  *)
(* process loses all of them.  ChatInference is shown to implement this    *)
(* (ImplementsSource), and StreamRelay builds on it.  Events are their     *)
(* types; the position of a token in the buffer identifies it.             *)
(***************************************************************************)
EXTENDS Naturals, StreamRegistry

CONSTANTS
  Inference,
  MaxTokens     \* bound: token events of one stream

ASSUME TokenAssumption == MaxTokens \in Nat

VARIABLE streams   \* the map of the StreamRegistry

ClosingType == {"message_complete", "error", "cancelled"}
StreamEvent == {"message_start", "token"} \cup ClosingType

Closed(b) == b # <<>> /\ b[Len(b)] \in ClosingType

SourceInit == streams = [i \in Inference |-> NoEntry]

\* The run's prefix: open() and the first event, before any await.
OpenStream(i) ==
  /\ streams[i].state = "absent"
  /\ streams' = [streams EXCEPT ![i] = Published(Opened, "message_start")]

PublishToken(i) ==
  /\ streams[i].state = "open"
  /\ ~Closed(streams[i].buffer)
  /\ Len(streams[i].buffer) <= MaxTokens
  /\ streams' = [streams EXCEPT ![i] = Published(@, "token")]

PublishClosing(i, e) ==
  /\ streams[i].state = "open"
  /\ ~Closed(streams[i].buffer)
  /\ streams' = [streams EXCEPT ![i] = Published(@, e)]

\* What the finally block ends the stream with.
LastWords(i) == IF Closed(streams[i].buffer) THEN <<>> ELSE <<"error">>

\* The finally block: an error event when no closing event went out, then end().
EndStream(i) ==
  /\ streams[i].state = "open"
  /\ streams' = [streams EXCEPT
                   ![i] = [state |-> "ended", buffer |-> @.buffer \o LastWords(i)]]

ExpireStream(i) ==
  /\ streams[i].state = "ended"
  /\ streams' = [streams EXCEPT ![i] = NoEntry]

LoseStreams == streams' = [i \in Inference |-> NoEntry]

SourceStep(i) ==
  \/ OpenStream(i) \/ PublishToken(i) \/ EndStream(i) \/ ExpireStream(i)
  \/ \E e \in ClosingType : PublishClosing(i, e)

SourceNext == (\E i \in Inference : SourceStep(i)) \/ LoseStreams

SourceSpec == SourceInit /\ [][SourceNext]_streams
=============================================================================
