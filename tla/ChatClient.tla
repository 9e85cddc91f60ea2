----------------------------- MODULE ChatClient -----------------------------
(***************************************************************************)
(* The chat page of the web client over StreamRelay: the hook              *)
(* use-streaming-chat.ts with its one EventSource reference, the list of   *)
(* messages of chat-view.tsx, and the requests of api-client.ts.  A        *)
(* message the user sends, its assistant placeholder, the inference the    *)
(* API creates for it and the EventSource that follows it share one name.  *)
(*                                                                         *)
(* A state update takes effect when it is made; the render it causes, and  *)
(* the effect that copies the hook's state into the messages, is a later   *)
(* step (Commit).  The user acts on what is on the screen, so only when no *)
(* render is due.  Requests and events settle in any order.                *)
(***************************************************************************)
EXTENDS StreamRelay, FiniteSets

CONSTANTS
  NoInference,    \* null in streamingIdRef and sseRef
  Patient,        \* the user sends nothing while the POST of a message is pending
  MaxTroubles     \* bound: breaks, crashes, lost requests and reloads together

\* Messages are numbered in the order they are sent.
ASSUME ClientAssumption ==
  /\ Inference \subseteq Nat /\ NoInference \notin Inference
  /\ Patient \in BOOLEAN /\ MaxTroubles \in Nat

VARIABLES
  post,         \* the request that sends a message
  cancel,       \* the request that cancels its inference
  row,          \* the stored assistant message
  view,         \* the message as the page shows it
  streamingId,  \* streamingIdRef of the page
  sseRef,       \* sseRef of the hook
  state,        \* the hook's state
  dirty,        \* a render is due
  mounted,      \* the page is there
  failures      \* lost requests and reloads so far

page == <<view, streamingId, state, dirty, mounted>>
requests == <<post, cancel>>
clientVars == <<relayVars, requests, row, page, sseRef, failures>>

Text(i, n) == [k \in 1..n |-> <<i, k>>]

Idle == [status |-> "idle", text |-> <<>>, inference |-> NoInference]
Failure == [Idle EXCEPT !.status = "error"]
Streaming(i) == [status |-> "streaming", text |-> <<>>, inference |-> i]

NoMessage == [status |-> "none", content |-> <<>>]
Placeholder == [status |-> "streaming", content |-> <<>>]

\* What the page is rendered with, and what a reload finds.
StoredMessage(i) == [status |-> row[i].status, content |-> Text(i, row[i].content)]

\* The final status of a message, by the closing event that reports it.
StatusOf(e) ==
  CASE e = "message_complete" -> "completed"
    [] e = "cancelled" -> "cancelled"
    [] OTHER -> "failed"

ClientInit ==
  /\ RelayInit
  /\ post = [i \in Inference |-> "none"]
  /\ cancel = [i \in Inference |-> "none"]
  /\ row = [i \in Inference |-> [status |-> "none", content |-> 0]]
  /\ view = [i \in Inference |-> NoMessage]
  /\ streamingId = NoInference
  /\ sseRef = NoInference
  /\ state = Idle
  /\ dirty = FALSE
  /\ mounted = TRUE
  /\ failures = 0

PostPending == \E i \in Inference : post[i] \in {"sent", "accepted"}

\* setState: ignored by React once the page is unmounted.
SetState(s) == IF mounted THEN state' = s /\ dirty' = TRUE
                          ELSE UNCHANGED <<state, dirty>>

\* sseRef.current?.close(); sseRef.current = null
CloseRef ==
  /\ sseRef' = NoInference
  /\ IF sseRef # NoInference /\ source[sseRef] = "open"
     THEN CloseSource(sseRef) ELSE UNCHANGED relayVars
-----------------------------------------------------------------------------
\* The API, as ChatInference describes it: it stores the placeholder when it
\* accepts a message and the final row before it publishes the closing event.

Accept(i) ==
  /\ post[i] = "sent"
  /\ RelayOpen(i)
  /\ post' = [post EXCEPT ![i] = "accepted"]
  /\ row' = [row EXCEPT ![i].status = "streaming"]
  /\ UNCHANGED <<cancel, page, sseRef, failures>>

Close(i, e) ==
  /\ RelayClosing(i, e)
  /\ e = "cancelled" => cancel[i] # "none"
  /\ row' = [row EXCEPT ![i] = [status |-> StatusOf(e),
                                content |-> Len(streams[i].buffer) - 1]]
  /\ UNCHANGED <<requests, page, sseRef, failures>>

Unseen == UNCHANGED <<requests, row, page, sseRef, failures>>

Produce(i) == (RelayToken(i) \/ RelayEnd(i)) /\ Unseen
Serve(i) == (Lookup(i) \/ Subscribe(i)) /\ Unseen
Expire(i) == RelayExpire(i) /\ Unseen
Trouble == drops + crashes + failures < MaxTroubles
\* request() throws: no response, not a 2xx, or a body the schema refuses.
RequestThrows == Trouble /\ failures' = failures + 1
Break(i) == Trouble /\ BreakConnection(i) /\ Unseen
CrashServer ==
  Trouble /\ CrashApi /\ Unseen
-----------------------------------------------------------------------------
\* The user.

UserActs == mounted /\ ~dirty

\* isStreaming.
IsStreaming == state.status = "streaming"

\* The composer and the suggestions are disabled while the hook is streaming,
\* not while a POST is pending.
MayCompose == ~IsStreaming

\* In their place there is a button to cancel.
CancelOffered == IsStreaming

\* The error banner with its button.
ErrorShown == state.status = "error"

\* The POST of a message, the composer being emptied.
SendPost(i) == post' = [post EXCEPT ![i] = "sent"]

SendCancel(i) ==
  /\ cancel[i] = "none"
  /\ cancel' = [cancel EXCEPT ![i] = "sent"]

NextMessage(i) ==
  /\ post[i] = "none"
  /\ \A j \in Inference : j < i => post[j] # "none"
  /\ Patient => ~PostPending

\* Seeded fault: send() leaves the previous EventSource open.
SubmitKeepingSource(i) ==
  /\ UserActs /\ MayCompose
  /\ NextMessage(i)
  /\ view' = [view EXCEPT ![i] = Placeholder]
  /\ streamingId' = i
  /\ SendPost(i)
  /\ UNCHANGED <<relayVars, cancel, row, sseRef, state, dirty, mounted, failures>>

\* handleSubmit and send() up to the POST.
Submit(i) ==
  /\ UserActs /\ MayCompose
  /\ NextMessage(i)
  /\ view' = [view EXCEPT ![i] = Placeholder]
  /\ streamingId' = i
  /\ CloseRef
  /\ SendPost(i)
  /\ UNCHANGED <<cancel, row, state, dirty, mounted, failures>>

ClickCancel ==
  /\ UserActs /\ CancelOffered
  /\ SendCancel(state.inference)
  /\ UNCHANGED <<relayVars, post, row, page, sseRef, failures>>

\* The button of the error banner: reset().
Dismiss ==
  /\ UserActs /\ ErrorShown
  /\ CloseRef
  /\ state' = Idle /\ dirty' = TRUE
  /\ UNCHANGED <<requests, row, view, streamingId, mounted, failures>>

\* Navigation to another route: the hook's clean-up; a pending send() goes on.
Unmount ==
  /\ mounted
  /\ mounted' = FALSE
  /\ CloseRef
  /\ view' = [i \in Inference |-> NoMessage]
  /\ streamingId' = NoInference
  /\ state' = Idle /\ dirty' = FALSE
  /\ UNCHANGED <<requests, row, failures>>

\* A reload: all is gone but the rows, which the server component renders.
Refresh ==
  /\ mounted
  /\ Trouble
  /\ failures' = failures + 1
  /\ CloseAllSources
  /\ post' = [i \in Inference |-> IF post[i] = "none" THEN "none" ELSE "gone"]
  /\ cancel' = [i \in Inference |-> IF cancel[i] = "sent" THEN "settled" ELSE cancel[i]]
  /\ view' = [i \in Inference |-> StoredMessage(i)]
  /\ streamingId' = NoInference
  /\ sseRef' = NoInference
  /\ state' = Idle /\ dirty' = FALSE
  /\ UNCHANGED <<row, mounted>>
-----------------------------------------------------------------------------
\* Continuations of send() and cancel().

PostAnswered(i) ==
  /\ post[i] = "accepted"
  /\ post' = [post EXCEPT ![i] = "answered"]
  /\ SetState(Streaming(i))
  /\ OpenSource(i)
  /\ sseRef' = i
  /\ UNCHANGED <<cancel, row, view, streamingId, mounted, failures>>

\* Seeded fault: send() swallows the error.
PostFailsSilently(i) ==
  /\ post[i] \in {"sent", "accepted"}
  /\ RequestThrows
  /\ post' = [post EXCEPT ![i] = "failed"]
  /\ UNCHANGED <<relayVars, cancel, row, page, sseRef>>

\* The request or its answer is lost, or the API refuses.
PostFails(i) ==
  /\ post[i] \in {"sent", "accepted"}
  /\ RequestThrows
  /\ post' = [post EXCEPT ![i] = "failed"]
  /\ SetState(Failure)
  /\ UNCHANGED <<relayVars, cancel, row, view, streamingId, sseRef, mounted>>

\* A failed cancel reports its error whatever the hook has turned to since.
CancelSettles(i) ==
  /\ cancel[i] = "sent"
  /\ cancel' = [cancel EXCEPT ![i] = "settled"]
  /\ \/ UNCHANGED <<state, dirty, failures>>
     \/ RequestThrows /\ SetState(Failure)
  /\ UNCHANGED <<relayVars, post, row, view, streamingId, sseRef, mounted>>
-----------------------------------------------------------------------------
\* Callbacks of the EventSource.  They do not ask which inference the hook's
\* state is about.

Listening == mounted /\ IsStreaming

ReceiveToken(i) ==
  /\ DispatchEvent(i)
  /\ Head(wire[i]) = "token"
  /\ IF Listening
     THEN SetState([state EXCEPT !.text = Append(@, <<i, Len(received[i])>>)])
     ELSE UNCHANGED <<state, dirty>>
  /\ UNCHANGED <<requests, row, view, streamingId, sseRef, mounted, failures>>

\* message_start, and closing events the hook does not wait for.
ReceiveIgnored(i) ==
  /\ DispatchEvent(i)
  /\ Head(wire[i]) # "token"
  /\ Listening => Head(wire[i]) = "message_start"
  /\ Unseen

ReceiveClosing(i) ==
  /\ Listening
  /\ IF sseRef # NoInference /\ source[sseRef] = "open"
     THEN DispatchAndClose(i, sseRef) ELSE DispatchEvent(i)
  /\ Head(wire[i]) \in ClosingType
  /\ sseRef' = NoInference
  /\ SetState(IF Head(wire[i]) = "error" THEN Failure
              ELSE [state EXCEPT !.status = StatusOf(Head(wire[i]))])
  /\ UNCHANGED <<requests, row, view, streamingId, mounted, failures>>

\* Seeded fault: the hook waits for the EventSource to reconnect.
SourceErrorIgnored(i) == DispatchError(i) /\ Unseen

\* onerror: the EventSource is neither closed nor forgotten.
SourceError(i) ==
  /\ DispatchError(i)
  /\ IF mounted /\ state.status \in {"streaming", "idle"}
     THEN SetState(Failure) ELSE UNCHANGED <<state, dirty>>
  /\ UNCHANGED <<requests, row, view, streamingId, sseRef, mounted, failures>>
-----------------------------------------------------------------------------
\* What the bubble of a message says: a cursor or dots while it is streaming.
BubbleStreams(i) == view[i].status = "streaming"

\* The render and the effect that depends on the hook's state.

ShowText ==
  /\ streamingId # NoInference
  /\ IsStreaming
  /\ view' = [view EXCEPT ![streamingId].content = state.text]
  /\ UNCHANGED <<relayVars, sseRef, state, streamingId>>

ShowError ==
  /\ streamingId # NoInference
  /\ state.status = "error"
  /\ view' = [view EXCEPT ![streamingId].status = "failed"]
  /\ streamingId' = NoInference
  /\ UNCHANGED <<relayVars, sseRef, state>>

\* Seeded fault: the settled message stays the streaming one.
ShowVerdictKeeping ==
  /\ streamingId # NoInference
  /\ state.status \in {"completed", "cancelled"}
  /\ view' = [view EXCEPT ![streamingId] = [status |-> state.status,
                                            content |-> state.text]]
  /\ CloseRef
  /\ state' = Idle
  /\ UNCHANGED streamingId

\* reset() causes one more render, which finds streamingId null.
ShowVerdict ==
  /\ streamingId # NoInference
  /\ state.status \in {"completed", "cancelled"}
  /\ view' = [view EXCEPT ![streamingId] = [status |-> state.status,
                                            content |-> state.text]]
  /\ streamingId' = NoInference
  /\ CloseRef
  /\ state' = Idle

ShowNothing ==
  /\ streamingId = NoInference \/ state.status = "idle"
  /\ UNCHANGED <<relayVars, sseRef, state, view, streamingId>>

Commit ==
  /\ mounted /\ dirty
  /\ dirty' = FALSE
  /\ ShowText \/ ShowError \/ ShowVerdict \/ ShowNothing
  /\ UNCHANGED <<requests, row, mounted, failures>>
-----------------------------------------------------------------------------
Closes(i) == \E e \in ClosingType : Close(i, e)
Settles(i) == Accept(i) \/ PostAnswered(i) \/ PostFails(i)
Receives(i) == ReceiveToken(i) \/ ReceiveIgnored(i) \/ ReceiveClosing(i) \/ SourceError(i)

ClientNext ==
  \/ \E i \in Inference :
       \/ Submit(i) \/ Settles(i) \/ CancelSettles(i)
       \/ Produce(i) \/ Closes(i) \/ Serve(i) \/ Expire(i) \/ Break(i)
       \/ Receives(i)
  \/ ClickCancel \/ Dismiss \/ Unmount \/ Refresh \/ Commit \/ CrashServer

ClientSpec == ClientInit /\ [][ClientNext]_clientVars

\* Requests settle, a run ends its stream (EveryRunEnds of ChatInference), the
\* framework serves a connection, the browser dispatches what has arrived and
\* connects again, React renders, and the grace timer fires.  The user owes
\* nothing, and nothing has to break.
FairClientSpec ==
  /\ ClientSpec
  /\ \A i \in Inference :
       /\ WF_clientVars(Settles(i)) /\ WF_clientVars(CancelSettles(i))
       /\ WF_clientVars(Produce(i) \/ Closes(i)) /\ WF_clientVars(Serve(i))
       /\ WF_clientVars(Expire(i)) /\ WF_clientVars(Receives(i))
  /\ WF_clientVars(Commit)
=============================================================================
