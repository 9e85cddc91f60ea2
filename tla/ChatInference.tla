---------------------------- MODULE ChatInference ----------------------------
(***************************************************************************)
(* One chat turn of the API from POST to the end of its event stream:      *)
(* ChatService (apps/api/src/modules/chat/chat.service.ts) together with   *)
(* the two in-memory registries it shares with the HTTP handlers and the   *)
(* rows it writes through InferenceLoggerService.                          *)
(*                                                                         *)
(* A background run is a JavaScript async function: what happens between   *)
(* two awaits is one atomic step, and run[i].pc names the await the run is *)
(* suspended at.  Runs, cancel calls, the grace timer and a crash of the   *)
(* process interleave at those points.  Each awaited database call may     *)
(* succeed, fail, or be applied and still be reported as failed.           *)
(***************************************************************************)
EXTENDS Naturals, CancellationRegistry, StreamRegistry

CONSTANTS
  Provider,     \* the provider names a request may carry
  NoProvider,   \* an absent fallbackProvider
  CancelCall,   \* the calls of the cancel endpoint
  NoInference,  \* the target of a cancel call not made yet
  MaxTokens,    \* bound: token chunks of one inference
  MaxFaults,    \* bound: failing database calls of one inference
  MaxCrashes    \* bound: crashes of the API process

ASSUME SentinelAssumption ==
  NoProvider \notin Provider /\ NoInference \notin Inference
ASSUME BoundAssumption ==
  MaxTokens \in Nat /\ MaxFaults \in Nat /\ MaxCrashes \in Nat

VARIABLES
  request,        \* inference_requests: status and provider columns
  message,        \* the assistant row of messages: status and content length
  logged,         \* the event types handed to ingestion
  body,           \* the validated request body: provider and fallbackProvider
  run,            \* the background run's locals and the await it is at
  cancellations,  \* the CancellationRegistry
  streams,        \* the StreamRegistry
  call,           \* the cancel calls
  faults,         \* failed database calls so far, per inference
  crashes         \* crashes so far

database == <<request, message, logged>>
registries == <<cancellations, streams>>
vars == <<request, message, logged, body, run, cancellations, streams, call,
          faults, crashes>>

Terminal == {"completed", "failed", "cancelled"}
Outcome == {"pending", "completed", "error", "cancelled", "exception"}

\* The awaits of a run whose stream is open, and all of a run's places.
Streaming == {"loadContext", "nextChunk", "markFirstToken", "fallback",
              "saveMessage", "saveRequest", "emitLog", "finally"}
Live == Streaming \cup {"committed"}
Place == Live \cup {"idle", "rejected", "done", "lost"}

EventType == {"message_start", "token", "message_complete", "error",
              "cancelled", "internal_error"}
SseEvent == [type : EventType, provider : Provider \cup {NoProvider}]
Event(t) == [type |-> t, provider |-> NoProvider]
Token(p) == [type |-> "token", provider |-> p]
Closing == {"message_complete", "error", "cancelled", "internal_error"}

\* What a finalizer writes and publishes for each outcome.
\* Seeded fault: the outcome's kind is written where a status belongs.
VerdictIsKind(outcome) == outcome

Verdict(outcome) ==
  CASE outcome = "completed" -> "completed"
    [] outcome = "cancelled" -> "cancelled"
    [] OTHER -> "failed"
ClosingEvent(outcome) ==
  CASE outcome = "completed" -> Event("message_complete")
    [] outcome = "cancelled" -> Event("cancelled")
    [] OTHER -> Event("error")

Init ==
  /\ request = [i \in Inference |-> [status |-> "none", provider |-> NoProvider]]
  /\ message = [i \in Inference |-> [status |-> "none", content |-> 0]]
  /\ logged = [i \in Inference |-> {}]
  /\ body = [i \in Inference |->
               [provider |-> NoProvider, fallback |-> NoProvider]]
  /\ run = [i \in Inference |->
              [pc |-> "idle", onFallback |-> FALSE, provider |-> NoProvider,
               content |-> 0, firstTokenAt |-> FALSE, outcome |-> "pending",
               terminalEmitted |-> FALSE]]
  /\ cancellations = EmptyRegistry
  /\ streams = [i \in Inference |-> NoEntry]
  /\ call = [c \in CancelCall |->
               [pc |-> "idle", target |-> NoInference, observed |-> "none",
                reply |-> "none", runAt |-> "idle", seen |-> 0]]
  /\ faults = [i \in Inference |-> 0]
  /\ crashes = 0
-----------------------------------------------------------------------------
\* Small steps shared by the actions below.

Goto(i, pc) == run' = [run EXCEPT ![i].pc = pc]

Publish(i, event) == streams' = [streams EXCEPT ![i] = Published(@, event)]

Fault(i) ==
  /\ faults[i] < MaxFaults
  /\ faults' = [faults EXCEPT ![i] = @ + 1]

\* Seeded fault: a throw skips the catch block's finalizeFailed.
RaiseWithoutCatch(i) == run' = [run EXCEPT ![i].pc = "finally"]

\* A throw inside the try block enters the catch block, which starts
\* finalizeFailed at once; a throw inside the catch block is logged and
\* control falls through to the finally block.
Raise(i) ==
  run' = [run EXCEPT ![i] =
            IF @.outcome = "exception"
            THEN [@ EXCEPT !.pc = "finally"]
            ELSE [@ EXCEPT !.pc = "saveMessage", !.outcome = "exception"]]

\* Seeded fault: finalizers forget the message row.
FinalizeRowOnly(i, outcome) ==
  run' = [run EXCEPT ![i].pc = "saveRequest", ![i].outcome = outcome]

Finalize(i, outcome) ==
  run' = [run EXCEPT ![i].pc = "saveMessage", ![i].outcome = outcome]
-----------------------------------------------------------------------------
(***************************************************************************)
(* POST .../messages: the transaction of startInference, which creates the *)
(* assistant row and the inference row together.  When it throws, the      *)
(* caller gets an error and no run is started, even if the commit went     *)
(* through.                                                                *)
(***************************************************************************)
StartInference(i, p, f) ==
  /\ run[i].pc = "idle"
  /\ \E ok, applied \in BOOLEAN :
       /\ ok => applied
       /\ IF ok THEN UNCHANGED faults ELSE Fault(i)
       /\ run' = [run EXCEPT ![i].pc = IF ok THEN "committed" ELSE "rejected",
                             ![i].provider = p]
       /\ request' = IF applied
                     THEN [request EXCEPT ![i] = [status |-> "started", provider |-> p]]
                     ELSE request
       /\ message' = IF applied
                     THEN [message EXCEPT ![i].status = "streaming"] ELSE message
  /\ body' = [body EXCEPT ![i] = [provider |-> p, fallback |-> f]]
  /\ UNCHANGED <<logged, registries, call, crashes>>

\* The continuation after the commit: the run's prefix up to its first await.
BeginRun(i) ==
  /\ run[i].pc = "committed"
  /\ Goto(i, "loadContext")
  /\ cancellations' = Register(cancellations, i)
  /\ streams' = [streams EXCEPT ![i] = Published(Opened, Event("message_start"))]
  /\ UNCHANGED <<database, body, call, faults, crashes>>

LoadContext(i) ==
  /\ run[i].pc = "loadContext"
  /\ \/ Goto(i, "nextChunk") /\ UNCHANGED faults
     \/ Raise(i) /\ Fault(i)
  /\ UNCHANGED <<database, body, registries, call, crashes>>
-----------------------------------------------------------------------------
\* runAttempt: the for-await loop over the provider's chunks.

\* Seeded fault: the loop skips chunks of an aborted run instead of returning.
ChunkAfterAbortSkipped(i) ==
  /\ run[i].pc = "nextChunk"
  /\ WasCancelled(cancellations, i)
  /\ UNCHANGED vars

\* Whatever chunk arrives, or if the stream just ends, an aborted run stops.
ChunkAfterAbort(i) ==
  /\ run[i].pc = "nextChunk"
  /\ WasCancelled(cancellations, i)
  /\ Finalize(i, "cancelled")
  /\ UNCHANGED <<database, body, registries, call, faults, crashes>>

\* The first token is stamped and its database write awaited before the
\* token is appended and published.
FirstToken(i) ==
  /\ run[i].pc = "nextChunk"
  /\ ~WasCancelled(cancellations, i)
  /\ ~run[i].firstTokenAt
  /\ run[i].content < MaxTokens
  /\ run' = [run EXCEPT ![i].firstTokenAt = TRUE, ![i].pc = "markFirstToken"]
  /\ UNCHANGED <<database, body, registries, call, faults, crashes>>

AppendToken(i) ==
  /\ run' = [run EXCEPT ![i].content = @ + 1, ![i].pc = "nextChunk"]
  /\ Publish(i, Token(run[i].provider))

MarkFirstToken(i) ==
  /\ run[i].pc = "markFirstToken"
  /\ \E ok, applied \in BOOLEAN :
       /\ ok => applied
       /\ request' = IF applied THEN [request EXCEPT ![i].status = "streaming"]
                                ELSE request
       /\ IF ok THEN AppendToken(i) /\ UNCHANGED faults
                ELSE Raise(i) /\ Fault(i) /\ UNCHANGED streams
  /\ UNCHANGED <<message, logged, body, cancellations, call, crashes>>

NextToken(i) ==
  /\ run[i].pc = "nextChunk"
  /\ ~WasCancelled(cancellations, i)
  /\ run[i].firstTokenAt
  /\ run[i].content < MaxTokens
  /\ AppendToken(i)
  /\ UNCHANGED <<database, body, cancellations, call, faults, crashes>>

ChunkCompleted(i) ==
  /\ run[i].pc = "nextChunk"
  /\ ~WasCancelled(cancellations, i)
  /\ Finalize(i, "completed")
  /\ UNCHANGED <<database, body, registries, call, faults, crashes>>

\* Seeded fault: a stream that already has tokens may still fall back.
FallbackEligibleMidStream(i, retryable) ==
  retryable /\ body[i].fallback # NoProvider /\ ~run[i].onFallback

FallbackEligible(i, retryable) ==
  /\ retryable
  /\ body[i].fallback # NoProvider
  /\ ~run[i].firstTokenAt
  /\ ~run[i].onFallback

\* An error chunk; a stream that ends without a terminal chunk is the error
\* stream_ended_unexpectedly, which is not retryable.
ChunkError(i) ==
  /\ run[i].pc = "nextChunk"
  /\ ~WasCancelled(cancellations, i)
  /\ \E retryable \in BOOLEAN :
       IF FallbackEligible(i, retryable) THEN Goto(i, "fallback")
                                         ELSE Finalize(i, "error")
  /\ UNCHANGED <<database, body, registries, call, faults, crashes>>

\* The row is pointed at the fallback provider before the second attempt.
StartFallback(i) ==
  /\ run[i].pc = "fallback"
  /\ \E ok, applied \in BOOLEAN :
       /\ ok => applied
       /\ request' = IF applied
                     THEN [request EXCEPT ![i] = [status |-> "started",
                                                  provider |-> body[i].fallback]]
                     ELSE request
       /\ IF ok
          THEN /\ run' = [run EXCEPT ![i].pc = "nextChunk", ![i].onFallback = TRUE,
                                     ![i].provider = body[i].fallback]
               /\ UNCHANGED faults
          ELSE Raise(i) /\ Fault(i)
  /\ UNCHANGED <<message, logged, body, registries, call, crashes>>
-----------------------------------------------------------------------------
(***************************************************************************)
(* finalizeCompleted, finalizeFailed and finalizeCancelled share one       *)
(* shape: the message row, then the inference row, then the ingestion      *)
(* event (whose failure is swallowed), then the closing event.             *)
(***************************************************************************)
SaveMessage(i) ==
  /\ run[i].pc = "saveMessage"
  /\ \E ok, applied \in BOOLEAN :
       /\ ok => applied
       /\ message' = IF applied
                     THEN [message EXCEPT ![i] = [status |-> Verdict(run[i].outcome),
                                                  content |-> run[i].content]]
                     ELSE message
       /\ IF ok THEN Goto(i, "saveRequest") /\ UNCHANGED faults
                ELSE Raise(i) /\ Fault(i)
  /\ UNCHANGED <<request, logged, body, registries, call, crashes>>

\* Seeded fault: a failed update of the inference row is ignored.
SaveRequestUnchecked(i) ==
  /\ run[i].pc = "saveRequest"
  /\ \/ /\ request' = [request EXCEPT ![i].status = Verdict(run[i].outcome)]
        /\ UNCHANGED faults
     \/ Fault(i) /\ UNCHANGED request
  /\ Goto(i, "emitLog")
  /\ UNCHANGED <<message, logged, body, registries, call, crashes>>

SaveRequest(i) ==
  /\ run[i].pc = "saveRequest"
  /\ \E ok, applied \in BOOLEAN :
       /\ ok => applied
       /\ request' = IF applied
                     THEN [request EXCEPT ![i].status = Verdict(run[i].outcome)]
                     ELSE request
       /\ IF ok THEN Goto(i, "emitLog") /\ UNCHANGED faults
                ELSE Raise(i) /\ Fault(i)
  /\ UNCHANGED <<message, logged, body, registries, call, crashes>>

\* Seeded faults: emit() does not swallow a lost reply of the enqueuer, before
\* and (next) after the closing event has been published.
EmitLogThrowing(i) ==
  /\ run[i].pc = "emitLog"
  /\ logged' = [logged EXCEPT ![i] = @ \cup {Verdict(run[i].outcome)}]
  /\ \/ /\ run' = [run EXCEPT ![i].pc = "finally", ![i].terminalEmitted = TRUE]
        /\ Publish(i, ClosingEvent(run[i].outcome))
     \/ Raise(i) /\ UNCHANGED streams
  /\ UNCHANGED <<request, message, body, cancellations, call, faults, crashes>>

EmitLogAfterPublish(i) ==
  /\ run[i].pc = "emitLog"
  /\ Publish(i, ClosingEvent(run[i].outcome))
  /\ \/ /\ run' = [run EXCEPT ![i].pc = "finally", ![i].terminalEmitted = TRUE]
        /\ logged' = [logged EXCEPT ![i] = @ \cup {Verdict(run[i].outcome)}]
     \/ Raise(i) /\ UNCHANGED logged
  /\ UNCHANGED <<request, message, body, cancellations, call, faults, crashes>>

EmitLog(i) ==
  /\ run[i].pc = "emitLog"
  /\ \/ logged' = [logged EXCEPT ![i] = @ \cup {Verdict(run[i].outcome)}]
     \/ UNCHANGED logged
  /\ run' = [run EXCEPT ![i].pc = "finally", ![i].terminalEmitted = TRUE]
  /\ Publish(i, ClosingEvent(run[i].outcome))
  /\ UNCHANGED <<request, message, body, cancellations, call, faults, crashes>>

\* Seeded faults: internal_error follows every closing event; release() is
\* reached only when a closing event was published.
FinallyAlwaysReports(i) ==
  /\ run[i].pc = "finally"
  /\ Goto(i, "done")
  /\ cancellations' = Release(cancellations, i)
  /\ streams' = [streams EXCEPT ![i] = Ended(Published(@, Event("internal_error")))]
  /\ UNCHANGED <<database, body, call, faults, crashes>>

FinallyWithoutRelease(i) ==
  /\ run[i].pc = "finally"
  /\ Goto(i, "done")
  /\ cancellations' = IF run[i].terminalEmitted THEN Release(cancellations, i)
                                                ELSE cancellations
  /\ streams' = [streams EXCEPT ![i] =
                   Ended(IF run[i].terminalEmitted
                         THEN @ ELSE Published(@, Event("internal_error")))]
  /\ UNCHANGED <<database, body, call, faults, crashes>>

Finally(i) ==
  /\ run[i].pc = "finally"
  /\ Goto(i, "done")
  /\ cancellations' = Release(cancellations, i)
  /\ streams' = [streams EXCEPT ![i] =
                   Ended(IF run[i].terminalEmitted
                         THEN @ ELSE Published(@, Event("internal_error")))]
  /\ UNCHANGED <<database, body, call, faults, crashes>>

\* The timer started by end() deletes the entry after the grace period.
ExpireStream(i) ==
  /\ streams[i].state = "ended"
  /\ streams' = [streams EXCEPT ![i] = NoEntry]
  /\ UNCHANGED <<database, body, run, cancellations, call, faults, crashes>>
-----------------------------------------------------------------------------
(***************************************************************************)
(* POST .../cancel: the row is read, and the continuation acts on what was *)
(* read.  runAt and seen record where the run was, and how many tokens it  *)
(* had produced, when the registry was told; no action reads them.         *)
(***************************************************************************)
CancelRead(c, i) ==
  /\ call[c].pc = "idle"
  /\ call' = [call EXCEPT ![c].pc = "read", ![c].target = i,
                          ![c].observed = request[i].status]
  /\ UNCHANGED <<database, body, run, registries, faults, crashes>>

CancelNotFound(c) ==
  /\ call[c].pc = "read"
  /\ call[c].observed = "none"
  /\ call' = [call EXCEPT ![c].pc = "replied", ![c].reply = "not_found"]
  /\ UNCHANGED <<database, body, run, registries, faults, crashes>>

CancelTerminal(c) ==
  /\ call[c].pc = "read"
  /\ call[c].observed \in Terminal
  /\ call' = [call EXCEPT ![c].pc = "replied", ![c].reply = call[c].observed]
  /\ UNCHANGED <<database, body, run, registries, faults, crashes>>

CancelActive(c) ==
  /\ call[c].pc = "read"
  /\ call[c].observed \in {"started", "streaming"}
  /\ LET i == call[c].target IN
       /\ cancellations' = RequestCancel(cancellations, i)
       /\ call' = [call EXCEPT ![c] = [@ EXCEPT !.pc = "replied",
                                                !.reply = "cancelled",
                                                !.runAt = run[i].pc,
                                                !.seen = run[i].content]]
  /\ UNCHANGED <<database, body, run, streams, faults, crashes>>

\* The process dies and is restarted: rows stay, memory and open calls go.
Crash ==
  /\ crashes < MaxCrashes
  /\ crashes' = crashes + 1
  /\ run' = [i \in Inference |->
               IF run[i].pc \in Live THEN [run[i] EXCEPT !.pc = "lost"] ELSE run[i]]
  /\ cancellations' = EmptyRegistry
  /\ streams' = [i \in Inference |-> NoEntry]
  /\ call' = [c \in CancelCall |->
                IF call[c].pc = "read" THEN [call[c] EXCEPT !.pc = "dropped"]
                                       ELSE call[c]]
  /\ UNCHANGED <<database, body, faults>>
-----------------------------------------------------------------------------
RunStep(i) ==
  \/ BeginRun(i) \/ LoadContext(i)
  \/ ChunkAfterAbort(i) \/ FirstToken(i) \/ MarkFirstToken(i) \/ NextToken(i)
  \/ ChunkCompleted(i) \/ ChunkError(i) \/ StartFallback(i)
  \/ SaveMessage(i) \/ SaveRequest(i) \/ EmitLog(i) \/ Finally(i)

CancelReply(c) == CancelNotFound(c) \/ CancelTerminal(c) \/ CancelActive(c)

Next ==
  \/ \E i \in Inference :
       \/ \E p \in Provider, f \in Provider \cup {NoProvider} : StartInference(i, p, f)
       \/ RunStep(i)
       \/ ExpireStream(i)
  \/ \E c \in CancelCall : (\E i \in Inference : CancelRead(c, i)) \/ CancelReply(c)
  \/ Crash

Spec == Init /\ [][Next]_vars

\* Awaited calls settle, the provider eventually yields or ends its stream,
\* and the event loop resumes the continuations; crashes, faults, new
\* requests and the grace timer are never owed.
FairSpec ==
  /\ Spec
  /\ \A i \in Inference : WF_vars(RunStep(i))
  /\ \A c \in CancelCall : WF_vars(CancelReply(c))
=============================================================================
