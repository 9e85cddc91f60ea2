----------------------- MODULE ChatInferenceProperties -----------------------
(***************************************************************************)
(* What must be true of ChatInference.                                     *)
(***************************************************************************)
EXTENDS ChatInference

RequestType ==
  [Inference -> [status : {"none", "started", "streaming"} \cup Terminal,
                 provider : Provider \cup {NoProvider}]]
MessageType ==
  [Inference -> [status : {"none", "streaming"} \cup Terminal,
                 content : 0..MaxTokens]]
BodyType ==
  [Inference -> [provider : Provider \cup {NoProvider},
                 fallback : Provider \cup {NoProvider}]]
RunRecord ==
  [pc : Place, onFallback : BOOLEAN, provider : Provider \cup {NoProvider},
   content : 0..MaxTokens, firstTokenAt : BOOLEAN, outcome : Outcome,
   terminalEmitted : BOOLEAN]
RunType == [Inference -> RunRecord]
CallRecord ==
  [pc : {"idle", "read", "replied", "dropped"},
   target : Inference \cup {NoInference},
   observed : {"none", "started", "streaming"} \cup Terminal,
   reply : {"none", "not_found"} \cup Terminal,
   runAt : Place, seen : 0..MaxTokens]
CallType == [CancelCall -> CallRecord]

\* Every variable stays in the set its columns, fields and locals allow.
TypeOK ==
  /\ request \in RequestType
  /\ message \in MessageType
  /\ logged \in [Inference -> SUBSET Terminal]
  /\ body \in BodyType
  /\ run \in RunType
  /\ cancellations \in RegistryType
  /\ streams \in [Inference -> StreamEntry(SseEvent)]
  /\ call \in CallType
  /\ faults \in [Inference -> 0..MaxFaults]
  /\ crashes \in 0..MaxCrashes
-----------------------------------------------------------------------------
\* Event streams.

\* When the closing event of an ended stream names a verdict, both rows hold
\* that verdict and the stored content is the text of the streamed tokens (all
\* events but the first and the last, by ImplementsSource).
\* Only internal_error promises nothing about the rows.
StreamMatchesStore ==
  \A i \in Inference :
    streams[i].state = "ended" =>
      LET b == streams[i].buffer
          last == b[Len(b)] IN
        last.type # "internal_error" =>
          /\ last = ClosingEvent(run[i].outcome)
          /\ request[i].status = Verdict(run[i].outcome)
          /\ message[i] = [status |-> Verdict(run[i].outcome),
                           content |-> Len(b) - 2]

\* The provider on the row is the one whose tokens the client received: a
\* fallback never takes over a stream that already carries tokens of the
\* primary (architecture-notes.md: provider/model fields reflect what ran).
SingleProviderContent ==
  \A i \in Inference : \A k \in DOMAIN streams[i].buffer :
    streams[i].buffer[k].type = "token" =>
      streams[i].buffer[k].provider = request[i].provider

\* Registry entries and open streams exist exactly for the runs in progress,
\* so a finished, failed or crashed run leaves neither behind.
NoLeakedRun ==
  \A i \in Inference :
    /\ cancellations.entries[i] # "none" <=> run[i].pc \in Streaming
    /\ streams[i].state = "open" <=> run[i].pc \in Streaming
-----------------------------------------------------------------------------
\* Rows.

\* The message row is settled before the inference row, so no reader (and no
\* crash) ever finds a finished inference with a message still streaming.
SettledMessageFirst ==
  \A i \in Inference :
    request[i].status \in Terminal => message[i].status \in Terminal

\* An event handed to ingestion repeats what the row says, and no inference is
\* logged under two verdicts, although the catch block may rewrite a row.
LoggedEventMatchesRow ==
  \A i \in Inference : logged[i] \subseteq {request[i].status}

\* One failing database call never costs the verdict: a run that met at most
\* one ends with both rows settled and a closing event that says so.
OneFaultTolerated ==
  \A i \in Inference :
    run[i].pc = "done" /\ faults[i] <= 1 =>
      /\ run[i].terminalEmitted
      /\ request[i].status \in Terminal
      /\ message[i].status = request[i].status

Told(i) ==
  \/ run[i].terminalEmitted
  \/ \E k \in DOMAIN streams[i].buffer : streams[i].buffer[k].type \in Closing

\* Once the client was told a verdict, no later step (a finalizer, the catch
\* block, a cancel, a crash) changes the rows of that inference.
ToldVerdictIsFinal ==
  [][\A i \in Inference :
       Told(i) => request'[i] = request[i] /\ message'[i] = message[i]]_vars
-----------------------------------------------------------------------------
\* Cancellation.

\* A cancel that reached the registry before the run's outcome was decided
\* stops the text: at most the one token whose first-token write was being
\* awaited is still published, and the inference never becomes completed.
\* This includes a cancel that arrived before the run had registered.
CancelStopsOutput ==
  \A c \in CancelCall :
    (/\ call[c].reply = "cancelled"
     /\ call[c].observed \notin Terminal
     /\ call[c].runAt \in {"committed", "loadContext", "nextChunk",
                           "markFirstToken", "fallback"}) =>
      LET i == call[c].target
          inFlight == IF call[c].runAt = "markFirstToken" THEN 1 ELSE 0
      IN /\ run[i].content <= call[c].seen + inFlight
         /\ request[i].status # "completed"
         /\ message[i].status # "completed"

\* Every run that was started ends, unless the process dies.
EveryRunEnds ==
  \A i \in Inference :
    run[i].pc \in Live ~> run[i].pc \in {"done", "lost"}

\* A cancel that was answered with "cancelled" leaves no row unsettled for
\* ever, whatever the run was doing, unless the process dies, the POST itself
\* failed, or more than one database call fails.
CancelledRunSettles ==
  \A i \in Inference :
    (\E c \in CancelCall : call[c].reply = "cancelled" /\ call[c].target = i) ~>
      (request[i].status \in Terminal \/ run[i].pc \in {"lost", "rejected"}
         \/ faults[i] > 1)

\* The answer of the cancel endpoint holds: an inference reported as cancelled
\* does not end up completed (phase-1.md: "inference_requests row has
\* status='cancelled'" after a cancel).
CancelReplyHonoured ==
  \A c \in CancelCall :
    (call[c].pc = "replied" /\ call[c].reply = "cancelled") =>
      LET i == call[c].target IN
        run[i].pc = "done" => request[i].status = "cancelled"
-----------------------------------------------------------------------------
(***************************************************************************)
(* The refinement mapping to InferenceLifecycle.                           *)
(***************************************************************************)
Over(i) == run[i].terminalEmitted \/ run[i].pc = "done"

phaseOf(i) ==
  CASE Over(i) -> "settled"
    [] ~Over(i) /\ run[i].pc \in Streaming -> "open"
    [] ~Over(i) /\ run[i].pc = "committed" -> "accepted"
    [] ~Over(i) /\ run[i].pc = "lost" -> "lost"
    [] OTHER -> "new"
toldOf(i) ==
  CASE run[i].terminalEmitted -> Verdict(run[i].outcome)
    [] run[i].pc = "done" /\ ~run[i].terminalEmitted -> "unknown"
    [] OTHER -> "none"
recordOf(i) == IF request[i].status \in Terminal THEN request[i].status ELSE "pending"

Lifecycle == INSTANCE InferenceLifecycle WITH
  phase <- [i \in Inference |-> phaseOf(i)],
  record <- [i \in Inference |-> recordOf(i)],
  told <- [i \in Inference |-> toldOf(i)],
  log <- logged

\* Every behaviour of the code, faults and crashes included, is one the
\* abstract lifecycle allows: at most one verdict told, told as stored, never
\* changed afterwards, logged as stored.
ImplementsLifecycle == Lifecycle!LifecycleSpec
-----------------------------------------------------------------------------
(***************************************************************************)
(* The refinement mapping to StreamSource: the types of the events, as the *)
(* client sees them.                                                       *)
(***************************************************************************)
wireType(e) == IF e.type = "internal_error" THEN "error" ELSE e.type

Source == INSTANCE StreamSource WITH
  streams <- [i \in Inference |->
                [state |-> streams[i].state,
                 buffer |-> [k \in DOMAIN streams[i].buffer |->
                               wireType(streams[i].buffer[k])]]]

\* The streams of ChatInference are those that StreamRelay relies on, with every
\* fault, cancel and crash: message_start first, at most one closing event,
\* nothing after it, an end only after it, and none that opens a second time
\* before it was deleted.
ImplementsSource == Source!SourceSpec
=============================================================================
