-------------------------- MODULE ChatStreamProofs --------------------------
(***************************************************************************)
(* The event streams of ChatInference, for every set of inferences and     *)
(* every value of the bounds.  TapeInv says what a stream's buffer holds,  *)
(* event by event, in terms of the run's locals and its rows; from it      *)
(* follow StreamMatchesStore, SingleProviderContent and the refinement of  *)
(* StreamSource.  CancelInv says what a cancel that was told to the        *)
(* registry in time has made sure of; from it follows CancelStopsOutput.   *)
(***************************************************************************)
EXTENDS ChatSafetyProofs, SequenceTheorems

\* The buffer of a run that has published n tokens of provider p, and the same
\* with the last event e after them.
Opening(b, n, p) ==
  /\ Len(b) = n + 1
  /\ b[1] = Event("message_start")
  /\ \A k \in 2..(n + 1) : b[k] = Token(p)
Closed(b, n, p, e) ==
  /\ Len(b) = n + 2
  /\ b[1] = Event("message_start")
  /\ \A k \in 2..(n + 1) : b[k] = Token(p)
  /\ b[n + 2] = e

LastEvent(told, outcome) ==
  IF told THEN ClosingEvent(outcome) ELSE Event("internal_error")

\* A stream's entry, said by the content of its run, the provider of its row,
\* and the verdict that was told.
Recorded(entry, n, p, told, outcome) ==
  /\ entry.state = "absent" => entry.buffer = <<>>
  /\ entry.state = "open" /\ told = FALSE => Opening(entry.buffer, n, p)
  /\ (entry.state = "open" /\ told = TRUE) \/ entry.state = "ended" =>
       Closed(entry.buffer, n, p, LastEvent(told, outcome))

\* Where no closing event has been chosen and tokens may still come.
Early == {"committed", "loadContext", "nextChunk", "markFirstToken", "fallback"}

\* What a run's locals and its rows agree on.
Locals(i) ==
  /\ run[i].pc \in {"idle", "rejected", "committed"} =>
       streams[i] = NoEntry /\ run[i].firstTokenAt = FALSE
  /\ run[i].firstTokenAt = TRUE \/ run[i].content = 0
  /\ run[i].pc = "markFirstToken" => run[i].firstTokenAt = TRUE
  /\ run[i].pc = "fallback" => run[i].firstTokenAt = FALSE
  /\ run[i].pc \in Early => run[i].provider = request[i].provider
  /\ run[i].pc \in {"saveRequest", "emitLog"} \/ run[i].terminalEmitted = TRUE =>
       message[i].content = run[i].content

Tape(i) ==
  /\ Recorded(streams[i], run[i].content, request[i].provider,
              run[i].terminalEmitted, run[i].outcome)
  /\ Locals(i)
TapeInv == \A i \in Inference : Tape(i)
-----------------------------------------------------------------------------
\* A token continues an opening, any other event closes it; an opening without
\* tokens is one of every provider.
LEMMA OpeningFacts ==
  ASSUME NEW E, NEW b \in Seq(E), NEW n \in Nat, NEW p, Opening(b, n, p)
  PROVE  /\ Opening(Append(b, Token(p)), n + 1, p)
         /\ \A e : Closed(Append(b, e), n, p, e)
         /\ n = 0 => \A q : Opening(b, n, q)
<1>1. Len(b) = n + 1 /\ b[1] = Event("message_start")
      /\ \A k \in 2..(n + 1) : b[k] = Token(p)
  BY DEF Opening
<1>2. ASSUME NEW e
      PROVE  /\ Len(Append(b, e)) = n + 2 /\ Append(b, e)[n + 2] = e
             /\ \A k \in 1..(n + 1) : Append(b, e)[k] = b[k]
  BY <1>1
<1>3. Opening(Append(b, Token(p)), n + 1, p)
  <2>1. Append(b, Token(p))[1] = Event("message_start")
    BY <1>1, <1>2
  <2>2. ASSUME NEW k \in 2..(n + 2) PROVE Append(b, Token(p))[k] = Token(p)
    <3>1. CASE k = n + 2
      BY <1>2, <3>1
    <3>2. CASE k \in 2..(n + 1)
      <4>1. k \in 1..(n + 1)
        BY <3>2
      <4>2. Append(b, Token(p))[k] = b[k]
        BY <1>2, <4>1
      <4>3. b[k] = Token(p)
        BY <1>1, <3>2
      <4>. QED BY <4>2, <4>3
    <3>3. k = n + 2 \/ k \in 2..(n + 1)
      OBVIOUS
    <3>. QED BY <3>1, <3>2, <3>3
  <2>3. (n + 1) + 1 = n + 2
    OBVIOUS
  <2>. QED BY <1>2, <2>1, <2>2, <2>3 DEF Opening
<1>4. ASSUME NEW e PROVE Closed(Append(b, e), n, p, e)
  <2>1. Append(b, e)[1] = Event("message_start")
    BY <1>1, <1>2
  <2>2. ASSUME NEW k \in 2..(n + 1) PROVE Append(b, e)[k] = Token(p)
    <3>1. k \in 1..(n + 1)
      OBVIOUS
    <3>. QED BY <1>1, <1>2, <3>1
  <2>. QED BY <1>2, <2>1, <2>2 DEF Closed
<1>5. n = 0 => \A q : Opening(b, n, q)
  BY <1>1 DEF Opening
<1>. QED BY <1>3, <1>4, <1>5

\* The first event of a stream is an opening.
LEMMA FirstEvent ==
  ASSUME NEW p
  PROVE  Published(Opened, Event("message_start")).state = "open"
         /\ Opening(Published(Opened, Event("message_start")).buffer, 0, p)
<1>1. Published(Opened, Event("message_start")) =
        [state |-> "open", buffer |-> <<Event("message_start")>>]
  BY DEF Published, Opened
<1>. QED BY <1>1 DEF Opening

\* Tape reads nothing of the other inferences.
LEMMA TapeElsewhere ==
  ASSUME NEW j \in Inference, Tape(j), run'[j] = run[j], streams'[j] = streams[j],
         request'[j] = request[j], message'[j] = message[j]
  PROVE  Tape(j)'
BY DEF Tape, Locals

\* A step of one inference touches nothing of the others.
LEMMA OnlyOwn ==
  ASSUME TypeInv, NEW i \in Inference, NEW j \in Inference \ {i},
         \/ \E p \in Provider, f \in Provider \cup {NoProvider} : StartInference(i, p, f)
         \/ RunStep(i) \/ ExpireStream(i)
  PROVE  /\ run'[j] = run[j] /\ streams'[j] = streams[j]
         /\ request'[j] = request[j] /\ message'[j] = message[j]
<1>0. /\ DOMAIN run = Inference /\ DOMAIN streams = Inference
      /\ DOMAIN request = Inference /\ DOMAIN message = Inference
  BY DEF TypeInv, TypeOK, RunType, RequestType, MessageType
<1>1. run'[j] = run[j]
  BY <1>0
  DEF StartInference, RunStep, ExpireStream, BeginRun, LoadContext, ChunkAfterAbort,
      FirstToken, MarkFirstToken, NextToken, ChunkCompleted, ChunkError, StartFallback,
      SaveMessage, SaveRequest, EmitLog, Finally, Goto, Finalize, Raise, AppendToken
<1>2. streams'[j] = streams[j]
  BY <1>0
  DEF StartInference, RunStep, ExpireStream, BeginRun, LoadContext, ChunkAfterAbort,
      FirstToken, MarkFirstToken, NextToken, ChunkCompleted, ChunkError, StartFallback,
      SaveMessage, SaveRequest, EmitLog, Finally, AppendToken, Publish, registries
<1>3. request'[j] = request[j]
  BY <1>0
  DEF StartInference, RunStep, ExpireStream, BeginRun, LoadContext, ChunkAfterAbort,
      FirstToken, MarkFirstToken, NextToken, ChunkCompleted, ChunkError, StartFallback,
      SaveMessage, SaveRequest, EmitLog, Finally, database
<1>4. message'[j] = message[j]
  BY <1>0
  DEF StartInference, RunStep, ExpireStream, BeginRun, LoadContext, ChunkAfterAbort,
      FirstToken, MarkFirstToken, NextToken, ChunkCompleted, ChunkError, StartFallback,
      SaveMessage, SaveRequest, EmitLog, Finally, database
<1>. QED BY <1>1, <1>2, <1>3, <1>4
-----------------------------------------------------------------------------
\* The small steps keep what Tape reads, but for the token that is appended.
Keeps(i) ==
  /\ run'[i].content = run[i].content
  /\ run'[i].firstTokenAt = run[i].firstTokenAt
  /\ run'[i].provider = run[i].provider

LEMMA KeepsFacts ==
  ASSUME TypeInv, NEW i \in Inference,
         \/ \E pc : Goto(i, pc)
         \/ \E o : Finalize(i, o)
         \/ Raise(i)
  PROVE  Keeps(i)
<1>0. run \in [Inference -> RunRecord] /\ run[i] \in RunRecord
  BY DEF TypeInv, TypeOK, RunType
<1>1. ASSUME NEW pc, Goto(i, pc) PROVE Keeps(i)
  BY <1>0, <1>1 DEF Goto, Keeps, RunRecord
<1>2. ASSUME NEW o, Finalize(i, o) PROVE Keeps(i)
  BY <1>0, <1>2 DEF Finalize, Keeps, RunRecord
<1>3. ASSUME Raise(i), run[i].outcome = "exception" PROVE Keeps(i)
  BY <1>0, <1>3 DEF Raise, Keeps, RunRecord
<1>4. ASSUME Raise(i), run[i].outcome # "exception" PROVE Keeps(i)
  BY <1>0, <1>4 DEF Raise, Keeps, RunRecord
<1>. QED BY <1>1, <1>2, <1>3, <1>4

LEMMA AppendFacts ==
  ASSUME TypeInv, NEW i \in Inference, AppendToken(i)
  PROVE  /\ run'[i].content = run[i].content + 1
         /\ run'[i].firstTokenAt = run[i].firstTokenAt
         /\ run'[i].provider = run[i].provider
         /\ streams'[i] = Published(streams[i], Token(run[i].provider))
<1>0. run \in [Inference -> RunRecord] /\ run[i] \in RunRecord
      /\ streams \in [Inference -> StreamEntry(SseEvent)]
  BY DEF TypeInv, TypeOK, RunType
<1>. QED BY <1>0 DEF AppendToken, Publish, RunRecord

\* A run that is streaming and has told nothing is at its opening.
LEMMA StreamingFacts ==
  ASSUME SafetyInv, NEW i \in Inference, Tape(i),
         run[i].pc \in Streaming \ {"finally"}
  PROVE  /\ run[i].terminalEmitted = FALSE
         /\ streams[i].state = "open" /\ streams[i].buffer \in Seq(SseEvent)
         /\ run[i].content \in Nat
         /\ Opening(streams[i].buffer, run[i].content, request[i].provider)
<1>1. run[i] \in RunRecord /\ streams[i] \in StreamEntry(SseEvent)
  BY DEF SafetyInv, TypeInv, TypeOK, RunType
<1>2. run[i].terminalEmitted = FALSE
  BY <1>1 DEF SafetyInv, StoryInv, Story, Streaming, RunRecord
<1>3. streams[i].state = "open"
  BY DEF SafetyInv, NoLeakedRun
<1>4. run[i].content \in Nat /\ streams[i].buffer \in Seq(SseEvent)
  BY <1>1, BoundAssumption DEF RunRecord, StreamEntry
<1>. QED BY <1>2, <1>3, <1>4 DEF Tape, Recorded

\* A step that publishes nothing leaves the opening as it is.
LEMMA QuietRecorded ==
  ASSUME SafetyInv, NEW i \in Inference, Tape(i),
         run[i].pc \in Streaming \ {"finally"},
         streams'[i] = streams[i], run'[i].content = run[i].content,
         run'[i].terminalEmitted = FALSE,
         request'[i].provider = request[i].provider \/ run[i].content = 0
  PROVE  Recorded(streams[i], run[i].content, request[i].provider,
                  run[i].terminalEmitted, run[i].outcome)'
<1>1. /\ streams[i].state = "open" /\ streams[i].buffer \in Seq(SseEvent)
      /\ run[i].content \in Nat
      /\ Opening(streams[i].buffer, run[i].content, request[i].provider)
  BY StreamingFacts
<1>2. Opening(streams[i].buffer, run[i].content, request'[i].provider)
  BY <1>1, OpeningFacts
<1>. QED BY <1>1, <1>2 DEF Recorded

LEMMA TapeStart ==
  ASSUME SafetyInv, NEW i \in Inference, Tape(i), NEW p \in Provider,
         NEW f \in Provider \cup {NoProvider}, StartInference(i, p, f)
  PROVE  Tape(i)'
<1>0. /\ run \in [Inference -> RunRecord] /\ run[i] \in RunRecord
      /\ request \in RequestType /\ message \in MessageType
  BY DEF SafetyInv, TypeInv, TypeOK, RunType
<1>1. run[i].pc = "idle" /\ streams' = streams
  BY DEF StartInference, registries
<1>2. run[i].terminalEmitted = FALSE /\ streams[i] = NoEntry
      /\ run[i].firstTokenAt = FALSE /\ run[i].content = 0
  BY <1>0, <1>1 DEF SafetyInv, StoryInv, Story, RunRecord, Tape, Locals
<1>3. PICK ok \in BOOLEAN, applied \in BOOLEAN :
        /\ ok => applied
        /\ run' = [run EXCEPT ![i].pc = IF ok THEN "committed" ELSE "rejected",
                             ![i].provider = p]
        /\ request' = IF applied
                      THEN [request EXCEPT ![i] = [status |-> "started", provider |-> p]]
                      ELSE request
  BY DEF StartInference
<1>4. /\ run'[i].pc = IF ok THEN "committed" ELSE "rejected"
      /\ run'[i].provider = p /\ run'[i].terminalEmitted = FALSE
      /\ run'[i].firstTokenAt = FALSE /\ run'[i].content = 0
  BY <1>0, <1>2, <1>3 DEF RunRecord
<1>5. ok => request'[i].provider = p
  BY <1>0, <1>3 DEF RequestType
<1>6. Recorded(streams[i], run[i].content, request[i].provider,
               run[i].terminalEmitted, run[i].outcome)'
  BY <1>1, <1>2 DEF Recorded, NoEntry
<1>7. Locals(i)'
  BY <1>1, <1>2, <1>4, <1>5 DEF Locals, Early
<1>. QED BY <1>6, <1>7 DEF Tape

LEMMA TapeBegin ==
  ASSUME SafetyInv, NEW i \in Inference, Tape(i), BeginRun(i)
  PROVE  Tape(i)'
<1>0. /\ run \in [Inference -> RunRecord] /\ run[i] \in RunRecord
      /\ streams \in [Inference -> StreamEntry(SseEvent)]
  BY DEF SafetyInv, TypeInv, TypeOK, RunType
<1>1. /\ run[i].pc = "committed" /\ Goto(i, "loadContext")
      /\ request' = request /\ message' = message
      /\ streams'[i] = Published(Opened, Event("message_start"))
  BY <1>0 DEF BeginRun, database
<1>2. /\ run[i].terminalEmitted = FALSE /\ run[i].content = 0
      /\ run[i].firstTokenAt = FALSE /\ run[i].provider = request[i].provider
  BY <1>0, <1>1 DEF SafetyInv, StoryInv, Story, RunRecord, Tape, Locals, Early
<1>3. Keeps(i) /\ run'[i].pc = "loadContext" /\ run'[i].terminalEmitted = FALSE
  BY <1>1, <1>2, KeepsFacts, MovesFacts DEF SafetyInv, Moves
<1>4. Recorded(streams[i], run[i].content, request[i].provider,
               run[i].terminalEmitted, run[i].outcome)'
  BY <1>1, <1>2, <1>3, FirstEvent DEF Recorded, Keeps
<1>5. Locals(i)'
  BY <1>1, <1>2, <1>3 DEF Locals, Early, Keeps
<1>. QED BY <1>4, <1>5 DEF Tape

\* The steps of a run that publish nothing, but for the second attempt.
LEMMA TapeQuiet ==
  ASSUME SafetyInv, NEW i \in Inference, Tape(i),
         \/ LoadContext(i) \/ ChunkAfterAbort(i) \/ FirstToken(i)
         \/ ChunkCompleted(i) \/ ChunkError(i) \/ SaveMessage(i) \/ SaveRequest(i)
         \/ MarkFirstToken(i) /\ Raise(i) /\ UNCHANGED streams
  PROVE  Tape(i)'
<1>0. /\ run \in [Inference -> RunRecord] /\ run[i] \in RunRecord
      /\ request \in RequestType /\ message \in MessageType
  BY DEF SafetyInv, TypeInv, TypeOK, RunType
<1>1. /\ run[i].pc \in {"loadContext", "nextChunk", "markFirstToken",
                        "saveMessage", "saveRequest"}
      /\ streams' = streams
  BY DEF LoadContext, ChunkAfterAbort, FirstToken, ChunkCompleted, ChunkError,
         SaveMessage, SaveRequest, MarkFirstToken, registries
<1>2. run[i].terminalEmitted = FALSE
  BY <1>0, <1>1 DEF SafetyInv, StoryInv, Story, RunRecord
<1>3. request'[i].provider = request[i].provider
  BY <1>0
  DEF LoadContext, ChunkAfterAbort, FirstToken, ChunkCompleted, ChunkError,
      SaveMessage, SaveRequest, MarkFirstToken, database, RequestType
<1>4. CASE FirstToken(i)
  <2>1. /\ run'[i].content = run[i].content /\ run'[i].terminalEmitted = FALSE
        /\ run'[i].firstTokenAt = TRUE /\ run'[i].pc = "markFirstToken"
        /\ run'[i].provider = run[i].provider
    BY <1>0, <1>2, <1>4 DEF FirstToken, RunRecord
  <2>2. run[i].pc = "nextChunk"
    BY <1>4 DEF FirstToken
  <2>3. Locals(i)'
    BY <1>1, <1>3, <2>1, <2>2 DEF Tape, Locals, Early
  <2>. QED BY <1>1, <1>3, <2>1, <2>3, QuietRecorded DEF Tape, Streaming
<1>5. ASSUME run'[i].terminalEmitted = FALSE, Keeps(i),
             run'[i].pc \in {"nextChunk", "fallback", "saveMessage", "saveRequest",
                             "emitLog", "finally"},
             run'[i].pc = "nextChunk" => run[i].pc \in Early,
             run'[i].pc = "fallback" =>
               run[i].pc \in Early /\ run[i].firstTokenAt = FALSE,
             run'[i].pc \in {"saveRequest", "emitLog"} =>
               message'[i].content = run[i].content
      PROVE  Tape(i)'
  <2>1. Locals(i)'
    BY <1>1, <1>2, <1>3, <1>5 DEF Tape, Locals, Early, Keeps
  <2>. QED BY <1>1, <1>3, <1>5, <2>1, QuietRecorded DEF Tape, Streaming, Keeps
<1>6. CASE Raise(i)
  <2>1. PICK pc \in {"finally", "saveMessage"} :
          run'[i].pc = pc /\ run'[i].terminalEmitted = FALSE
    BY <1>2, <1>6, MovesFacts DEF SafetyInv, Moves
  <2>2. Keeps(i)
    BY <1>6, KeepsFacts DEF SafetyInv
  <2>. QED BY <1>5, <2>1, <2>2
<1>7. ASSUME NEW o, Finalize(i, o) PROVE Tape(i)'
  <2>1. run'[i].pc = "saveMessage" /\ run'[i].terminalEmitted = FALSE
    BY <1>2, <1>7, MovesFacts DEF SafetyInv, Moves
  <2>2. Keeps(i)
    BY <1>7, KeepsFacts DEF SafetyInv
  <2>. QED BY <1>5, <2>1, <2>2
<1>8. ASSUME NEW pc, Goto(i, pc)
      PROVE  run'[i].pc = pc /\ run'[i].terminalEmitted = FALSE /\ Keeps(i)
  BY <1>2, <1>8, MovesFacts, KeepsFacts DEF SafetyInv, Moves
<1>9. CASE LoadContext(i) /\ Goto(i, "nextChunk")
  <2>1. run[i].pc \in Early
    BY <1>9 DEF LoadContext, Early
  <2>2. run'[i].pc = "nextChunk" /\ run'[i].terminalEmitted = FALSE /\ Keeps(i)
    BY <1>8, <1>9
  <2>. QED BY <1>5, <2>1, <2>2
<1>10. CASE ChunkError(i) /\ Goto(i, "fallback")
  <2>1. run[i].pc \in Early /\ run[i].firstTokenAt = FALSE
    <3>1. run'[i].pc = "fallback"
      BY <1>8, <1>10
    <3>2. PICK retryable \in BOOLEAN :
            IF FallbackEligible(i, retryable) THEN Goto(i, "fallback")
                                              ELSE Finalize(i, "error")
      BY <1>10 DEF ChunkError
    <3>3. FallbackEligible(i, retryable)
      BY <3>1, <3>2, MovesFacts DEF SafetyInv, Moves
    <3>. QED BY <1>0, <1>10, <3>3 DEF FallbackEligible, ChunkError, Early, RunRecord
  <2>2. run'[i].pc = "fallback" /\ run'[i].terminalEmitted = FALSE /\ Keeps(i)
    BY <1>8, <1>10
  <2>. QED BY <1>5, <2>1, <2>2
<1>11. CASE SaveMessage(i) /\ Goto(i, "saveRequest")
  <2>1. message'[i].content = run[i].content
    <3>1. PICK ok \in BOOLEAN, applied \in BOOLEAN :
            /\ ok => applied
            /\ message' = IF applied
                          THEN [message EXCEPT ![i] = [status |-> Verdict(run[i].outcome),
                                                       content |-> run[i].content]]
                          ELSE message
            /\ ~ok => Raise(i)
      BY <1>11 DEF SaveMessage
    <3>2. ok = TRUE
      BY <1>8, <1>11, <3>1, MovesFacts DEF SafetyInv, Moves
    <3>. QED BY <1>0, <3>1, <3>2 DEF MessageType
  <2>2. run'[i].pc = "saveRequest" /\ run'[i].terminalEmitted = FALSE /\ Keeps(i)
    BY <1>8, <1>11
  <2>. QED BY <1>5, <2>1, <2>2
<1>12. CASE SaveRequest(i) /\ Goto(i, "emitLog")
  <2>1. message'[i].content = run[i].content
    BY <1>12 DEF SaveRequest, Tape, Locals
  <2>2. run'[i].pc = "emitLog" /\ run'[i].terminalEmitted = FALSE /\ Keeps(i)
    BY <1>8, <1>12
  <2>. QED BY <1>5, <2>1, <2>2
<1>. QED BY <1>4, <1>6, <1>7, <1>9, <1>10, <1>11, <1>12
         DEF LoadContext, ChunkAfterAbort, ChunkCompleted, ChunkError, SaveMessage,
             SaveRequest

\* The second attempt points the row at its provider before any token came.
LEMMA TapeFallback ==
  ASSUME SafetyInv, NEW i \in Inference, Tape(i), StartFallback(i)
  PROVE  Tape(i)'
<1>0. /\ run \in [Inference -> RunRecord] /\ run[i] \in RunRecord
      /\ request \in RequestType /\ streams' = streams /\ message' = message
      /\ run[i].pc = "fallback"
  BY DEF SafetyInv, TypeInv, TypeOK, RunType, StartFallback, registries
<1>1. /\ run[i].terminalEmitted = FALSE /\ run[i].firstTokenAt = FALSE
      /\ run[i].content = 0
  BY <1>0 DEF SafetyInv, StoryInv, Story, RunRecord, Tape, Locals
<1>2. CASE Raise(i)
  <2>1. /\ run'[i].pc \in {"finally", "saveMessage"} /\ run'[i].terminalEmitted = FALSE
        /\ Keeps(i)
    BY <1>1, <1>2, MovesFacts, KeepsFacts DEF SafetyInv, Moves
  <2>2. Locals(i)'
    BY <1>0, <1>1, <2>1 DEF Locals, Early, Keeps
  <2>. QED BY <1>0, <1>1, <2>1, <2>2, QuietRecorded DEF Tape, Streaming, Keeps
<1>3. CASE SecondAttempt(i, body[i].fallback)
           /\ request' = [request EXCEPT ![i] = [status |-> "started",
                                                 provider |-> body[i].fallback]]
  <2>1. request'[i].provider = body[i].fallback
    BY <1>0, <1>3 DEF RequestType
  <2>. DEFINE r == [run[i] EXCEPT !.pc = "nextChunk", !.onFallback = TRUE,
                                  !.provider = body[i].fallback]
  <2>2. /\ r.pc = "nextChunk" /\ r.provider = body[i].fallback
        /\ r.terminalEmitted = FALSE /\ r.firstTokenAt = FALSE /\ r.content = 0
    BY <1>0, <1>1 DEF RunRecord
  <2>3. run'[i] = r
    BY <1>0, <1>3 DEF SecondAttempt
  <2>. HIDE DEF r
  <2>4. Locals(i)'
    BY <1>0, <2>1, <2>2, <2>3 DEF Locals, Early
  <2>. QED BY <1>0, <1>1, <2>2, <2>3, <2>4, QuietRecorded DEF Tape, Streaming
<1>4. PICK ok \in BOOLEAN, applied \in BOOLEAN :
        /\ ok => applied
        /\ request' = IF applied
                      THEN [request EXCEPT ![i] = [status |-> "started",
                                                   provider |-> body[i].fallback]]
                      ELSE request
        /\ IF ok THEN SecondAttempt(i, body[i].fallback) ELSE Raise(i)
  BY DEF StartFallback, SecondAttempt
<1>. QED BY <1>2, <1>3, <1>4

\* A token is published of the provider that the row names.
LEMMA TapeAppend ==
  ASSUME SafetyInv, NEW i \in Inference, Tape(i),
         MarkFirstToken(i) \/ NextToken(i), AppendToken(i)
  PROVE  Tape(i)'
<1>0. /\ run \in [Inference -> RunRecord] /\ run[i] \in RunRecord
      /\ request \in RequestType
  BY DEF SafetyInv, TypeInv, TypeOK, RunType
<1>1. /\ run[i].pc \in {"nextChunk", "markFirstToken"} /\ message' = message
      /\ run[i].firstTokenAt = TRUE
  BY <1>0 DEF MarkFirstToken, NextToken, database, Tape, Locals, RunRecord
<1>2. request'[i].provider = request[i].provider
  BY <1>0 DEF MarkFirstToken, NextToken, database, RequestType
<1>3. /\ run[i].terminalEmitted = FALSE
      /\ streams[i].state = "open" /\ streams[i].buffer \in Seq(SseEvent)
      /\ run[i].content \in Nat
      /\ Opening(streams[i].buffer, run[i].content, request[i].provider)
  BY <1>1, StreamingFacts DEF Streaming
<1>4. run[i].provider = request[i].provider
  BY <1>1 DEF Tape, Locals, Early
<1>5. /\ run'[i].content = run[i].content + 1 /\ run'[i].firstTokenAt = TRUE
      /\ run'[i].provider = run[i].provider
      /\ streams'[i] = Published(streams[i], Token(run[i].provider))
      /\ run'[i].pc = "nextChunk" /\ run'[i].terminalEmitted = FALSE
  BY <1>1, <1>3, AppendFacts, MovesFacts DEF SafetyInv, Moves
<1>6. /\ streams'[i].state = "open"
      /\ streams'[i].buffer = Append(streams[i].buffer, Token(run[i].provider))
  <2>1. streams[i] \in StreamEntry(SseEvent)
    BY DEF SafetyInv, TypeInv, TypeOK
  <2>. QED BY <1>3, <1>5, <2>1 DEF Published, StreamEntry
<1>7. Opening(streams'[i].buffer, run[i].content + 1, request[i].provider)
  BY <1>3, <1>4, <1>6, OpeningFacts
<1>8. Recorded(streams[i], run[i].content, request[i].provider,
               run[i].terminalEmitted, run[i].outcome)'
  BY <1>2, <1>5, <1>6, <1>7 DEF Recorded
<1>9. Locals(i)'
  BY <1>2, <1>4, <1>5 DEF Locals, Early
<1>. QED BY <1>8, <1>9 DEF Tape

\* The last two steps: the closing event, or internal_error, and end().
LEMMA TapeEmit ==
  ASSUME SafetyInv, NEW i \in Inference, Tape(i), EmitLog(i)
  PROVE  Tape(i)'
<1>0. /\ run \in [Inference -> RunRecord] /\ run[i] \in RunRecord
      /\ streams \in [Inference -> StreamEntry(SseEvent)]
  BY DEF SafetyInv, TypeInv, TypeOK, RunType
<1>1. /\ run[i].pc = "emitLog" /\ request' = request /\ message' = message
      /\ streams'[i] = Published(streams[i], ClosingEvent(run[i].outcome))
  BY <1>0 DEF EmitLog, Publish
<1>2. /\ run'[i].pc = "finally" /\ run'[i].terminalEmitted = TRUE
      /\ run'[i].outcome = run[i].outcome
      /\ Keeps(i)
  BY <1>0 DEF EmitLog, Keeps, RunRecord
<1>3. /\ streams[i].state = "open" /\ streams[i].buffer \in Seq(SseEvent)
      /\ run[i].content \in Nat
      /\ Opening(streams[i].buffer, run[i].content, request[i].provider)
  BY <1>1, StreamingFacts DEF Streaming
<1>4. /\ streams'[i].state = "open"
      /\ streams'[i].buffer = Append(streams[i].buffer, ClosingEvent(run[i].outcome))
  BY <1>0, <1>1, <1>3 DEF Published, StreamEntry
<1>5. Closed(streams'[i].buffer, run[i].content, request[i].provider,
             ClosingEvent(run[i].outcome))
  BY <1>3, <1>4, OpeningFacts
<1>6. Recorded(streams[i], run[i].content, request[i].provider,
               run[i].terminalEmitted, run[i].outcome)'
  BY <1>1, <1>2, <1>4, <1>5 DEF Recorded, Keeps, LastEvent
<1>7. Locals(i)'
  BY <1>1, <1>2 DEF Tape, Locals, Early, Keeps
<1>. QED BY <1>6, <1>7 DEF Tape

LEMMA TapeFinally ==
  ASSUME SafetyInv, NEW i \in Inference, Tape(i), Finally(i)
  PROVE  Tape(i)'
<1>0. /\ run \in [Inference -> RunRecord] /\ run[i] \in RunRecord
      /\ streams \in [Inference -> StreamEntry(SseEvent)]
      /\ streams[i] \in StreamEntry(SseEvent)
  BY DEF SafetyInv, TypeInv, TypeOK, RunType
<1>1. /\ run[i].pc = "finally" /\ Goto(i, "done")
      /\ request' = request /\ message' = message
      /\ streams'[i] = Ended(IF run[i].terminalEmitted THEN streams[i]
                             ELSE Published(streams[i], Event("internal_error")))
  BY <1>0 DEF Finally, database
<1>2. /\ run'[i].pc = "done" /\ run'[i].terminalEmitted = run[i].terminalEmitted
      /\ run'[i].outcome = run[i].outcome /\ Keeps(i)
  BY <1>1, MovesFacts, KeepsFacts DEF SafetyInv, Moves
<1>3. streams[i].state = "open" /\ streams[i].buffer \in Seq(SseEvent)
      /\ run[i].content \in Nat
  BY <1>0, <1>1, BoundAssumption
  DEF SafetyInv, NoLeakedRun, Streaming, StreamEntry, RunRecord
<1>4. Locals(i)'
  BY <1>1, <1>2 DEF Tape, Locals, Early, Keeps
<1>5. CASE run[i].terminalEmitted = TRUE
  <2>1. streams'[i].state = "ended" /\ streams'[i].buffer = streams[i].buffer
    BY <1>0, <1>1, <1>3, <1>5 DEF Ended, StreamEntry
  <2>2. Recorded(streams[i], run[i].content, request[i].provider,
                 run[i].terminalEmitted, run[i].outcome)'
    BY <1>1, <1>2, <1>3, <1>5, <2>1 DEF Tape, Recorded, Keeps
  <2>. QED BY <1>4, <2>2 DEF Tape
<1>6. CASE run[i].terminalEmitted = FALSE
  <2>1. /\ streams'[i].state = "ended"
        /\ streams'[i].buffer = Append(streams[i].buffer, Event("internal_error"))
    BY <1>0, <1>1, <1>3, <1>6 DEF Ended, Published, StreamEntry
  <2>2. Opening(streams[i].buffer, run[i].content, request[i].provider)
    BY <1>3, <1>6 DEF Tape, Recorded
  <2>3. Closed(streams'[i].buffer, run[i].content, request[i].provider,
               Event("internal_error"))
    BY <1>3, <2>1, <2>2, OpeningFacts
  <2>4. Recorded(streams[i], run[i].content, request[i].provider,
                 run[i].terminalEmitted, run[i].outcome)'
    BY <1>1, <1>2, <1>6, <2>1, <2>3 DEF Recorded, Keeps, LastEvent
  <2>. QED BY <1>4, <2>4 DEF Tape
<1>. QED BY <1>0, <1>5, <1>6 DEF RunRecord
-----------------------------------------------------------------------------
LEMMA TapeRun ==
  ASSUME SafetyInv, NEW i \in Inference, Tape(i), RunStep(i)
  PROVE  Tape(i)'
<1>1. CASE MarkFirstToken(i)
  BY <1>1, TapeQuiet, TapeAppend DEF MarkFirstToken
<1>2. CASE NextToken(i)
  BY <1>2, TapeAppend DEF NextToken
<1>. QED BY <1>1, <1>2, TapeBegin, TapeQuiet, TapeFallback, TapeEmit, TapeFinally
         DEF RunStep

LEMMA TapeCrash == ASSUME SafetyInv, NEW i \in Inference, Tape(i), Crash PROVE Tape(i)'
<1>1. run[i] \in RunRecord
  BY DEF SafetyInv, TypeInv, TypeOK, RunType
<1>2. /\ run'[i].pc = IF run[i].pc \in Live THEN "lost" ELSE run[i].pc
      /\ run'[i].terminalEmitted = run[i].terminalEmitted
      /\ run'[i].provider = run[i].provider /\ run'[i].content = run[i].content
      /\ run'[i].firstTokenAt = run[i].firstTokenAt
      /\ streams'[i] = NoEntry /\ request' = request /\ message' = message
  BY <1>1 DEF Crash, RunRecord, database
<1>3. Locals(i)'
  BY <1>2 DEF Tape, Locals, Early, Live, Streaming
<1>4. Recorded(streams[i], run[i].content, request[i].provider,
               run[i].terminalEmitted, run[i].outcome)'
  BY <1>2 DEF Recorded, NoEntry
<1>. QED BY <1>3, <1>4 DEF Tape

LEMMA TapeExpire ==
  ASSUME SafetyInv, NEW i \in Inference, Tape(i), ExpireStream(i)
  PROVE  Tape(i)'
<1>1. streams'[i] = NoEntry /\ run' = run /\ request' = request /\ message' = message
  BY DEF SafetyInv, TypeInv, TypeOK, ExpireStream, database
<1>2. Locals(i)'
  BY <1>1 DEF Tape, Locals
<1>3. Recorded(streams[i], run[i].content, request[i].provider,
               run[i].terminalEmitted, run[i].outcome)'
  BY <1>1 DEF Recorded, NoEntry
<1>. QED BY <1>2, <1>3 DEF Tape

LEMMA TapeNext == SafetyInv /\ TapeInv /\ [Next]_vars => TapeInv'
<1>. SUFFICES ASSUME SafetyInv, TapeInv, [Next]_vars, NEW j \in Inference
              PROVE  Tape(j)'
  BY DEF TapeInv
<1>0. Tape(j) /\ TypeInv
  BY DEF TapeInv, SafetyInv
<1>1. ASSUME UNCHANGED <<run, streams, request, message>> PROVE Tape(j)'
  BY <1>0, <1>1, TapeElsewhere
<1>2. CASE UNCHANGED vars
  BY <1>1, <1>2 DEF vars
<1>3. CASE Crash
  BY <1>0, <1>3, TapeCrash
<1>4. ASSUME NEW c \in CancelCall,
             (\E i \in Inference : CancelRead(c, i)) \/ CancelReply(c)
      PROVE  Tape(j)'
  BY <1>1, <1>4 DEF CancelRead, CancelReply, CancelNotFound, CancelTerminal,
                    CancelActive, database, registries
<1>5. ASSUME NEW i \in Inference,
             \/ \E p \in Provider, f \in Provider \cup {NoProvider} :
                  StartInference(i, p, f)
             \/ RunStep(i) \/ ExpireStream(i)
      PROVE  Tape(j)'
  <2>1. CASE i = j
    BY <1>0, <1>5, <2>1, TapeStart, TapeRun, TapeExpire
  <2>2. CASE i # j
    BY <1>0, <1>5, <2>2, OnlyOwn, TapeElsewhere
  <2>. QED BY <2>1, <2>2
<1>. QED BY <1>2, <1>3, <1>4, <1>5 DEF Next

LEMMA TapeInit == Init => TapeInv
<1>. SUFFICES ASSUME Init, NEW i \in Inference PROVE Tape(i)
  BY DEF TapeInv
<1>1. /\ run[i].pc = "idle" /\ run[i].firstTokenAt = FALSE /\ run[i].content = 0
      /\ run[i].terminalEmitted = FALSE /\ streams[i] = NoEntry
  BY DEF Init
<1>. QED BY <1>1 DEF Tape, Recorded, Locals, Early, NoEntry

StreamInv == SafetyInv /\ TapeInv

LEMMA StreamAlways == Spec => []StreamInv
<1>1. Init => StreamInv
  BY SafetyInit, TapeInit DEF StreamInv
<1>2. StreamInv /\ [Next]_vars => StreamInv'
  BY SafetyNext, TapeNext DEF StreamInv
<1>. QED BY <1>1, <1>2, PTL DEF Spec
-----------------------------------------------------------------------------
\* When the closing event of an ended stream names a verdict, both rows hold it
\* and the stored content is the text of the tokens between the first event and
\* the last.
THEOREM StreamsMatchStore == Spec => []StreamMatchesStore
<1>1. ASSUME StreamInv, NEW i \in Inference, streams[i].state = "ended",
             streams[i].buffer[Len(streams[i].buffer)].type # "internal_error"
      PROVE  /\ streams[i].buffer[Len(streams[i].buffer)]
                  = ClosingEvent(run[i].outcome)
             /\ request[i].status = Verdict(run[i].outcome)
             /\ message[i] = [status |-> Verdict(run[i].outcome),
                              content |-> Len(streams[i].buffer) - 2]
  <2>1. /\ Tape(i) /\ Story(i) /\ run[i] \in RunRecord
        /\ message[i] \in [status : {"none", "streaming"} \cup Terminal,
                           content : 0..MaxTokens]
    BY <1>1 DEF StreamInv, SafetyInv, TapeInv, StoryInv, TypeInv, TypeOK, RunType,
                MessageType
  <2>2. Closed(streams[i].buffer, run[i].content, request[i].provider,
               LastEvent(run[i].terminalEmitted, run[i].outcome))
    BY <1>1, <2>1 DEF Tape, Recorded
  <2>3. run[i].content \in Nat
    BY <2>1, BoundAssumption DEF RunRecord
  <2>4. /\ Len(streams[i].buffer) = run[i].content + 2
        /\ streams[i].buffer[Len(streams[i].buffer)]
             = LastEvent(run[i].terminalEmitted, run[i].outcome)
    BY <2>2 DEF Closed
  <2>5. run[i].terminalEmitted = TRUE
    BY <1>1, <2>1, <2>4 DEF LastEvent, Event, RunRecord
  <2>6. /\ request[i].status = Verdict(run[i].outcome)
        /\ message[i].status = Verdict(run[i].outcome)
    BY <2>1, <2>5 DEF Story
  <2>7. message[i].content = Len(streams[i].buffer) - 2
    BY <2>1, <2>3, <2>4, <2>5 DEF Tape, Locals
  <2>8. message[i] = [status |-> message[i].status, content |-> message[i].content]
    BY <2>1
  <2>. QED BY <2>4, <2>5, <2>6, <2>7, <2>8 DEF LastEvent
<1>2. StreamInv => StreamMatchesStore
  BY <1>1 DEF StreamMatchesStore
<1>. QED BY <1>2, StreamAlways, PTL

\* No stream carries tokens of a provider that its row does not name.
THEOREM OneProviderStreams == Spec => []SingleProviderContent
<1>1. ASSUME StreamInv, NEW i \in Inference, NEW k \in DOMAIN streams[i].buffer,
             streams[i].buffer[k].type = "token"
      PROVE  streams[i].buffer[k].provider = request[i].provider
  <2>1. /\ Tape(i) /\ run[i] \in RunRecord /\ streams[i] \in StreamEntry(SseEvent)
    BY <1>1 DEF StreamInv, SafetyInv, TapeInv, TypeInv, TypeOK, RunType
  <2>2. run[i].content \in Nat /\ streams[i].buffer \in Seq(SseEvent)
    BY <2>1, BoundAssumption DEF RunRecord, StreamEntry
  <2>3. k \in 1..Len(streams[i].buffer)
    BY <1>1, <2>2
  <2>4. ASSUME NEW o \in Outcome
        PROVE  LastEvent(TRUE, o).type # "token" /\ LastEvent(FALSE, o).type # "token"
    BY DEF LastEvent, ClosingEvent, Event, Outcome
  <2>5. LastEvent(run[i].terminalEmitted, run[i].outcome).type # "token"
        /\ Event("message_start").type # "token"
    BY <2>1, <2>4 DEF RunRecord, Event
  <2>6. CASE Closed(streams[i].buffer, run[i].content, request[i].provider,
                    LastEvent(run[i].terminalEmitted, run[i].outcome))
    <3>1. k \in 2..(run[i].content + 1)
      <4>1. k # 1 /\ k # run[i].content + 2
        BY <1>1, <2>5, <2>6 DEF Closed
      <4>2. Len(streams[i].buffer) = run[i].content + 2
        BY <2>6 DEF Closed
      <4>. QED BY <2>2, <2>3, <4>1, <4>2
    <3>. QED BY <2>6, <3>1 DEF Closed, Token
  <2>7. CASE Opening(streams[i].buffer, run[i].content, request[i].provider)
    <3>1. k \in 2..(run[i].content + 1)
      <4>1. k # 1
        BY <1>1, <2>5, <2>7 DEF Opening
      <4>2. Len(streams[i].buffer) = run[i].content + 1
        BY <2>7 DEF Opening
      <4>. QED BY <2>2, <2>3, <4>1, <4>2
    <3>. QED BY <2>7, <3>1 DEF Opening, Token
  <2>8. streams[i].state # "absent"
    BY <1>1, <2>1 DEF Tape, Recorded
  <2>. QED BY <2>1, <2>6, <2>7, <2>8 DEF Tape, Recorded, StreamEntry, RunRecord
<1>2. StreamInv => SingleProviderContent
  BY <1>1 DEF SingleProviderContent
<1>. QED BY <1>2, StreamAlways, PTL
-----------------------------------------------------------------------------
(***************************************************************************)
(* CancelStopsOutput: a run that the registry has told to stop while its   *)
(* outcome was open stays below a token count n, and never completes.      *)
(***************************************************************************)
Silenced(i, n) ==
  /\ run[i].pc \notin {"idle", "rejected"}
  /\ run[i].content <= n
  /\ run[i].pc = "markFirstToken" => run[i].content < n
  /\ run[i].pc = "committed" => i \in cancellations.preRegisteredIntent
  /\ run[i].pc \in Early \ {"committed"} => cancellations.entries[i] = "cancelled"
  /\ run[i].outcome # "completed"
  /\ request[i].status # "completed" /\ message[i].status # "completed"

\* The calls that reached the registry in time, and the tokens that they allow.
InTime(c) ==
  /\ call[c].reply = "cancelled" /\ call[c].observed \notin Terminal
  /\ call[c].runAt \in Early
Allowance(c) ==
  call[c].seen + IF call[c].runAt = "markFirstToken" THEN 1 ELSE 0

CancelInv ==
  /\ \A i \in Inference : run[i].pc \in Undecided => message[i].status # "completed"
  /\ \A c \in CancelCall :
       /\ call[c].pc \in {"idle", "read"} => call[c].reply = "none"
       /\ InTime(c) => /\ call[c].target \in Inference
                       /\ Silenced(call[c].target, Allowance(c))

\* What a step of run i does to the registry, as far as i's entry goes.
LEMMA RegistryFacts ==
  ASSUME TypeInv, NEW i \in Inference, NEW j \in Inference
  PROVE  /\ i \in cancellations.preRegisteredIntent =>
              Register(cancellations, i).entries[i] = "cancelled"
         /\ j # i =>
              /\ Register(cancellations, i).entries[j] = cancellations.entries[j]
              /\ Release(cancellations, i).entries[j] = cancellations.entries[j]
              /\ j \in cancellations.preRegisteredIntent =>
                   /\ j \in Register(cancellations, i).preRegisteredIntent
                   /\ j \in Release(cancellations, i).preRegisteredIntent
         /\ cancellations.entries[j] = "cancelled" =>
              RequestCancel(cancellations, i).entries[j] = "cancelled"
         /\ j \in cancellations.preRegisteredIntent =>
              j \in RequestCancel(cancellations, i).preRegisteredIntent
         /\ cancellations.entries[i] = "none" =>
              i \in RequestCancel(cancellations, i).preRegisteredIntent
         /\ cancellations.entries[i] # "none" =>
              RequestCancel(cancellations, i).entries[i] = "cancelled"
BY DEF TypeInv, TypeOK, RegistryType, Register, Release, RequestCancel

LEMMA NotCompleted ==
  ASSUME TypeInv, NEW i \in Inference, run[i].outcome # "completed"
  PROVE  Verdict(run[i].outcome) # "completed"
BY DEF TypeInv, TypeOK, RunType, RunRecord, Outcome, Verdict

\* The steps a silenced run can still take, while its outcome is open ...
LEMMA SilencedOpen ==
  ASSUME SafetyInv, NEW i \in Inference, NEW n \in Nat, Silenced(i, n),
         run[i].pc \in Early, RunStep(i)
  PROVE  Silenced(i, n)'
<1>0. /\ run[i] \in RunRecord /\ run[i].content \in Nat
      /\ request \in RequestType /\ TypeInv
      /\ run[i].outcome = "pending"
  BY BoundAssumption
  DEF SafetyInv, TypeInv, TypeOK, RunType, RunRecord, StoryInv, Story, Early, Undecided
<1>1. CASE BeginRun(i)
  <2>1. /\ run[i].pc = "committed" /\ Goto(i, "loadContext")
        /\ request' = request /\ message' = message
        /\ cancellations' = Register(cancellations, i)
    BY <1>1 DEF BeginRun, database
  <2>2. /\ run'[i].pc = "loadContext" /\ run'[i].outcome = run[i].outcome /\ Keeps(i)
    BY <1>0, <2>1, MovesFacts, KeepsFacts DEF Moves
  <2>3. cancellations'.entries[i] = "cancelled"
    BY <1>0, <2>1, RegistryFacts DEF Silenced
  <2>. QED BY <2>1, <2>2, <2>3 DEF Silenced, Keeps
<1>2. ASSUME NEW o \in {"cancelled", "exception"}, message'[i] = message[i],
             request'[i].status # "completed",
             run'[i].pc = "saveMessage", run'[i].outcome = o, Keeps(i)
      PROVE  Silenced(i, n)'
  BY <1>2 DEF Silenced, Early, Keeps
<1>3. ASSUME message'[i] = message[i], request'[i].status # "completed",
             cancellations' = cancellations,
             run[i].pc # "committed", run'[i].pc = "nextChunk",
             run'[i].outcome = run[i].outcome, run'[i].content <= n
      PROVE  Silenced(i, n)'
  BY <1>3 DEF Silenced, Early
<1>4. run[i].pc = "nextChunk" => cancellations.entries[i] = "cancelled"
  BY DEF Silenced, Early
<1>5. ASSUME Raise(i)
      PROVE  run'[i].pc = "saveMessage" /\ run'[i].outcome = "exception" /\ Keeps(i)
  BY <1>0, <1>5, MovesFacts, KeepsFacts DEF Moves
<1>6. CASE LoadContext(i)
  <2>1. /\ run[i].pc = "loadContext" /\ request' = request /\ message' = message
        /\ cancellations' = cancellations
    BY <1>6 DEF LoadContext, database, registries
  <2>2. CASE Goto(i, "nextChunk")
    <3>1. run'[i].pc = "nextChunk" /\ run'[i].outcome = run[i].outcome /\ Keeps(i)
      BY <1>0, <2>2, MovesFacts, KeepsFacts DEF Moves
    <3>. QED BY <1>3, <2>1, <3>1 DEF Silenced, Keeps
  <2>. QED BY <1>2, <1>5, <1>6, <2>1, <2>2 DEF LoadContext, Silenced
<1>7. CASE ChunkAfterAbort(i)
  <2>1. /\ Finalize(i, "cancelled") /\ request' = request /\ message' = message
    BY <1>7 DEF ChunkAfterAbort, database
  <2>2. run'[i].pc = "saveMessage" /\ run'[i].outcome = "cancelled" /\ Keeps(i)
    BY <1>0, <2>1, MovesFacts, KeepsFacts DEF Moves
  <2>. QED BY <1>2, <2>1, <2>2 DEF Silenced
<1>8. CASE MarkFirstToken(i)
  <2>1. /\ run[i].pc = "markFirstToken" /\ message' = message
        /\ cancellations' = cancellations
        /\ AppendToken(i) \/ Raise(i)
        /\ request'[i] = request[i] \/ request'[i].status = "streaming"
    BY <1>0, <1>8 DEF MarkFirstToken, RequestType
  <2>2. CASE AppendToken(i)
    <3>1. /\ run'[i].pc = "nextChunk" /\ run'[i].outcome = run[i].outcome
          /\ run'[i].content = run[i].content + 1
      BY <1>0, <2>2, MovesFacts, AppendFacts DEF Moves
    <3>2. run'[i].content <= n
      BY <1>0, <2>1, <3>1 DEF Silenced
    <3>3. request'[i].status # "completed"
      BY <2>1 DEF Silenced
    <3>4. message'[i] = message[i] /\ cancellations' = cancellations
      BY <2>1
    <3>5. run[i].pc # "committed" /\ run'[i].pc = "nextChunk"
      BY <2>1, <3>1
    <3>. QED BY <1>3, <3>1, <3>2, <3>3, <3>4, <3>5
  <2>. QED BY <1>2, <1>5, <2>1, <2>2 DEF Silenced
<1>9. CASE StartFallback(i)
  <2>1. /\ run[i].pc = "fallback" /\ message' = message
        /\ cancellations' = cancellations
        /\ SecondAttempt(i, body[i].fallback) \/ Raise(i)
        /\ request'[i] = request[i] \/ request'[i].status = "started"
    BY <1>0, <1>9 DEF StartFallback, RequestType, SecondAttempt, registries
  <2>2. CASE SecondAttempt(i, body[i].fallback)
    <3>. DEFINE r == [run[i] EXCEPT !.pc = "nextChunk", !.onFallback = TRUE,
                                    !.provider = body[i].fallback]
    <3>1. r.pc = "nextChunk" /\ r.outcome = run[i].outcome /\ r.content = run[i].content
      BY <1>0 DEF RunRecord
    <3>2. run'[i] = r
      BY <1>0, <2>2 DEF SecondAttempt, TypeInv, TypeOK, RunType
    <3>. HIDE DEF r
    <3>. QED BY <1>3, <2>1, <3>1, <3>2 DEF Silenced
  <2>. QED BY <1>2, <1>5, <2>1, <2>2 DEF Silenced
<1>10. /\ ~FirstToken(i) /\ ~NextToken(i) /\ ~ChunkCompleted(i) /\ ~ChunkError(i)
  BY <1>4 DEF FirstToken, NextToken, ChunkCompleted, ChunkError, WasCancelled
<1>11. ~SaveMessage(i) /\ ~SaveRequest(i) /\ ~EmitLog(i) /\ ~Finally(i)
  BY DEF Early, SaveMessage, SaveRequest, EmitLog, Finally
<1>. QED BY <1>1, <1>6, <1>7, <1>8, <1>9, <1>10, <1>11 DEF RunStep

\* ... and once it is decided.
LEMMA SilencedDecided ==
  ASSUME TypeInv, NEW i \in Inference, NEW n \in Nat, Silenced(i, n),
         run[i].pc \notin Early, RunStep(i)
  PROVE  Silenced(i, n)'
<1>0. /\ run \in [Inference -> RunRecord] /\ run[i] \in RunRecord
      /\ request \in RequestType /\ message \in MessageType
  BY DEF TypeInv, TypeOK, RunType
<1>1. SaveMessage(i) \/ SaveRequest(i) \/ EmitLog(i) \/ Finally(i)
  BY DEF RunStep, Early, BeginRun, LoadContext, ChunkAfterAbort, FirstToken,
         MarkFirstToken, NextToken, ChunkCompleted, ChunkError, StartFallback
<1>2. Verdict(run[i].outcome) # "completed"
  BY NotCompleted DEF Silenced
<1>3. message'[i].status # "completed" /\ request'[i].status # "completed"
  <2>1. /\ message'[i] = message[i] \/ message'[i].status = Verdict(run[i].outcome)
        /\ request'[i] = request[i] \/ request'[i].status = Verdict(run[i].outcome)
    BY <1>0, <1>1
    DEF SaveMessage, SaveRequest, EmitLog, Finally, database, MessageType, RequestType
  <2>. QED BY <1>2, <2>1 DEF Silenced
<1>4. /\ run'[i].pc \in {"saveMessage", "saveRequest", "emitLog", "finally", "done"}
      /\ run'[i].outcome \in {run[i].outcome, "exception"} /\ Keeps(i)
  <2>1. CASE EmitLog(i)
    BY <1>0, <2>1 DEF EmitLog, RunRecord, Keeps
  <2>2. CASE Raise(i)
    BY <2>2, MovesFacts, KeepsFacts DEF Moves
  <2>3. ASSUME NEW pc \in {"saveRequest", "emitLog", "done"}, Goto(i, pc)
        PROVE  /\ run'[i].pc = pc /\ run'[i].outcome = run[i].outcome /\ Keeps(i)
    BY <2>3, MovesFacts, KeepsFacts DEF Moves
  <2>. QED BY <1>1, <2>1, <2>2, <2>3 DEF SaveMessage, SaveRequest, Finally
<1>. QED BY <1>3, <1>4 DEF Silenced, Early, Keeps

\* Another inference's step, and every step that is not a run's.
LEMMA SilencedElsewhere ==
  ASSUME NEW j \in Inference, NEW n \in Nat, Silenced(j, n),
         run'[j] = run[j], request'[j] = request[j], message'[j] = message[j],
         cancellations.entries[j] = "cancelled" => cancellations'.entries[j] = "cancelled",
         j \in cancellations.preRegisteredIntent => j \in cancellations'.preRegisteredIntent
  PROVE  Silenced(j, n)'
BY DEF Silenced

LEMMA SilencedNext ==
  ASSUME SafetyInv, NEW j \in Inference, NEW n \in Nat, Silenced(j, n), [Next]_vars
  PROVE  Silenced(j, n)'
<1>0. TypeInv
  BY DEF SafetyInv
<1>1. CASE UNCHANGED vars
  BY <1>1, SilencedElsewhere DEF vars
<1>2. CASE Crash
  <2>1. run[j] \in RunRecord
    BY DEF SafetyInv, TypeInv, TypeOK, RunType
  <2>2. /\ run'[j].pc = IF run[j].pc \in Live THEN "lost" ELSE run[j].pc
        /\ run'[j].content = run[j].content /\ run'[j].outcome = run[j].outcome
        /\ request' = request /\ message' = message
    BY <1>2, <2>1 DEF Crash, RunRecord, database
  <2>. QED BY <2>2 DEF Silenced, Early, Live, Streaming
<1>3. ASSUME NEW c \in CancelCall,
             (\E i \in Inference : CancelRead(c, i)) \/ CancelNotFound(c) \/ CancelTerminal(c)
      PROVE  Silenced(j, n)'
  BY <1>3, SilencedElsewhere
  DEF CancelRead, CancelNotFound, CancelTerminal, database, registries
<1>4. ASSUME NEW c \in CancelCall, CancelActive(c)
      PROVE  Silenced(j, n)'
  <2>1. call[c].target \in Inference
    BY <1>4 DEF CancelActive, SafetyInv, TypeInv, CallInv
  <2>2. /\ cancellations' = RequestCancel(cancellations, call[c].target)
        /\ run' = run /\ request' = request /\ message' = message
    BY <1>4 DEF CancelActive, database
  <2>. QED BY <1>0, <2>1, <2>2, RegistryFacts, SilencedElsewhere
<1>5. ASSUME NEW i \in Inference, NEW p \in Provider,
             NEW f \in Provider \cup {NoProvider}, StartInference(i, p, f)
      PROVE  Silenced(j, n)'
  <2>1. i # j /\ cancellations' = cancellations
    BY <1>5 DEF StartInference, Silenced, registries
  <2>. QED BY <1>0, <1>5, <2>1, OnlyOwn, SilencedElsewhere
<1>6. ASSUME NEW i \in Inference, ExpireStream(i)
      PROVE  Silenced(j, n)'
  BY <1>6, SilencedElsewhere DEF ExpireStream, database
<1>7. ASSUME NEW i \in Inference, RunStep(i)
      PROVE  Silenced(j, n)'
  <2>1. CASE i = j
    BY <1>0, <1>7, <2>1, SilencedOpen, SilencedDecided
  <2>2. CASE i # j
    <3>1. \/ cancellations' = cancellations
          \/ cancellations' = Register(cancellations, i)
          \/ cancellations' = Release(cancellations, i)
      BY <1>7
      DEF RunStep, BeginRun, LoadContext, ChunkAfterAbort, FirstToken,
          MarkFirstToken, NextToken, ChunkCompleted, ChunkError, StartFallback,
          SaveMessage, SaveRequest, EmitLog, Finally, registries
    <3>2. /\ cancellations.entries[j] = "cancelled" =>
               cancellations'.entries[j] = "cancelled"
          /\ j \in cancellations.preRegisteredIntent =>
               j \in cancellations'.preRegisteredIntent
      BY <1>0, <2>2, <3>1, RegistryFacts
    <3>3. /\ run'[j] = run[j] /\ request'[j] = request[j] /\ message'[j] = message[j]
      BY <1>0, <1>7, <2>2, OnlyOwn
    <3>. QED BY <3>2, <3>3, SilencedElsewhere
  <2>. QED BY <2>1, <2>2
<1>. QED BY <1>1, <1>2, <1>3, <1>4, <1>5, <1>6, <1>7 DEF Next, CancelReply

\* No message row says completed while the outcome is open.
LEMMA UndecidedNext ==
  ASSUME SafetyInv, CancelInv, [Next]_vars, NEW j \in Inference,
         run'[j].pc \in Undecided
  PROVE  message'[j].status # "completed"
<1>0. TypeInv /\ run[j] \in RunRecord /\ message \in MessageType
  BY DEF SafetyInv, TypeInv, TypeOK, RunType
<1>1. ASSUME run'[j] = run[j], message'[j] = message[j]
      PROVE  message'[j].status # "completed"
  BY <1>1 DEF CancelInv
<1>2. CASE UNCHANGED vars
  BY <1>1, <1>2 DEF vars
<1>3. CASE Crash
  BY <1>0, <1>3 DEF Crash, CancelInv, RunRecord, Undecided, database
<1>4. ASSUME NEW c \in CancelCall,
             (\E i \in Inference : CancelRead(c, i)) \/ CancelReply(c)
      PROVE  message'[j].status # "completed"
  BY <1>1, <1>4 DEF CancelRead, CancelReply, CancelNotFound, CancelTerminal,
                    CancelActive, database
<1>5. ASSUME NEW i \in Inference,
             \/ \E p \in Provider, f \in Provider \cup {NoProvider} :
                  StartInference(i, p, f)
             \/ RunStep(i) \/ ExpireStream(i)
      PROVE  message'[j].status # "completed"
  <2>1. CASE i # j
    BY <1>0, <1>1, <1>5, <2>1, OnlyOwn
  <2>2. ASSUME NEW p \in Provider, NEW f \in Provider \cup {NoProvider},
               StartInference(j, p, f)
        PROVE  message'[j].status # "completed"
    <3>1. run[j].pc = "idle"
      BY <2>2 DEF StartInference
    <3>2. message[j].status # "completed"
      BY <3>1 DEF CancelInv, Undecided
    <3>3. message'[j].status \in {message[j].status, "streaming"}
      BY <1>0, <2>2 DEF StartInference, MessageType
    <3>. QED BY <3>2, <3>3
  <2>3. CASE ExpireStream(j)
    BY <1>1, <2>3 DEF ExpireStream, database
  <2>4. CASE RunStep(j)
    <3>1. CASE SaveMessage(j) \/ SaveRequest(j) \/ EmitLog(j) \/ Finally(j)
      <4>1. run'[j].pc \in {"saveMessage", "saveRequest", "emitLog", "finally", "done"}
        <5>1. CASE EmitLog(j)
          BY <1>0, <5>1 DEF EmitLog, TypeInv, TypeOK, RunType, RunRecord
        <5>2. CASE Raise(j)
          BY <1>0, <5>2, MovesFacts DEF Moves
        <5>3. ASSUME NEW pc \in {"saveRequest", "emitLog", "done"}, Goto(j, pc)
              PROVE  run'[j].pc = pc
          BY <1>0, <5>3, MovesFacts DEF Moves
        <5>. QED BY <3>1, <5>1, <5>2, <5>3 DEF SaveMessage, SaveRequest, Finally
      <4>. QED BY <4>1 DEF Undecided
    <3>2. CASE \/ BeginRun(j) \/ LoadContext(j) \/ ChunkAfterAbort(j) \/ FirstToken(j)
               \/ MarkFirstToken(j) \/ NextToken(j) \/ ChunkCompleted(j)
               \/ ChunkError(j) \/ StartFallback(j)
      <4>1. run[j].pc \in Undecided /\ message' = message
        BY <3>2
        DEF BeginRun, LoadContext, ChunkAfterAbort, FirstToken, MarkFirstToken,
            NextToken, ChunkCompleted, ChunkError, StartFallback, Undecided, database
      <4>. QED BY <4>1 DEF CancelInv
    <3>. QED BY <2>4, <3>1, <3>2 DEF RunStep
  <2>. QED BY <1>5, <2>1, <2>2, <2>3, <2>4
<1>. QED BY <1>2, <1>3, <1>4, <1>5 DEF Next

\* How a step can change a cancel call.
LEMMA CallMoves ==
  ASSUME SafetyInv, NEW c \in CancelCall, [Next]_vars
  PROVE  \/ call'[c] = call[c]
         \/ CancelActive(c)
         \/ call[c].pc = "idle" /\ call'[c].reply = call[c].reply
         \/ call'[c].pc = "replied" /\ call'[c].reply = "not_found"
         \/ /\ call'[c].pc = "replied" /\ call'[c].observed = call'[c].reply
            /\ call'[c].reply \in Terminal
         \/ call[c].pc = "read" /\ call'[c].reply = call[c].reply
<1>0. call \in [CancelCall -> CallRecord] /\ call[c] \in CallRecord
  BY DEF SafetyInv, TypeInv, TypeOK, CallType
<1>1. ASSUME NEW d \in CancelCall, NEW i \in Inference, CancelRead(d, i)
      PROVE  \/ call'[c] = call[c]
             \/ call[c].pc = "idle" /\ call'[c].reply = call[c].reply
  BY <1>0, <1>1 DEF CancelRead, CallRecord
<1>2. ASSUME NEW d \in CancelCall, CancelNotFound(d)
      PROVE  \/ call'[c] = call[c]
             \/ call'[c].pc = "replied" /\ call'[c].reply = "not_found"
  BY <1>0, <1>2 DEF CancelNotFound, CallRecord
<1>3. ASSUME NEW d \in CancelCall, CancelTerminal(d)
      PROVE  \/ call'[c] = call[c]
             \/ /\ call'[c].pc = "replied" /\ call'[c].observed = call'[c].reply
                /\ call'[c].reply \in Terminal
  BY <1>0, <1>3 DEF CancelTerminal, CallRecord
<1>4. ASSUME NEW d \in CancelCall, CancelActive(d)
      PROVE  call'[c] = call[c] \/ CancelActive(c)
  <2>1. CASE d = c
    BY <1>4, <2>1
  <2>2. CASE d # c
    BY <1>0, <1>4, <2>2 DEF CancelActive
  <2>. QED BY <2>1, <2>2
<1>5. CASE Crash
  BY <1>0, <1>5 DEF Crash, CallRecord
<1>6. ASSUME NEW i \in Inference,
             \/ \E p \in Provider, f \in Provider \cup {NoProvider} :
                  StartInference(i, p, f)
             \/ RunStep(i) \/ ExpireStream(i)
      PROVE  call' = call
  BY <1>6
  DEF StartInference, RunStep, ExpireStream, BeginRun, LoadContext, ChunkAfterAbort,
      FirstToken, MarkFirstToken, NextToken, ChunkCompleted, ChunkError, StartFallback,
      SaveMessage, SaveRequest, EmitLog, Finally
<1>7. CASE UNCHANGED vars
  BY <1>7 DEF vars
<1>. QED BY <1>1, <1>2, <1>3, <1>4, <1>5, <1>6, <1>7 DEF Next, CancelReply

\* A cancel that reaches the registry in time silences its run from then on.
LEMMA CancelSilences ==
  ASSUME SafetyInv, CancelInv, NEW c \in CancelCall, CancelActive(c),
         run[call[c].target].pc \in Early
  PROVE  /\ call'[c].target = call[c].target /\ call[c].target \in Inference
         /\ Silenced(call[c].target, Allowance(c))'
<1>0. call \in [CancelCall -> CallRecord] /\ call[c] \in CallRecord /\ TypeInv
  BY DEF SafetyInv, TypeInv, TypeOK, CallType
<1>1. PICK i \in Inference : i = call[c].target
  BY DEF CancelActive, SafetyInv, TypeInv, CallInv
<1>2. /\ run' = run /\ request' = request /\ message' = message
      /\ cancellations' = RequestCancel(cancellations, i)
      /\ call'[c].target = i /\ call'[c].seen = run[i].content
      /\ call'[c].runAt = run[i].pc
  BY <1>0, <1>1 DEF CancelActive, CallRecord, database
<1>3. /\ run[i].pc \in Early /\ run[i].content \in Nat
      /\ run[i].outcome = "pending" /\ request[i].status \notin Terminal
  BY <1>1, BoundAssumption
  DEF SafetyInv, TypeInv, TypeOK, RunType, RunRecord, StoryInv, Story, Early, Undecided
<1>4. message[i].status # "completed"
  BY <1>3 DEF CancelInv, Early, Undecided
<1>5. /\ run[i].pc = "committed" => i \in cancellations'.preRegisteredIntent
      /\ run[i].pc \in Early \ {"committed"} => cancellations'.entries[i] = "cancelled"
  <2>1. cancellations.entries[i] # "none" <=> run[i].pc \in Streaming
    BY DEF SafetyInv, NoLeakedRun
  <2>. QED BY <1>0, <1>2, <2>1, RegistryFacts DEF Early, Streaming
<1>6. /\ run[i].content <= Allowance(c)'
      /\ run[i].pc = "markFirstToken" => run[i].content < Allowance(c)'
  BY <1>2, <1>3 DEF Allowance
<1>7. Silenced(i, Allowance(c))'
  BY <1>2, <1>3, <1>4, <1>5, <1>6 DEF Silenced, Early, Terminal
<1>. QED BY <1>1, <1>2, <1>7

LEMMA CancelNext == SafetyInv /\ CancelInv /\ [Next]_vars => CancelInv'
<1>. SUFFICES ASSUME SafetyInv, CancelInv, [Next]_vars PROVE CancelInv'
  OBVIOUS
<1>0. call \in [CancelCall -> CallRecord]
  BY DEF SafetyInv, TypeInv, TypeOK, CallType
<1>1. \A i \in Inference : run'[i].pc \in Undecided => message'[i].status # "completed"
  BY UndecidedNext
<1>2. ASSUME NEW c \in CancelCall, call'[c].pc \in {"idle", "read"}
      PROVE  call'[c].reply = "none"
  <2>1. ~CancelActive(c)
    BY <1>0, <1>2 DEF CancelActive, CallRecord
  <2>. QED BY <1>2, <2>1, CallMoves DEF CancelInv
<1>3. ASSUME NEW c \in CancelCall, InTime(c)'
      PROVE  /\ call'[c].target \in Inference
             /\ Silenced(call[c].target, Allowance(c))'
  <2>1. CASE call'[c] = call[c]
    <3>1. InTime(c) /\ Allowance(c)' = Allowance(c)
      BY <1>3, <2>1 DEF InTime, Allowance
    <3>2. PICK i \in Inference : i = call[c].target
      BY <3>1 DEF CancelInv
    <3>3. PICK n \in Nat : n = Allowance(c)
      BY <1>0, BoundAssumption DEF CallRecord, Allowance
    <3>4. Silenced(i, n)
      BY <3>1, <3>2, <3>3 DEF CancelInv
    <3>5. Silenced(i, n)'
      BY <3>4, SilencedNext
    <3>. QED BY <2>1, <3>1, <3>2, <3>3, <3>5 DEF Silenced
  <2>2. CASE CancelActive(c)
    <3>1. call'[c].runAt = run[call[c].target].pc
      BY <1>0, <2>2 DEF CancelActive, CallRecord
    <3>2. run[call[c].target].pc \in Early
      BY <1>3, <3>1 DEF InTime
    <3>. QED BY <2>2, <3>2, CancelSilences DEF Silenced
  <2>3. ASSUME call[c].pc \in {"idle", "read"}, call'[c].reply = call[c].reply
        PROVE  FALSE
    BY <1>3, <2>3 DEF InTime, CancelInv
  <2>4. call'[c].reply # "not_found"
    BY <1>3 DEF InTime
  <2>5. call'[c].observed \notin Terminal
    BY <1>3 DEF InTime
  <2>. QED BY <2>1, <2>2, <2>3, <2>4, <2>5, CallMoves
<1>. QED BY <1>1, <1>2, <1>3 DEF CancelInv

LEMMA CancelInit == Init => CancelInv
BY DEF Init, CancelInv, InTime, Early

LEMMA CancelAlways == Spec => []CancelInv
<1>1. SafetyInv /\ CancelInv /\ [Next]_vars => (SafetyInv /\ CancelInv)'
  BY SafetyNext, CancelNext
<1>2. Init => SafetyInv /\ CancelInv
  BY SafetyInit, CancelInit
<1>. QED BY <1>1, <1>2, PTL DEF Spec

\* A cancel that reached the registry before the outcome was decided lets at
\* most one more token out, and the inference never becomes completed.
THEOREM CancelledOutputStops == Spec => []CancelStopsOutput
<1>1. ASSUME CancelInv PROVE CancelStopsOutput
  <2>1. ASSUME NEW c \in CancelCall, InTime(c)
        PROVE  /\ run[call[c].target].content <= Allowance(c)
               /\ request[call[c].target].status # "completed"
               /\ message[call[c].target].status # "completed"
    BY <1>1, <2>1 DEF CancelInv, Silenced
  <2>. QED BY <2>1 DEF CancelStopsOutput, InTime, Allowance, Early
<1>. QED BY <1>1, CancelAlways, PTL
-----------------------------------------------------------------------------
(***************************************************************************)
(* ChatInference implements StreamSource: every step of the code opens,    *)
(* feeds, closes, ends or deletes a stream as StreamSource allows, or      *)
(* leaves the streams alone.                                               *)
(***************************************************************************)
Wire(b) == [k \in DOMAIN b |-> wireType(b[k])]
Heard(i) == [state |-> streams[i].state, buffer |-> Wire(streams[i].buffer)]
HeardStreams == [i \in Inference |-> Heard(i)]

LEMMA WireTyped ==
  ASSUME NEW b \in Seq(SseEvent)
  PROVE  /\ Wire(b) \in Seq(Source!StreamEvent) /\ Len(Wire(b)) = Len(b)
         /\ \A k \in 1..Len(b) : Wire(b)[k] = wireType(b[k])
<1>1. Len(b) \in Nat /\ DOMAIN b = 1..Len(b) /\ b \in [1..Len(b) -> SseEvent]
  BY LenProperties
<1>2. \A e \in SseEvent : wireType(e) \in Source!StreamEvent
  BY DEF wireType, SseEvent, EventType, Source!StreamEvent, Source!ClosingType
<1>3. Wire(b) \in [1..Len(b) -> Source!StreamEvent]
  BY <1>1, <1>2 DEF Wire
<1>. QED BY <1>1, <1>3 DEF Wire

LEMMA WireAppend ==
  ASSUME NEW b \in Seq(SseEvent), NEW e \in SseEvent
  PROVE  Wire(Append(b, e)) = Append(Wire(b), wireType(e))
<1>0. wireType(e) \in Source!StreamEvent
  BY DEF wireType, SseEvent, EventType, Source!StreamEvent, Source!ClosingType
<1>1. Append(b, e) \in Seq(SseEvent) /\ Len(Append(b, e)) = Len(b) + 1
      /\ Append(b, e)[Len(b) + 1] = e
      /\ \A k \in 1..Len(b) : Append(b, e)[k] = b[k]
  OBVIOUS
<1>2. /\ Wire(Append(b, e)) \in Seq(Source!StreamEvent) /\ Len(Wire(Append(b, e))) = Len(b) + 1
      /\ \A k \in 1..(Len(b) + 1) : Wire(Append(b, e))[k] = wireType(Append(b, e)[k])
  BY <1>1, WireTyped
<1>3. /\ Append(Wire(b), wireType(e)) \in Seq(Source!StreamEvent)
      /\ Len(Append(Wire(b), wireType(e))) = Len(b) + 1
      /\ Append(Wire(b), wireType(e))[Len(b) + 1] = wireType(e)
      /\ \A k \in 1..Len(b) : Append(Wire(b), wireType(e))[k] = wireType(b[k])
  BY <1>0, WireTyped
<1>4. ASSUME NEW k \in 1..(Len(b) + 1)
      PROVE  Wire(Append(b, e))[k] = Append(Wire(b), wireType(e))[k]
  <2>1. CASE k = Len(b) + 1
    BY <1>1, <1>2, <1>3, <2>1
  <2>2. CASE k \in 1..Len(b)
    BY <1>1, <1>2, <1>3, <2>2
  <2>3. k = Len(b) + 1 \/ k \in 1..Len(b)
    OBVIOUS
  <2>. QED BY <2>1, <2>2, <2>3
<1>. QED BY <1>2, <1>3, <1>4, SeqEqual

\* A buffer is closed for the subscribers when its last event is, for the run.
LEMMA WireClosed ==
  ASSUME NEW b \in Seq(SseEvent), NEW n \in Nat, NEW p
  PROVE  /\ Opening(b, n, p) => ~Source!Closed(Wire(b)) /\ Len(Wire(b)) = n + 1
         /\ \A e \in SseEvent : Closed(b, n, p, e) /\ e.type \in Closing =>
              Source!Closed(Wire(b))
<1>0. Len(b) \in Nat /\ Wire(b) \in Seq(Source!StreamEvent) /\ Len(Wire(b)) = Len(b)
      /\ \A k \in 1..Len(b) : Wire(b)[k] = wireType(b[k])
  BY WireTyped
<1>1. ASSUME Opening(b, n, p) PROVE ~Source!Closed(Wire(b)) /\ Len(Wire(b)) = n + 1
  <2>1. Len(b) = n + 1 /\ n + 1 \in 1..Len(b)
    BY <1>1 DEF Opening
  <2>2. b[n + 1] = Event("message_start") \/ b[n + 1] = Token(p)
    <3>1. n + 1 = 1 \/ n + 1 \in 2..(n + 1)
      OBVIOUS
    <3>. QED BY <1>1, <3>1 DEF Opening
  <2>3. wireType(b[n + 1]) \in {"message_start", "token"}
    BY <2>2 DEF wireType, Event, Token
  <2>4. Wire(b)[Len(Wire(b))] \in {"message_start", "token"}
    BY <1>0, <2>1, <2>3
  <2>. QED BY <1>0, <2>1, <2>4 DEF Source!Closed, Source!ClosingType
<1>2. ASSUME NEW e \in SseEvent, Closed(b, n, p, e), e.type \in Closing
      PROVE  Source!Closed(Wire(b))
  <2>1. Len(b) = n + 2 /\ n + 2 \in 1..Len(b) /\ b[n + 2] = e
    BY <1>2 DEF Closed
  <2>2. wireType(e) \in Source!ClosingType
    BY <1>2 DEF wireType, Closing, Source!ClosingType
  <2>3. Wire(b)[Len(Wire(b))] \in Source!ClosingType /\ Len(Wire(b)) # 0
    BY <1>0, <2>1, <2>2
  <2>. QED BY <1>0, <2>3 DEF Source!Closed
<1>. QED BY <1>1, <1>2

\* A step that leaves every other stream alone shows as a change of one entry.
LEMMA HeardChange ==
  ASSUME NEW i \in Inference, \A j \in Inference \ {i} : streams'[j] = streams[j]
  PROVE  HeardStreams' = [HeardStreams EXCEPT ![i] = Heard(i)']
<1>1. \A j \in Inference \ {i} : Heard(j)' = Heard(j)
  BY DEF Heard
<1>. QED BY <1>1 DEF HeardStreams

\* The steps of the source, said of one inference's entry.
LEMMA HeardOpen ==
  ASSUME NEW i \in Inference, \A j \in Inference \ {i} : streams'[j] = streams[j],
         streams[i].state = "absent",
         streams'[i] = Published(Opened, Event("message_start"))
  PROVE  Source!OpenStream(i)
<1>1. streams'[i] = [state |-> "open", buffer |-> Append(<<>>, Event("message_start"))]
  BY DEF Published, Opened
<1>2. Event("message_start") \in SseEvent /\ <<>> \in Seq(SseEvent)
  BY EventTyped
<1>3. Wire(Append(<<>>, Event("message_start"))) = Append(Wire(<<>>), "message_start")
  BY <1>2, WireAppend DEF wireType, Event
<1>4. Wire(<<>>) = <<>>
  BY DEF Wire
<1>5. Heard(i)' = Source!Published(Source!Opened, "message_start")
  BY <1>1, <1>3, <1>4 DEF Heard, Source!Published, Source!Opened
<1>6. HeardStreams' = [HeardStreams EXCEPT ![i] = Heard(i)']
  BY HeardChange
<1>. QED BY <1>5, <1>6 DEF Source!OpenStream, HeardStreams, Heard, Wire

\* One more event: the entry is open, its buffer an opening.
LEMMA HeardPublish ==
  ASSUME NEW i \in Inference, \A j \in Inference \ {i} : streams'[j] = streams[j],
         streams[i] \in StreamEntry(SseEvent), streams[i].state = "open",
         NEW e \in SseEvent, streams'[i] = Published(streams[i], e)
  PROVE  HeardStreams' =
           [HeardStreams EXCEPT ![i] = Source!Published(Heard(i), wireType(e))]
<1>1. /\ streams[i].buffer \in Seq(SseEvent)
      /\ streams'[i].state = "open" /\ streams'[i].buffer = Append(streams[i].buffer, e)
  BY DEF Published, StreamEntry
<1>2. Wire(streams'[i].buffer) = Append(Wire(streams[i].buffer), wireType(e))
  BY <1>1, WireAppend
<1>3. Heard(i)' = Source!Published(Heard(i), wireType(e))
  BY <1>1, <1>2 DEF Heard, Source!Published
<1>. QED BY <1>3, HeardChange

\* A token of a run that is reading chunks.
LEMMA SourceToken ==
  ASSUME SafetyInv, NEW i \in Inference, Tape(i), RunStep(i), AppendToken(i),
         run[i].pc \in {"markFirstToken", "nextChunk"}, run[i].content < MaxTokens
  PROVE  Source!PublishToken(i)
<1>0. /\ TypeInv /\ run[i] \in RunRecord /\ streams[i] \in StreamEntry(SseEvent)
      /\ \A j \in Inference \ {i} : streams'[j] = streams[j]
  BY OnlyOwn DEF SafetyInv, TypeInv, TypeOK, RunType
<1>1. /\ streams[i].state = "open" /\ streams[i].buffer \in Seq(SseEvent)
      /\ run[i].content \in Nat
      /\ Opening(streams[i].buffer, run[i].content, request[i].provider)
  BY StreamingFacts DEF Streaming
<1>2. Token(run[i].provider) \in SseEvent
      /\ streams'[i] = Published(streams[i], Token(run[i].provider))
  BY <1>0, AppendFacts, EventTyped DEF RunRecord
<1>3. wireType(Token(run[i].provider)) = "token"
  BY DEF wireType, Token
<1>4. HeardStreams' = [HeardStreams EXCEPT ![i] = Source!Published(Heard(i), "token")]
  BY <1>0, <1>1, <1>2, <1>3, HeardPublish
<1>5. ~Source!Closed(Wire(streams[i].buffer))
      /\ Len(Wire(streams[i].buffer)) <= MaxTokens
  <2>1. ~Source!Closed(Wire(streams[i].buffer))
        /\ Len(Wire(streams[i].buffer)) = run[i].content + 1
    BY <1>1, WireClosed
  <2>2. run[i].content + 1 <= MaxTokens
    BY <1>1, BoundAssumption
  <2>. QED BY <2>1, <2>2
<1>. QED BY <1>1, <1>4, <1>5 DEF Source!PublishToken, HeardStreams, Heard, Wire

LEMMA SourceEmit ==
  ASSUME SafetyInv, NEW i \in Inference, Tape(i), EmitLog(i)
  PROVE  \E e \in Source!ClosingType : Source!PublishClosing(i, e)
<1>0. /\ TypeInv /\ run[i] \in RunRecord /\ streams[i] \in StreamEntry(SseEvent)
      /\ streams \in [Inference -> StreamEntry(SseEvent)] /\ run[i].pc = "emitLog"
  BY DEF SafetyInv, TypeInv, TypeOK, RunType, EmitLog
<1>1. /\ streams[i].state = "open" /\ streams[i].buffer \in Seq(SseEvent)
      /\ run[i].content \in Nat
      /\ Opening(streams[i].buffer, run[i].content, request[i].provider)
  BY <1>0, StreamingFacts DEF Streaming
<1>2. ClosingEvent(run[i].outcome) \in SseEvent
      /\ streams'[i] = Published(streams[i], ClosingEvent(run[i].outcome))
      /\ \A j \in Inference \ {i} : streams'[j] = streams[j]
  BY <1>0, EventTyped DEF RunRecord, EmitLog, Publish
<1>3. PICK e \in Source!ClosingType : e = wireType(ClosingEvent(run[i].outcome))
  BY DEF wireType, ClosingEvent, Event, Source!ClosingType
<1>4. HeardStreams' = [HeardStreams EXCEPT ![i] = Source!Published(Heard(i), e)]
  BY <1>0, <1>1, <1>2, <1>3, HeardPublish
<1>5. ~Source!Closed(Wire(streams[i].buffer))
  BY <1>1, WireClosed
<1>6. Source!PublishClosing(i, e)
  BY <1>1, <1>4, <1>5 DEF Source!PublishClosing, HeardStreams, Heard, Wire
<1>. QED BY <1>6

LEMMA SourceFinally ==
  ASSUME SafetyInv, NEW i \in Inference, Tape(i), Finally(i)
  PROVE  Source!EndStream(i)
<1>0. /\ TypeInv /\ run[i] \in RunRecord /\ streams[i] \in StreamEntry(SseEvent)
      /\ streams \in [Inference -> StreamEntry(SseEvent)] /\ run[i].pc = "finally"
      /\ streams[i].state = "open"
  BY DEF SafetyInv, TypeInv, TypeOK, RunType, Finally, NoLeakedRun, Streaming
<1>1. streams[i].buffer \in Seq(SseEvent) /\ run[i].content \in Nat
  BY <1>0, BoundAssumption DEF StreamEntry, RunRecord
<1>2. HeardStreams' = [HeardStreams EXCEPT ![i] = Heard(i)']
  BY <1>0, HeardChange DEF Finally
<1>3. Wire(streams[i].buffer) \in Seq(Source!StreamEvent)
  BY <1>1, WireTyped
<1>4. CASE run[i].terminalEmitted = TRUE
  <2>1. /\ Closed(streams[i].buffer, run[i].content, request[i].provider,
                  ClosingEvent(run[i].outcome))
    BY <1>0, <1>4 DEF Tape, Recorded, LastEvent
  <2>2. ClosingEvent(run[i].outcome) \in SseEvent
        /\ ClosingEvent(run[i].outcome).type \in Closing
    BY <1>0, EventTyped DEF RunRecord, Outcome, ClosingEvent, Event, Closing
  <2>3. Source!Closed(Wire(streams[i].buffer))
    BY <1>1, <2>1, <2>2, WireClosed
  <2>4. streams'[i].state = "ended" /\ streams'[i].buffer = streams[i].buffer
    BY <1>0, <1>4 DEF Finally, Ended, StreamEntry
  <2>5. Wire(streams[i].buffer) \o <<>> = Wire(streams[i].buffer)
    BY <1>3, ConcatEmptySeq
  <2>6. Heard(i)' = [state |-> "ended", buffer |-> Wire(streams[i].buffer) \o <<>>]
    BY <2>4, <2>5 DEF Heard
  <2>7. Source!LastWords(i) = <<>>
    BY <2>3 DEF Source!LastWords, Wire
  <2>8. Heard(i)' =
          [state |-> "ended", buffer |-> Heard(i).buffer \o Source!LastWords(i)]
    BY <2>6, <2>7 DEF Heard
  <2>9. HeardStreams[i] = Heard(i) /\ Heard(i).state = "open"
    BY <1>0 DEF HeardStreams, Heard
  <2>. QED BY <1>2, <2>8, <2>9 DEF Source!EndStream, HeardStreams, Heard, Wire
<1>5. CASE run[i].terminalEmitted = FALSE
  <2>1. Opening(streams[i].buffer, run[i].content, request[i].provider)
    BY <1>0, <1>5 DEF Tape, Recorded
  <2>2. ~Source!Closed(Wire(streams[i].buffer))
    BY <1>1, <2>1, WireClosed
  <2>3. /\ streams'[i].state = "ended"
        /\ streams'[i].buffer = Append(streams[i].buffer, Event("internal_error"))
    BY <1>0, <1>5 DEF Finally, Ended, Published, StreamEntry
  <2>4. Wire(streams'[i].buffer) = Append(Wire(streams[i].buffer), "error")
    BY <1>1, <2>3, WireAppend, EventTyped DEF wireType, Event
  <2>5. Append(Wire(streams[i].buffer), "error") = Wire(streams[i].buffer) \o <<"error">>
    BY <1>3
  <2>6. Heard(i)' = [state |-> "ended", buffer |-> Wire(streams[i].buffer) \o <<"error">>]
    BY <2>3, <2>4, <2>5 DEF Heard
  <2>7. Source!LastWords(i) = <<"error">>
    BY <2>2 DEF Source!LastWords, Wire
  <2>8. Heard(i)' =
          [state |-> "ended", buffer |-> Heard(i).buffer \o Source!LastWords(i)]
    BY <2>6, <2>7 DEF Heard
  <2>9. HeardStreams[i] = Heard(i) /\ Heard(i).state = "open"
    BY <1>0 DEF HeardStreams, Heard
  <2>. QED BY <1>2, <2>8, <2>9 DEF Source!EndStream, HeardStreams, Heard, Wire
<1>. QED BY <1>0, <1>4, <1>5 DEF RunRecord

LEMMA SourceRun ==
  ASSUME SafetyInv, NEW i \in Inference, Tape(i), RunStep(i)
  PROVE  Source!SourceNext \/ HeardStreams' = HeardStreams
<1>0. TypeInv /\ run[i] \in RunRecord
      /\ streams \in [Inference -> StreamEntry(SseEvent)]
  BY DEF SafetyInv, TypeInv, TypeOK, RunType
<1>1. ASSUME streams' = streams PROVE HeardStreams' = HeardStreams
  BY <1>1 DEF HeardStreams, Heard
<1>2. CASE BeginRun(i)
  <2>1. /\ streams[i].state = "absent"
        /\ streams'[i] = Published(Opened, Event("message_start"))
        /\ \A j \in Inference \ {i} : streams'[j] = streams[j]
    BY <1>0, <1>2 DEF BeginRun, Tape, Locals, NoEntry
  <2>2. Source!OpenStream(i)
    BY <2>1, HeardOpen
  <2>. QED BY <2>2 DEF Source!SourceNext, Source!SourceStep
<1>3. CASE AppendToken(i) /\ run[i].pc \in {"markFirstToken", "nextChunk"}
                          /\ run[i].content < MaxTokens
  <2>1. Source!PublishToken(i)
    BY <1>3, SourceToken
  <2>. QED BY <2>1 DEF Source!SourceNext, Source!SourceStep
<1>4. CASE MarkFirstToken(i)
  <2>1. run[i].pc = "markFirstToken" /\ run[i].content < MaxTokens
    BY <1>0, <1>4 DEF MarkFirstToken, TypeInv, RunInv
  <2>. QED BY <1>1, <1>3, <1>4, <2>1 DEF MarkFirstToken
<1>5. CASE NextToken(i)
  BY <1>3, <1>5 DEF NextToken
<1>6. CASE EmitLog(i)
  <2>1. PICK e \in Source!ClosingType : Source!PublishClosing(i, e)
    BY <1>6, SourceEmit
  <2>. QED BY <2>1 DEF Source!SourceNext, Source!SourceStep
<1>7. CASE Finally(i)
  <2>1. Source!EndStream(i)
    BY <1>7, SourceFinally
  <2>. QED BY <2>1 DEF Source!SourceNext, Source!SourceStep
<1>8. ASSUME \/ LoadContext(i) \/ ChunkAfterAbort(i) \/ FirstToken(i)
             \/ ChunkCompleted(i) \/ ChunkError(i) \/ StartFallback(i)
             \/ SaveMessage(i) \/ SaveRequest(i)
      PROVE  streams' = streams
  BY <1>8
  DEF LoadContext, ChunkAfterAbort, FirstToken, ChunkCompleted, ChunkError,
      StartFallback, SaveMessage, SaveRequest, registries
<1>. QED BY <1>1, <1>2, <1>4, <1>5, <1>6, <1>7, <1>8 DEF RunStep

LEMMA SourceExpire ==
  ASSUME SafetyInv, NEW i \in Inference, ExpireStream(i)
  PROVE  Source!ExpireStream(i)
<1>0. streams \in [Inference -> StreamEntry(SseEvent)]
  BY DEF SafetyInv, TypeInv, TypeOK
<1>1. HeardStreams' = [HeardStreams EXCEPT ![i] = Heard(i)']
  BY <1>0, HeardChange DEF ExpireStream
<1>2. Heard(i)' = [state |-> "absent", buffer |-> <<>>]
  BY <1>0 DEF ExpireStream, NoEntry, Heard, Wire
<1>. QED
  BY <1>1, <1>2
  DEF ExpireStream, Source!ExpireStream, Source!NoEntry, HeardStreams, Heard, Wire

LEMMA SourceCrash == ASSUME Crash PROVE Source!LoseStreams
<1>1. ASSUME NEW i \in Inference
      PROVE  Heard(i)' = [state |-> "absent", buffer |-> <<>>]
  BY DEF Crash, NoEntry, Heard, Wire
<1>2. HeardStreams' = [i \in Inference |-> [state |-> "absent", buffer |-> <<>>]]
  BY <1>1 DEF HeardStreams
<1>. QED BY <1>2 DEF Source!LoseStreams, Source!NoEntry, HeardStreams, Heard, Wire

LEMMA SourceInitial == Init => Source!SourceInit
<1>. SUFFICES ASSUME Init PROVE Source!SourceInit
  OBVIOUS
<1>1. ASSUME NEW i \in Inference
      PROVE  Heard(i) = [state |-> "absent", buffer |-> <<>>]
  BY DEF Init, NoEntry, Heard, Wire
<1>2. HeardStreams = [i \in Inference |-> [state |-> "absent", buffer |-> <<>>]]
  BY <1>1 DEF HeardStreams
<1>. QED BY <1>2 DEF Source!SourceInit, Source!NoEntry, HeardStreams, Heard, Wire

LEMMA SourceAdvance ==
  StreamInv /\ [Next]_vars => Source!SourceNext \/ HeardStreams' = HeardStreams
<1>. SUFFICES ASSUME StreamInv, [Next]_vars
              PROVE  Source!SourceNext \/ HeardStreams' = HeardStreams
  OBVIOUS
<1>1. ASSUME NEW i \in Inference, RunStep(i)
      PROVE  Source!SourceNext \/ HeardStreams' = HeardStreams
  BY <1>1, SourceRun DEF StreamInv, TapeInv
<1>2. ASSUME NEW i \in Inference, ExpireStream(i) PROVE Source!SourceNext
  BY <1>2, SourceExpire DEF StreamInv, Source!SourceNext, Source!SourceStep
<1>3. CASE Crash
  BY <1>3, SourceCrash DEF Source!SourceNext
<1>4. ASSUME \/ UNCHANGED vars
             \/ \E i \in Inference, p \in Provider, f \in Provider \cup {NoProvider} :
                  StartInference(i, p, f)
             \/ \E c \in CancelCall :
                  (\E i \in Inference : CancelRead(c, i)) \/ CancelReply(c)
      PROVE  streams' = streams
  BY <1>4
  DEF vars, StartInference, CancelRead, CancelReply, CancelNotFound, CancelTerminal,
      CancelActive, registries
<1>5. streams' = streams => HeardStreams' = HeardStreams
  BY DEF HeardStreams, Heard
<1>. QED BY <1>1, <1>2, <1>3, <1>4, <1>5 DEF Next

\* The streams of the chat service are those that StreamRelay relies on, with
\* every fault, cancel and crash: message_start first, one closing event, nothing
\* after it, an end only after it, no second opening before the deletion.
THEOREM ChatImplementsSource == Spec => ImplementsSource
<1>1. StreamInv /\ [Next]_vars => [Source!SourceNext]_HeardStreams
  BY SourceAdvance
<1>. QED
  BY <1>1, SourceInitial, StreamAlways, PTL
  DEF Spec, ImplementsSource, Source!SourceSpec, HeardStreams, Heard, Wire
=============================================================================
