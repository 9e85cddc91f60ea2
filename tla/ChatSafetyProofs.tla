-------------------------- MODULE ChatSafetyProofs ---------------------------
(***************************************************************************)
(* Machine-checked proofs about ChatInference, for every set of            *)
(* inferences, providers and cancel calls and every value of the bounds.   *)
(* First the types; then the invariants about rows, verdicts and the two   *)
(* registries, from one inductive invariant (Story ties the place a run    *)
(* has reached to what its rows, its log and its fault count must be);     *)
(* then ToldVerdictIsFinal, for which TellInv adds that a closing event in *)
(* the buffer means that the run has told a verdict, or is over; last, the *)
(* refinement of InferenceLifecycle.                                       *)
(***************************************************************************)
EXTENDS ChatInferenceProperties, TLAPS

\* Each operation of the cancellation registry keeps its type.
LEMMA RegistryTyped ==
  ASSUME NEW reg \in RegistryType, NEW i \in Inference
  PROVE  /\ Register(reg, i) \in RegistryType
         /\ RequestCancel(reg, i) \in RegistryType
         /\ Release(reg, i) \in RegistryType
         /\ EmptyRegistry \in RegistryType
BY DEF RegistryType, Register, RequestCancel, Release, EmptyRegistry

\* Each operation of the stream registry keeps an entry well-formed.
LEMMA EntryTyped ==
  ASSUME NEW E
  PROVE  /\ NoEntry \in StreamEntry(E)
         /\ Opened \in StreamEntry(E)
         /\ \A entry \in StreamEntry(E), event \in E :
              Published(entry, event) \in StreamEntry(E)
         /\ \A entry \in StreamEntry(E) : Ended(entry) \in StreamEntry(E)
BY DEF StreamEntry, NoEntry, Opened, Published, Ended

\* The events that the service builds are well-formed.
LEMMA EventTyped ==
  /\ \A o \in Outcome : ClosingEvent(o) \in SseEvent
  /\ \A p \in Provider \cup {NoProvider} : Token(p) \in SseEvent
  /\ Event("message_start") \in SseEvent
  /\ Event("internal_error") \in SseEvent
  /\ \A o \in Outcome : Verdict(o) \in Terminal
BY DEF ClosingEvent, Token, Event, SseEvent, EventType, Verdict, Terminal, Outcome
-----------------------------------------------------------------------------
\* A token is appended only below the bound: the first one was admitted when
\* its write began, so the bound must be remembered across that await.  A
\* cancel call that has read a row has a target.
RunInv ==
  /\ run \in RunType
  /\ \A i \in Inference : run[i].pc = "markFirstToken" => run[i].content < MaxTokens
CallInv ==
  /\ call \in CallType
  /\ \A c \in CancelCall : call[c].pc = "read" => call[c].target \in Inference
TypeInv == TypeOK /\ RunInv /\ CallInv

StreamsType == [Inference -> StreamEntry(SseEvent)]
FaultsType == [Inference -> 0..MaxFaults]

\* The small steps that the actions share keep the types.
LEMMA SmallStepsTyped ==
  ASSUME TypeInv, NEW i \in Inference
  PROVE  /\ \A pc \in Place \ {"markFirstToken"} : Goto(i, pc) => RunInv'
         /\ \A o \in Outcome : Finalize(i, o) => RunInv'
         /\ Raise(i) => RunInv'
         /\ Fault(i) => faults' \in FaultsType
         /\ \A e \in SseEvent : Publish(i, e) => streams' \in StreamsType
         /\ run[i].content < MaxTokens /\ AppendToken(i) =>
              RunInv' /\ streams' \in StreamsType
<1>0. RunInv /\ faults \in FaultsType /\ streams \in StreamsType
  BY DEF TypeInv, TypeOK, FaultsType, StreamsType
<1>1. ASSUME NEW pc \in Place \ {"markFirstToken"}, Goto(i, pc) PROVE RunInv'
  BY <1>0, <1>1 DEF RunInv, RunType, RunRecord, Goto
<1>2. ASSUME NEW o \in Outcome, Finalize(i, o) PROVE RunInv'
  BY <1>0, <1>2 DEF RunInv, RunType, RunRecord, Finalize, Place, Live, Streaming
<1>3. ASSUME Raise(i) PROVE RunInv'
  <2>1. CASE run[i].outcome = "exception"
    <3>1. run' = [run EXCEPT ![i].pc = "finally"]
      BY <1>3, <2>1 DEF Raise
    <3>. QED BY <1>0, <3>1 DEF RunInv, RunType, RunRecord, Place, Live, Streaming
  <2>2. CASE run[i].outcome # "exception"
    <3>1. run' = [run EXCEPT ![i].pc = "saveMessage", ![i].outcome = "exception"]
      BY <1>0, <1>3, <2>2 DEF Raise, RunInv, RunType, RunRecord
    <3>. QED BY <1>0, <3>1 DEF RunInv, RunType, RunRecord, Place, Live, Streaming, Outcome
  <2>. QED BY <2>1, <2>2
<1>4. Fault(i) => faults' \in FaultsType
  BY <1>0, BoundAssumption DEF Fault, FaultsType
<1>5. ASSUME NEW e \in SseEvent, Publish(i, e) PROVE streams' \in StreamsType
  <2>1. Published(streams[i], e) \in StreamEntry(SseEvent)
    BY <1>0, EntryTyped DEF StreamsType
  <2>. QED BY <1>0, <1>5, <2>1 DEF Publish, StreamsType
<1>6. ASSUME run[i].content < MaxTokens, AppendToken(i)
      PROVE  RunInv' /\ streams' \in StreamsType
  <2>1. run[i].content + 1 \in 0..MaxTokens /\ Token(run[i].provider) \in SseEvent
    BY <1>0, <1>6, EventTyped, BoundAssumption DEF RunInv, RunType, RunRecord
  <2>2. run' = [run EXCEPT ![i].content = run[i].content + 1, ![i].pc = "nextChunk"]
    BY <1>6 DEF AppendToken
  <2> DEFINE r == [run[i] EXCEPT !.content = run[i].content + 1, !.pc = "nextChunk"]
  <2>3. r \in RunRecord /\ r.pc = "nextChunk"
    <3>1. run[i] \in RunRecord
      BY <1>0 DEF RunInv, RunType
    <3>. QED BY <2>1, <3>1 DEF RunRecord, Place, Live, Streaming
  <2>4. run' = [run EXCEPT ![i] = r]
    BY <1>0, <2>2 DEF RunInv, RunType
  <2> HIDE DEF r
  <2>5. RunInv'
    BY <1>0, <2>3, <2>4 DEF RunInv, RunType
  <2>. QED BY <1>5, <1>6, <2>1, <2>5 DEF AppendToken
<1>. QED BY <1>1, <1>2, <1>3, <1>4, <1>5, <1>6

LEMMA TypeInit == Init => TypeInv
<1>. SUFFICES ASSUME Init PROVE TypeInv
  OBVIOUS
<1>1. request \in RequestType /\ message \in MessageType /\ body \in BodyType
  BY BoundAssumption DEF Init, RequestType, MessageType, BodyType
<1>2. run \in RunType /\ call \in CallType
  BY BoundAssumption DEF Init, RunType, RunRecord, CallType, CallRecord, Place, Live, Streaming,
         Outcome
<1>3. cancellations \in RegistryType
  BY DEF Init, RegistryType, EmptyRegistry
<1>4. streams \in [Inference -> StreamEntry(SseEvent)]
  BY DEF Init, NoEntry, StreamEntry
<1>. QED
  BY <1>1, <1>2, <1>3, <1>4, BoundAssumption DEF Init, TypeInv, TypeOK, RunInv, CallInv

LEMMA TypeStart ==
  ASSUME TypeInv, NEW i \in Inference, NEW p \in Provider,
         NEW f \in Provider \cup {NoProvider}, StartInference(i, p, f)
  PROVE  TypeInv'
<1>0. TypeOK
  BY DEF TypeInv
<1>1. PICK ok \in BOOLEAN, applied \in BOOLEAN :
        /\ ok \/ Fault(i)
        /\ ok => UNCHANGED faults
        /\ run' = [run EXCEPT ![i].pc = IF ok THEN "committed" ELSE "rejected",
                             ![i].provider = p]
        /\ request' \in {request,
                         [request EXCEPT ![i] = [status |-> "started", provider |-> p]]}
        /\ message' \in {message, [message EXCEPT ![i].status = "streaming"]}
  BY DEF StartInference
<1>2. request' \in RequestType
  BY <1>0, <1>1 DEF TypeOK, RequestType
<1>3. message' \in MessageType
  BY <1>0, <1>1 DEF TypeOK, MessageType
<1>4. body' \in BodyType
  BY <1>0 DEF TypeOK, BodyType, StartInference
<1>5. PICK pc \in Place \ {"markFirstToken"} :
        run' = [run EXCEPT ![i].pc = pc, ![i].provider = p]
  BY <1>1 DEF Place, Live, Streaming
<1>6. RunInv'
  <2>1. RunInv BY DEF TypeInv
  <2>. QED BY <2>1, <1>5 DEF RunInv, RunType, RunRecord
<1>7. faults' \in [Inference -> 0..MaxFaults]
  BY <1>0, <1>1, BoundAssumption DEF TypeOK, Fault
<1>. QED
  BY <1>0, <1>2, <1>3, <1>4, <1>6, <1>7
  DEF TypeInv, RunInv, CallInv, TypeOK, StartInference, registries

LEMMA TypeBegin ==
  ASSUME TypeInv, NEW i \in Inference, BeginRun(i) \/ LoadContext(i)
  PROVE  TypeInv'
<1>1. CASE BeginRun(i)
  <2>1. RunInv'
    BY <1>1, SmallStepsTyped DEF BeginRun, Place, Live, Streaming
  <2>2. cancellations' \in RegistryType
    BY <1>1, RegistryTyped DEF BeginRun, TypeInv, TypeOK
  <2>3. Published(Opened, Event("message_start")) \in StreamEntry(SseEvent)
    BY EntryTyped, EventTyped
  <2>4. streams' \in [Inference -> StreamEntry(SseEvent)]
    BY <1>1, <2>3 DEF BeginRun, TypeInv, TypeOK
  <2>. QED BY <1>1, <2>1, <2>2, <2>4 DEF BeginRun, TypeInv, RunInv, CallInv, TypeOK, database
<1>2. CASE LoadContext(i)
  <2>1. RunInv'
    BY <1>2, SmallStepsTyped DEF LoadContext, Place, Live, Streaming
  <2>2. faults' \in FaultsType
    BY <1>2, SmallStepsTyped DEF LoadContext, TypeInv, TypeOK, FaultsType
  <2>. QED BY <1>2, <2>1, <2>2
           DEF LoadContext, TypeInv, RunInv, CallInv, TypeOK, FaultsType, database, registries
<1>. QED BY <1>1, <1>2

LEMMA TypeChunk ==
  ASSUME TypeInv, NEW i \in Inference,
         \/ ChunkAfterAbort(i) \/ FirstToken(i) \/ NextToken(i)
         \/ ChunkCompleted(i) \/ ChunkError(i)
  PROVE  TypeInv'
<1>. USE DEF TypeInv, RunInv, CallInv, TypeOK, database, registries
<1>1. CASE ChunkAfterAbort(i)
  <2>1. RunInv' BY <1>1, SmallStepsTyped DEF ChunkAfterAbort, Outcome
  <2>. QED BY <1>1, <2>1 DEF ChunkAfterAbort
<1>2. CASE FirstToken(i)
  <2>1. RunInv' BY <1>2 DEF FirstToken, RunType, RunRecord, Place, Live, Streaming
  <2>. QED BY <1>2, <2>1 DEF FirstToken
<1>3. CASE NextToken(i)
  <2>1. RunInv' /\ streams' \in StreamsType BY <1>3, SmallStepsTyped DEF NextToken
  <2>. QED BY <1>3, <2>1 DEF NextToken, StreamsType
<1>4. CASE ChunkCompleted(i)
  <2>1. RunInv' BY <1>4, SmallStepsTyped DEF ChunkCompleted, Outcome
  <2>. QED BY <1>4, <2>1 DEF ChunkCompleted
<1>5. CASE ChunkError(i)
  <2>1. RunInv'
    BY <1>5, SmallStepsTyped DEF ChunkError, Outcome, Place, Live, Streaming
  <2>. QED BY <1>5, <2>1 DEF ChunkError
<1>. QED BY <1>1, <1>2, <1>3, <1>4, <1>5

SecondAttempt(i, p) ==
  run' = [run EXCEPT ![i].pc = "nextChunk", ![i].onFallback = TRUE,
                     ![i].provider = p]

LEMMA SecondAttemptTyped ==
  ASSUME RunInv, NEW i \in Inference, NEW p \in Provider \cup {NoProvider},
         SecondAttempt(i, p)
  PROVE  RunInv'
<1>. DEFINE r == [run[i] EXCEPT !.pc = "nextChunk", !.onFallback = TRUE,
                               !.provider = p]
<1>1. r \in RunRecord /\ r.pc = "nextChunk"
  <2>1. run[i] \in RunRecord BY DEF RunInv, RunType, RunRecord
  <2>. QED BY <2>1 DEF RunRecord, Place, Live, Streaming
<1>2. run' = [run EXCEPT ![i] = r]
  BY DEF SecondAttempt, RunInv, RunType, RunRecord
<1>. HIDE DEF r
<1>. QED BY <1>1, <1>2 DEF RunInv, RunType, RunRecord

\* The awaited writes of a run's row before its outcome is known.
LEMMA TypeWrite ==
  ASSUME TypeInv, NEW i \in Inference,
         \/ MarkFirstToken(i) \/ StartFallback(i) \/ SaveMessage(i) \/ SaveRequest(i)
  PROVE  TypeInv'
<1>. USE DEF TypeInv, RunInv, CallInv, TypeOK, database, registries, FaultsType, StreamsType
<1>1. CASE MarkFirstToken(i)
  <2>1. request' \in RequestType
    BY <1>1 DEF MarkFirstToken, RequestType
  <2>2. \/ AppendToken(i) /\ UNCHANGED faults
        \/ Raise(i) /\ Fault(i) /\ UNCHANGED streams
    BY <1>1 DEF MarkFirstToken
  <2>3. run[i].content < MaxTokens
    BY <1>1 DEF MarkFirstToken
  <2>4. RunInv' /\ streams' \in StreamsType /\ faults' \in FaultsType
    BY <2>2, <2>3, SmallStepsTyped
  <2>. QED BY <1>1, <2>1, <2>4 DEF MarkFirstToken
<1>2. CASE StartFallback(i)
  <2>1. body[i].fallback \in Provider \cup {NoProvider}
    BY DEF BodyType
  <2>2. request' \in RequestType
    BY <1>2, <2>1 DEF StartFallback, RequestType
  <2>3. RunInv' /\ faults' \in FaultsType
    <3>1. CASE Raise(i) /\ Fault(i)
      BY <3>1, SmallStepsTyped
    <3>2. ASSUME UNCHANGED faults, SecondAttempt(i, body[i].fallback)
          PROVE  RunInv' /\ faults' \in FaultsType
      <4>1. RunInv' BY <3>2, <2>1, SecondAttemptTyped
      <4>. QED BY <3>2, <4>1
    <3>. QED BY <1>2, <3>1, <3>2 DEF StartFallback, SecondAttempt
  <2>. QED BY <1>2, <2>2, <2>3 DEF StartFallback
<1>3. CASE SaveMessage(i)
  <2>1. Verdict(run[i].outcome) \in Terminal /\ run[i].content \in 0..MaxTokens
    BY EventTyped DEF RunType, RunRecord
  <2>2. message' \in MessageType
    BY <1>3, <2>1 DEF SaveMessage, MessageType
  <2>3. RunInv' /\ faults' \in FaultsType
    <3>1. \/ Goto(i, "saveRequest") /\ UNCHANGED faults
          \/ Raise(i) /\ Fault(i)
      BY <1>3 DEF SaveMessage
    <3>. QED BY <3>1, SmallStepsTyped DEF Place, Live, Streaming
  <2>. QED BY <1>3, <2>2, <2>3 DEF SaveMessage
<1>4. CASE SaveRequest(i)
  <2>1. Verdict(run[i].outcome) \in Terminal
    BY EventTyped DEF RunType, RunRecord
  <2>2. request' \in RequestType
    BY <1>4, <2>1 DEF SaveRequest, RequestType
  <2>3. RunInv' /\ faults' \in FaultsType
    <3>1. \/ Goto(i, "emitLog") /\ UNCHANGED faults
          \/ Raise(i) /\ Fault(i)
      BY <1>4 DEF SaveRequest
    <3>. QED BY <3>1, SmallStepsTyped DEF Place, Live, Streaming
  <2>. QED BY <1>4, <2>2, <2>3 DEF SaveRequest
<1>. QED BY <1>1, <1>2, <1>3, <1>4

LEMMA TypeEnd ==
  ASSUME TypeInv, NEW i \in Inference, EmitLog(i) \/ Finally(i) \/ ExpireStream(i)
  PROVE  TypeInv'
<1>. USE DEF TypeInv, TypeOK, database, registries
<1>1. CASE EmitLog(i)
  <2>1. run[i].outcome \in Outcome
    BY DEF RunType, RunRecord
  <2>2. logged' \in [Inference -> SUBSET Terminal]
    BY <1>1, <2>1, EventTyped DEF EmitLog
  <2>3. run' = [run EXCEPT ![i].pc = "finally", ![i].terminalEmitted = TRUE]
    BY <1>1 DEF EmitLog
  <2>4. RunInv'
    <3> DEFINE r == [run[i] EXCEPT !.pc = "finally", !.terminalEmitted = TRUE]
    <3>1. run \in [Inference -> RunRecord]
      BY DEF RunType
    <3>2. r \in RunRecord /\ r.pc = "finally"
      BY <3>1 DEF RunRecord, Place, Live, Streaming
    <3>3. run' = [run EXCEPT ![i] = r]
      BY <2>3, <3>1
    <3> HIDE DEF r
    <3>4. QED
      BY <3>1, <3>2, <3>3 DEF RunInv, RunType
  <2>5. ClosingEvent(run[i].outcome) \in SseEvent
    BY <2>1, EventTyped
  <2>6. streams' \in StreamsType
    BY <1>1, <2>5, SmallStepsTyped DEF EmitLog
  <2>. QED BY <1>1, <2>2, <2>4, <2>6 DEF EmitLog, StreamsType, RunInv, CallInv
<1>2. CASE Finally(i)
  <2>1. RunInv'
    BY <1>2, SmallStepsTyped DEF Finally, Place
  <2>2. cancellations' \in RegistryType
    BY <1>2, RegistryTyped DEF Finally
  <2>3. PICK e \in StreamEntry(SseEvent) : streams' = [streams EXCEPT ![i] = e]
    BY <1>2, EntryTyped, EventTyped DEF Finally
  <2>4. streams' \in [Inference -> StreamEntry(SseEvent)]
    BY <2>3
  <2>. QED BY <1>2, <2>1, <2>2, <2>4 DEF Finally, RunInv, CallInv
<1>3. CASE ExpireStream(i)
  <2>1. streams' \in [Inference -> StreamEntry(SseEvent)]
    BY <1>3, EntryTyped DEF ExpireStream
  <2>. QED BY <1>3, <2>1 DEF ExpireStream, RunInv, CallInv
<1>. QED BY <1>1, <1>2, <1>3

\* What a cancel call records of the run keeps its type.
LEMMA CallTyped ==
  ASSUME CallInv, NEW c \in CancelCall, NEW r \in CallRecord,
         r.pc = "read" => r.target \in Inference,
         call' = [call EXCEPT ![c] = r]
  PROVE  CallInv'
BY DEF CallInv, CallType

LEMMA TypeCancel ==
  ASSUME TypeInv, NEW c \in CancelCall,
         (\E i \in Inference : CancelRead(c, i)) \/ CancelReply(c)
  PROVE  TypeInv'
<1>0. CallInv /\ call[c] \in CallRecord /\ call \in CallType
  BY DEF TypeInv, CallInv, CallType
<1>1. CASE \E i \in Inference : CancelRead(c, i)
  <2>1. PICK i \in Inference : CancelRead(c, i)
    BY <1>1
  <2>. DEFINE r == [call[c] EXCEPT !.pc = "read", !.target = i,
                                   !.observed = request[i].status]
  <2>2. request[i].status \in {"none", "started", "streaming"} \cup Terminal
    BY DEF TypeInv, TypeOK, RequestType
  <2>3. r \in CallRecord /\ r.target = i
    BY <1>0, <2>2 DEF CallRecord
  <2>4. call' = [call EXCEPT ![c] = r]
    BY <1>0, <2>1 DEF CancelRead, CallType
  <2>5. CallInv'
    <3>. HIDE DEF r
    <3>. QED BY <1>0, <2>3, <2>4, CallTyped
  <2>. QED BY <2>1, <2>5
           DEF CancelRead, TypeInv, TypeOK, RunInv, CallInv, database, registries
<1>2. CASE CancelNotFound(c) \/ CancelTerminal(c)
  <2>1. PICK reply \in {"not_found"} \cup Terminal :
          call' = [call EXCEPT ![c].pc = "replied", ![c].reply = reply]
    BY <1>2 DEF CancelNotFound, CancelTerminal
  <2>. DEFINE r == [call[c] EXCEPT !.pc = "replied", !.reply = reply]
  <2>2. r \in CallRecord /\ r.pc = "replied"
    BY <1>0 DEF CallRecord
  <2>3. call' = [call EXCEPT ![c] = r]
    BY <1>0, <2>1 DEF CallType
  <2>4. CallInv'
    <3>. HIDE DEF r
    <3>. QED BY <1>0, <2>2, <2>3, CallTyped
  <2>. QED BY <1>2, <2>4
           DEF CancelNotFound, CancelTerminal, TypeInv, TypeOK, RunInv, CallInv,
               database, registries
<1>3. CASE CancelActive(c)
  <2>. DEFINE i == call[c].target
              r == [call[c] EXCEPT !.pc = "replied", !.reply = "cancelled",
                                   !.runAt = run[i].pc, !.seen = run[i].content]
  <2>1. i \in Inference
    BY <1>0, <1>3 DEF CancelActive, CallInv
  <2>2. run[i] \in RunRecord
    BY <2>1 DEF TypeInv, RunInv, RunType
  <2>3. r \in CallRecord /\ r.pc = "replied"
    <3>1. run[i].pc \in Place /\ run[i].content \in 0..MaxTokens
      BY <2>2 DEF RunRecord
    <3>. HIDE DEF i
    <3>. QED BY <1>0, <3>1 DEF CallRecord, Terminal
  <2>4. call' = [call EXCEPT ![c] = r]
    BY <1>3 DEF CancelActive
  <2>5. CallInv'
    <3>. HIDE DEF r
    <3>. QED BY <1>0, <2>3, <2>4, CallTyped
  <2>6. cancellations' \in RegistryType
    BY <1>3, <2>1, RegistryTyped DEF CancelActive, TypeInv, TypeOK
  <2>. QED BY <1>3, <2>5, <2>6
           DEF CancelActive, TypeInv, TypeOK, RunInv, CallInv, database
<1>. QED BY <1>1, <1>2, <1>3 DEF CancelReply

LEMMA TypeCrash ==
  ASSUME TypeInv, Crash PROVE TypeInv'
<1>. USE DEF TypeInv, TypeOK, database
<1>1. RunInv'
  <2>1. ASSUME NEW i \in Inference
        PROVE  /\ run'[i] \in RunRecord
               /\ run'[i].pc = "markFirstToken" => run'[i].content < MaxTokens
    BY DEF Crash, RunInv, RunType, RunRecord, Place, Live, Streaming
  <2>. QED BY <2>1 DEF Crash, RunInv, RunType
<1>2. cancellations' \in RegistryType
  BY DEF Crash, EmptyRegistry, RegistryType
<1>3. streams' \in [Inference -> StreamEntry(SseEvent)]
  BY EntryTyped DEF Crash
<1>4. CallInv'
  <2>1. ASSUME NEW c \in CancelCall
        PROVE  /\ call'[c] \in CallRecord
               /\ call'[c].pc = "read" => call'[c].target \in Inference
    <3>1. call[c] \in CallRecord BY DEF CallType
    <3>. QED BY <3>1 DEF Crash, CallRecord
  <2>. QED BY <2>1 DEF Crash, CallInv, CallType
<1>5. crashes' \in 0..MaxCrashes
  BY BoundAssumption DEF Crash
<1>. QED BY <1>1, <1>2, <1>3, <1>4, <1>5 DEF Crash, RunInv, CallInv

LEMMA TypeStutter == TypeInv /\ UNCHANGED vars => TypeInv'
BY DEF vars, TypeInv, TypeOK, RunInv, CallInv

LEMMA TypeNext == TypeInv /\ [Next]_vars => TypeInv'
<1>. SUFFICES ASSUME TypeInv, [Next]_vars PROVE TypeInv'
  OBVIOUS
<1>1. CASE UNCHANGED vars
  BY <1>1, TypeStutter
<1>2. CASE Crash
  BY <1>2, TypeCrash
<1>3. ASSUME NEW c \in CancelCall,
             (\E i \in Inference : CancelRead(c, i)) \/ CancelReply(c)
      PROVE  TypeInv'
  BY <1>3, TypeCancel
<1>4. ASSUME NEW i \in Inference,
             \/ \E p \in Provider, f \in Provider \cup {NoProvider} :
                  StartInference(i, p, f)
             \/ RunStep(i) \/ ExpireStream(i)
      PROVE  TypeInv'
  BY <1>4, TypeStart, TypeBegin, TypeChunk, TypeWrite, TypeEnd DEF RunStep
<1>. QED BY <1>1, <1>2, <1>3, <1>4 DEF Next

\* Whatever the interleaving, the faults and the crashes, every row, registry
\* entry, stream buffer and local stays in the set its declaration allows.
THEOREM TypeCorrect == Spec => []TypeOK
<1>1. Init => TypeInv
  BY TypeInit
<1>2. TypeInv /\ [Next]_vars => TypeInv'
  BY TypeNext
<1>3. TypeInv => TypeOK
  BY DEF TypeInv
<1>. QED BY <1>1, <1>2, <1>3, PTL DEF Spec
-----------------------------------------------------------------------------
\* Where the outcome of an inference has not been decided yet.
Undecided == {"idle", "rejected", "committed", "loadContext", "nextChunk",
              "markFirstToken", "fallback"}

\* The finalizers' order (message, row, log, closing event) seen from the
\* place the run has reached, and the faults it took to get there.
Story(i) ==
  LET v == Verdict(run[i].outcome) IN
    /\ run[i].pc \in Undecided =>
         run[i].outcome = "pending" /\ request[i].status \notin Terminal
    /\ request[i].status \in Terminal => message[i].status \in Terminal
    /\ run[i].pc \in {"saveRequest", "emitLog"} \/ run[i].terminalEmitted =>
         message[i].status = v
    /\ run[i].pc = "emitLog" \/ run[i].terminalEmitted => request[i].status = v
    /\ run[i].terminalEmitted => run[i].pc \in {"finally", "done", "lost"}
    /\ logged[i] \subseteq IF run[i].terminalEmitted THEN {v} ELSE {}
    /\ run[i].outcome = "exception" => faults[i] >= 1
    /\ run[i].pc \in {"finally", "done"} /\ ~run[i].terminalEmitted =>
         faults[i] >= 2
StoryInv == \A i \in Inference : Story(i)

SafetyInv == TypeInv /\ StoryInv /\ NoLeakedRun
-----------------------------------------------------------------------------
\* What a step of run i leaves in the locals that Story reads.
Moves(i, pc, outcome, emitted) ==
  /\ run'[i].pc = pc
  /\ run'[i].outcome = outcome
  /\ run'[i].terminalEmitted = emitted
  /\ \A j \in Inference \ {i} : run'[j] = run[j]

LEMMA MovesFacts ==
  ASSUME TypeInv, NEW i \in Inference
  PROVE  /\ \A pc : Goto(i, pc) =>
              Moves(i, pc, run[i].outcome, run[i].terminalEmitted)
         /\ \A o : Finalize(i, o) =>
              Moves(i, "saveMessage", o, run[i].terminalEmitted)
         /\ Raise(i) =>
              \/ /\ run[i].outcome = "exception"
                 /\ Moves(i, "finally", "exception", run[i].terminalEmitted)
              \/ /\ run[i].outcome # "exception"
                 /\ Moves(i, "saveMessage", "exception", run[i].terminalEmitted)
         /\ AppendToken(i) =>
              Moves(i, "nextChunk", run[i].outcome, run[i].terminalEmitted)
         /\ Fault(i) => /\ faults'[i] = faults[i] + 1
                        /\ \A j \in Inference \ {i} : faults'[j] = faults[j]
         /\ faults[i] \in Nat
<1>0. run \in [Inference -> RunRecord] /\ faults \in [Inference -> 0..MaxFaults]
  BY DEF TypeInv, TypeOK, RunType
<1>1. run[i] \in RunRecord
  BY <1>0
<1>2. ASSUME NEW pc, Goto(i, pc)
      PROVE  Moves(i, pc, run[i].outcome, run[i].terminalEmitted)
  BY <1>0, <1>1, <1>2 DEF Goto, Moves, RunRecord
<1>3. ASSUME NEW o, Finalize(i, o)
      PROVE  Moves(i, "saveMessage", o, run[i].terminalEmitted)
  BY <1>0, <1>1, <1>3 DEF Finalize, Moves, RunRecord
<1>4. ASSUME Raise(i), run[i].outcome = "exception"
      PROVE  Moves(i, "finally", "exception", run[i].terminalEmitted)
  BY <1>0, <1>1, <1>4 DEF Raise, Moves, RunRecord
<1>5. ASSUME Raise(i), run[i].outcome # "exception"
      PROVE  Moves(i, "saveMessage", "exception", run[i].terminalEmitted)
  BY <1>0, <1>1, <1>5 DEF Raise, Moves, RunRecord
<1>6. ASSUME AppendToken(i)
      PROVE  Moves(i, "nextChunk", run[i].outcome, run[i].terminalEmitted)
  BY <1>0, <1>1, <1>6 DEF AppendToken, Moves, RunRecord
<1>7. ASSUME Fault(i)
      PROVE  /\ faults'[i] = faults[i] + 1
             /\ \A j \in Inference \ {i} : faults'[j] = faults[j]
  BY <1>0, <1>7 DEF Fault
<1>. QED BY <1>0, <1>2, <1>3, <1>4, <1>5, <1>6, <1>7, BoundAssumption

\* Story reads nothing of the other inferences.
LEMMA StoryElsewhere ==
  ASSUME StoryInv, NEW i \in Inference, Story(i)',
         \A j \in Inference \ {i} :
           /\ run'[j] = run[j] /\ request'[j] = request[j]
           /\ message'[j] = message[j] /\ logged'[j] = logged[j]
           /\ faults'[j] = faults[j]
  PROVE  StoryInv'
<1>1. ASSUME NEW j \in Inference \ {i} PROVE Story(j)'
  BY DEF StoryInv, Story
<1>. QED BY <1>1 DEF StoryInv

LEMMA VerdictTerminal ==
  ASSUME TypeInv, NEW i \in Inference
  PROVE  Verdict(run[i].outcome) \in Terminal
BY EventTyped DEF TypeInv, TypeOK, RunType, RunRecord

LEMMA StoryStart ==
  ASSUME TypeInv, StoryInv, NEW i \in Inference, NEW p \in Provider,
         NEW f \in Provider \cup {NoProvider}, StartInference(i, p, f)
  PROVE  StoryInv'
<1>0. /\ run \in RunType /\ run[i] \in RunRecord
      /\ request \in RequestType /\ message \in MessageType
  BY DEF TypeInv, TypeOK, RunType
<1>1. PICK pc \in {"committed", "rejected"} :
        run' = [run EXCEPT ![i].pc = pc, ![i].provider = p]
  BY DEF StartInference
<1>2. Moves(i, pc, run[i].outcome, run[i].terminalEmitted)
  BY <1>0, <1>1 DEF Moves, RunType, RunRecord
<1>3. run[i].pc = "idle" /\ logged' = logged
  BY DEF StartInference
<1>4. /\ request'[i].status \in {request[i].status, "started"}
      /\ \A j \in Inference \ {i} : request'[j] = request[j]
      /\ \A j \in Inference \ {i} : message'[j] = message[j]
  BY <1>0 DEF StartInference, RequestType, MessageType
<1>5. /\ faults'[i] \in {faults[i], faults[i] + 1}
      /\ \A j \in Inference \ {i} : faults'[j] = faults[j]
  BY MovesFacts DEF StartInference
<1>6. Story(i)'
  BY <1>2, <1>3, <1>4, MovesFacts DEF StoryInv, Story, Moves, Undecided, Terminal
<1>. QED BY <1>2, <1>3, <1>4, <1>5, <1>6, StoryElsewhere DEF Moves

\* The steps of a run that write no row.
LEMMA StoryLocal ==
  ASSUME TypeInv, StoryInv, NEW i \in Inference,
         \/ BeginRun(i) \/ LoadContext(i) \/ ChunkAfterAbort(i) \/ FirstToken(i)
         \/ NextToken(i) \/ ChunkCompleted(i) \/ ChunkError(i) \/ Finally(i)
  PROVE  StoryInv'
<1>. USE DEF database
<1>0. UNCHANGED <<request, message, logged>>
  BY DEF BeginRun, LoadContext, ChunkAfterAbort, FirstToken, NextToken,
         ChunkCompleted, ChunkError, Finally
<1>1. CASE BeginRun(i)
  <2>1. /\ run[i].pc = "committed" /\ faults' = faults
        /\ Moves(i, "loadContext", run[i].outcome, run[i].terminalEmitted)
    BY <1>1, MovesFacts DEF BeginRun
  <2>2. Story(i)'
    BY <1>0, <2>1 DEF StoryInv, Story, Moves, Undecided
  <2>. QED BY <1>0, <2>1, <2>2, StoryElsewhere DEF Moves
<1>2. CASE LoadContext(i)
  <2>1. run[i].pc = "loadContext"
    BY <1>2 DEF LoadContext
  <2>2. CASE Goto(i, "nextChunk") /\ UNCHANGED faults
    <3>1. Moves(i, "nextChunk", run[i].outcome, run[i].terminalEmitted)
      BY <2>2, MovesFacts
    <3>2. Story(i)'
      BY <1>0, <2>1, <2>2, <3>1 DEF StoryInv, Story, Moves, Undecided
    <3>. QED BY <1>0, <2>2, <3>1, <3>2, StoryElsewhere DEF Moves
  <2>3. CASE Raise(i) /\ Fault(i)
    <3>1. run[i].outcome = "pending" /\ ~run[i].terminalEmitted
      BY <2>1 DEF StoryInv, Story, Undecided
    <3>2. Moves(i, "saveMessage", "exception", FALSE)
      BY <2>3, <3>1, MovesFacts DEF TypeInv, TypeOK, RunType, RunRecord
    <3>3. Story(i)'
      BY <1>0, <2>1, <2>3, <3>1, <3>2, MovesFacts
      DEF StoryInv, Story, Moves, Undecided
    <3>. QED BY <1>0, <2>3, <3>2, <3>3, StoryElsewhere, MovesFacts DEF Moves
  <2>. QED BY <1>2, <2>2, <2>3 DEF LoadContext
<1>3. CASE ChunkAfterAbort(i) \/ ChunkCompleted(i) \/ ChunkError(i)
  <2>1. run[i].pc = "nextChunk" /\ faults' = faults
    BY <1>3 DEF ChunkAfterAbort, ChunkCompleted, ChunkError
  <2>2. run[i].outcome = "pending" /\ ~run[i].terminalEmitted
    BY <2>1 DEF StoryInv, Story, Undecided
  <2>3. \/ Goto(i, "fallback")
        \/ \E o \in {"cancelled", "completed", "error"} : Finalize(i, o)
    BY <1>3 DEF ChunkAfterAbort, ChunkCompleted, ChunkError
  <2>4. PICK pc \in {"fallback", "saveMessage"},
             o \in {"pending", "cancelled", "completed", "error"} :
          /\ Moves(i, pc, o, run[i].terminalEmitted)
          /\ pc = "fallback" => o = "pending"
    BY <2>2, <2>3, MovesFacts
  <2>5. Story(i)'
    BY <1>0, <2>1, <2>2, <2>4 DEF StoryInv, Story, Moves, Undecided
  <2>. QED BY <1>0, <2>1, <2>4, <2>5, StoryElsewhere DEF Moves
<1>4. CASE FirstToken(i) \/ NextToken(i)
  <2>1. run[i].pc = "nextChunk" /\ faults' = faults
    BY <1>4 DEF FirstToken, NextToken
  <2>2. PICK pc \in {"markFirstToken", "nextChunk"} :
          Moves(i, pc, run[i].outcome, run[i].terminalEmitted)
    BY <1>4, MovesFacts DEF FirstToken, NextToken, Moves, TypeInv, TypeOK, RunType,
                            RunRecord
  <2>3. Story(i)'
    BY <1>0, <2>1, <2>2 DEF StoryInv, Story, Moves, Undecided
  <2>. QED BY <1>0, <2>1, <2>2, <2>3, StoryElsewhere DEF Moves
<1>5. CASE Finally(i)
  <2>1. /\ run[i].pc = "finally" /\ faults' = faults
        /\ Moves(i, "done", run[i].outcome, run[i].terminalEmitted)
    BY <1>5, MovesFacts DEF Finally
  <2>2. Story(i)'
    BY <1>0, <2>1 DEF StoryInv, Story, Moves, Undecided
  <2>. QED BY <1>0, <2>1, <2>2, StoryElsewhere DEF Moves
<1>. QED BY <1>1, <1>2, <1>3, <1>4, <1>5

\* The steps of a run that write one of its rows, or hand its event to ingestion.
LEMMA StoryWrite ==
  ASSUME TypeInv, StoryInv, NEW i \in Inference,
         \/ MarkFirstToken(i) \/ StartFallback(i) \/ SaveMessage(i)
         \/ SaveRequest(i) \/ EmitLog(i)
  PROVE  StoryInv'
<1>0. /\ run \in RunType /\ run[i] \in RunRecord /\ request \in RequestType
      /\ message \in MessageType /\ logged \in [Inference -> SUBSET Terminal]
  BY DEF TypeInv, TypeOK, RunType
<1>1. CASE MarkFirstToken(i) \/ StartFallback(i)
  <2>1. /\ run[i].pc \in {"markFirstToken", "fallback"}
        /\ message' = message /\ logged' = logged
    BY <1>1 DEF MarkFirstToken, StartFallback
  <2>2. /\ run[i].outcome = "pending" /\ run[i].terminalEmitted = FALSE
        /\ request[i].status \notin Terminal
    BY <1>0, <2>1 DEF StoryInv, Story, Undecided, RunRecord
  <2>3. /\ request'[i].status \in {request[i].status, "started", "streaming"}
        /\ \A j \in Inference \ {i} : request'[j] = request[j]
    BY <1>0, <1>1 DEF MarkFirstToken, StartFallback, RequestType
  <2>4. \/ Raise(i) /\ Fault(i)
        \/ Moves(i, "nextChunk", "pending", FALSE) /\ UNCHANGED faults
    <3>1. CASE MarkFirstToken(i)
      BY <2>2, <3>1, MovesFacts DEF MarkFirstToken
    <3>2. CASE StartFallback(i)
      <4>1. CASE SecondAttempt(i, body[i].fallback)
        <5>. DEFINE r == [run[i] EXCEPT !.pc = "nextChunk", !.onFallback = TRUE,
                                        !.provider = body[i].fallback]
        <5>1. /\ r.pc = "nextChunk" /\ r.outcome = run[i].outcome
              /\ r.terminalEmitted = run[i].terminalEmitted
          BY <1>0 DEF RunRecord
        <5>2. run' = [run EXCEPT ![i] = r]
          BY <1>0, <4>1 DEF SecondAttempt, RunType
        <5>. HIDE DEF r
        <5>3. Moves(i, "nextChunk", "pending", FALSE)
          BY <1>0, <2>2, <5>1, <5>2 DEF Moves, RunType
        <5>4. UNCHANGED faults \/ (Raise(i) /\ Fault(i))
          BY <3>2 DEF StartFallback
        <5>. QED BY <5>3, <5>4
      <4>. QED BY <3>2, <4>1 DEF StartFallback, SecondAttempt
    <3>. QED BY <1>1, <3>1, <3>2
  <2>5. CASE Raise(i) /\ Fault(i)
    <3>1. Moves(i, "saveMessage", "exception", FALSE)
      BY <2>2, <2>5, MovesFacts
    <3>2. Story(i)'
      BY <2>1, <2>2, <2>3, <2>5, <3>1, MovesFacts
      DEF StoryInv, Story, Moves, Undecided, Terminal
    <3>. QED BY <2>1, <2>3, <2>5, <3>1, <3>2, StoryElsewhere, MovesFacts DEF Moves
  <2>6. CASE Moves(i, "nextChunk", "pending", FALSE) /\ UNCHANGED faults
    <3>1. Story(i)'
      BY <2>1, <2>2, <2>3, <2>6 DEF StoryInv, Story, Moves, Undecided, Terminal
    <3>. QED BY <2>1, <2>3, <2>6, <3>1, StoryElsewhere DEF Moves
  <2>. QED BY <2>4, <2>5, <2>6
<1>2. CASE SaveMessage(i)
  <2>1. run[i].pc = "saveMessage" /\ request' = request /\ logged' = logged
    BY <1>2 DEF SaveMessage
  <2>2. /\ message'[i] = message[i] \/ message'[i].status = Verdict(run[i].outcome)
        /\ \A j \in Inference \ {i} : message'[j] = message[j]
    BY <1>0, <1>2 DEF SaveMessage, MessageType
  <2>3. CASE Goto(i, "saveRequest") /\ UNCHANGED faults /\
             message'[i].status = Verdict(run[i].outcome)
    <3>1. Moves(i, "saveRequest", run[i].outcome, run[i].terminalEmitted)
      BY <2>3, MovesFacts
    <3>2. Story(i)'
      BY <2>1, <2>2, <2>3, <3>1, VerdictTerminal
      DEF StoryInv, Story, Moves, Undecided
    <3>. QED BY <2>1, <2>2, <2>3, <3>1, <3>2, StoryElsewhere DEF Moves
  <2>4. CASE Raise(i) /\ Fault(i)
    <3>1. PICK pc \in {"saveMessage", "finally"} :
            /\ Moves(i, pc, "exception", run[i].terminalEmitted)
            /\ pc = "finally" => run[i].outcome = "exception"
      BY <2>4, MovesFacts
    <3>2. ~run[i].terminalEmitted
      BY <2>1 DEF StoryInv, Story
    <3>3. Story(i)'
      BY <2>1, <2>2, <2>4, <3>1, <3>2, VerdictTerminal, MovesFacts
      DEF StoryInv, Story, Moves, Undecided
    <3>. QED BY <2>1, <2>2, <2>4, <3>1, <3>3, StoryElsewhere, MovesFacts DEF Moves
  <2>. QED BY <1>0, <1>2, <2>3, <2>4 DEF SaveMessage, MessageType
<1>3. CASE SaveRequest(i)
  <2>1. run[i].pc = "saveRequest" /\ message' = message /\ logged' = logged
    BY <1>3 DEF SaveRequest
  <2>2. /\ \/ request'[i] = request[i]
           \/ request'[i].status = Verdict(run[i].outcome)
        /\ \A j \in Inference \ {i} : request'[j] = request[j]
    BY <1>0, <1>3 DEF SaveRequest, RequestType
  <2>3. message[i].status = Verdict(run[i].outcome) /\ ~run[i].terminalEmitted
    BY <2>1 DEF StoryInv, Story
  <2>4. CASE Goto(i, "emitLog") /\ UNCHANGED faults /\
             request'[i].status = Verdict(run[i].outcome)
    <3>1. Moves(i, "emitLog", run[i].outcome, run[i].terminalEmitted)
      BY <2>4, MovesFacts
    <3>2. Story(i)'
      BY <2>1, <2>3, <2>4, <3>1, VerdictTerminal
      DEF StoryInv, Story, Moves, Undecided
    <3>. QED BY <2>1, <2>2, <2>4, <3>1, <3>2, StoryElsewhere DEF Moves
  <2>5. CASE Raise(i) /\ Fault(i)
    <3>1. PICK pc \in {"saveMessage", "finally"} :
            /\ Moves(i, pc, "exception", run[i].terminalEmitted)
            /\ pc = "finally" => run[i].outcome = "exception"
      BY <2>5, MovesFacts
    <3>2. Story(i)'
      BY <2>1, <2>2, <2>3, <2>5, <3>1, VerdictTerminal, MovesFacts
      DEF StoryInv, Story, Moves, Undecided
    <3>. QED BY <2>1, <2>2, <2>5, <3>1, <3>2, StoryElsewhere, MovesFacts DEF Moves
  <2>. QED BY <1>0, <1>3, <2>4, <2>5 DEF SaveRequest, RequestType
<1>4. CASE EmitLog(i)
  <2>1. /\ run[i].pc = "emitLog" /\ request' = request /\ message' = message
        /\ faults' = faults
    BY <1>4 DEF EmitLog
  <2>2. Moves(i, "finally", run[i].outcome, TRUE)
    BY <1>0, <1>4 DEF EmitLog, Moves, RunType, RunRecord
  <2>3. /\ logged'[i] \subseteq logged[i] \cup {Verdict(run[i].outcome)}
        /\ \A j \in Inference \ {i} : logged'[j] = logged[j]
    BY <1>0, <1>4 DEF EmitLog
  <2>4. Story(i)'
    BY <2>1, <2>2, <2>3 DEF StoryInv, Story, Moves, Undecided
  <2>. QED BY <2>1, <2>2, <2>3, <2>4, StoryElsewhere DEF Moves
<1>. QED BY <1>1, <1>2, <1>3, <1>4

LEMMA StoryNext == TypeInv /\ StoryInv /\ [Next]_vars => StoryInv'
<1>. SUFFICES ASSUME TypeInv, StoryInv, [Next]_vars PROVE StoryInv'
  OBVIOUS
<1>1. CASE UNCHANGED <<run, request, message, logged, faults>>
  BY <1>1 DEF StoryInv, Story
<1>2. CASE Crash
  <2>1. UNCHANGED <<request, message, logged, faults>>
    BY <1>2 DEF Crash, database
  <2>2. ASSUME NEW i \in Inference
        PROVE  /\ run'[i].pc \in {run[i].pc, "lost"}
               /\ run'[i].outcome = run[i].outcome
               /\ run'[i].terminalEmitted = run[i].terminalEmitted
    <3>1. run[i] \in RunRecord BY DEF TypeInv, TypeOK, RunType
    <3>. QED BY <1>2, <3>1 DEF Crash, RunRecord
  <2>3. ASSUME NEW i \in Inference PROVE Story(i)'
    BY <2>1, <2>2 DEF StoryInv, Story, Undecided
  <2>. QED BY <2>3 DEF StoryInv
<1>3. ASSUME NEW c \in CancelCall,
             (\E i \in Inference : CancelRead(c, i)) \/ CancelReply(c)
      PROVE  StoryInv'
  BY <1>1, <1>3
  DEF CancelRead, CancelReply, CancelNotFound, CancelTerminal, CancelActive, database
<1>4. ASSUME NEW i \in Inference, ExpireStream(i) PROVE StoryInv'
  BY <1>1, <1>4 DEF ExpireStream, database
<1>5. ASSUME NEW i \in Inference, NEW p \in Provider,
             NEW f \in Provider \cup {NoProvider}, StartInference(i, p, f)
      PROVE  StoryInv'
  BY <1>5, StoryStart
<1>6. ASSUME NEW i \in Inference, RunStep(i) PROVE StoryInv'
  BY <1>6, StoryLocal, StoryWrite DEF RunStep
<1>7. CASE UNCHANGED vars
  BY <1>1, <1>7 DEF vars
<1>. QED BY <1>2, <1>3, <1>4, <1>5, <1>6, <1>7 DEF Next
-----------------------------------------------------------------------------
\* The two registries hold exactly the runs in progress: NoLeakedRun, one
\* inference at a time.
Present(i) ==
  /\ cancellations.entries[i] # "none" <=> run[i].pc \in Streaming
  /\ streams[i].state = "open" <=> run[i].pc \in Streaming

LEMMA PresentElsewhere ==
  ASSUME NoLeakedRun, NEW i \in Inference, Present(i)',
         \A j \in Inference \ {i} :
           /\ run'[j].pc = run[j].pc
           /\ cancellations'.entries[j] = cancellations.entries[j]
           /\ streams'[j].state = streams[j].state
  PROVE  NoLeakedRun'
BY DEF NoLeakedRun, Present

\* Neither publishing nor ending touches an entry of another state.
LEMMA EntryState ==
  ASSUME NEW E, NEW entry \in StreamEntry(E), NEW event
  PROVE  /\ Published(entry, event).state = entry.state
         /\ Ended(entry).state \in {"absent", "ended"}
         /\ Ended(Published(entry, event)).state \in {"absent", "ended"}
         /\ Opened.state = "open" /\ Published(Opened, event).state = "open"
         /\ NoEntry.state = "absent"
BY DEF StreamEntry, Published, Ended, Opened, NoEntry

\* A step of a run between its first and its last await.
LEMMA PresentMiddle ==
  ASSUME TypeInv, NoLeakedRun, NEW i \in Inference,
         \/ LoadContext(i) \/ ChunkAfterAbort(i) \/ FirstToken(i)
         \/ MarkFirstToken(i) \/ NextToken(i) \/ ChunkCompleted(i)
         \/ ChunkError(i) \/ StartFallback(i) \/ SaveMessage(i)
         \/ SaveRequest(i) \/ EmitLog(i)
  PROVE  NoLeakedRun'
<1>0. /\ run \in [Inference -> RunRecord]
      /\ streams \in [Inference -> StreamEntry(SseEvent)]
  BY DEF TypeInv, TypeOK, RunType
<1>1. run[i].pc \in Streaming /\ cancellations' = cancellations
  BY DEF LoadContext, ChunkAfterAbort, FirstToken, MarkFirstToken, NextToken,
         ChunkCompleted, ChunkError, StartFallback, SaveMessage, SaveRequest,
         EmitLog, registries, Streaming
<1>2. /\ run'[i].pc \in Streaming
      /\ \A j \in Inference \ {i} : run'[j] = run[j]
  <2>1. CASE \/ \E pc \in Streaming : Goto(i, pc)
             \/ \E o : Finalize(i, o)
             \/ Raise(i) \/ AppendToken(i)
    BY <2>1, MovesFacts DEF Moves, Streaming
  <2>2. CASE FirstToken(i) \/ EmitLog(i)
    BY <1>0, <2>2 DEF FirstToken, EmitLog, Streaming, RunRecord
  <2>3. CASE SecondAttempt(i, body[i].fallback)
    <3>. DEFINE r == [run[i] EXCEPT !.pc = "nextChunk", !.onFallback = TRUE,
                                    !.provider = body[i].fallback]
    <3>1. r.pc = "nextChunk" /\ run' = [run EXCEPT ![i] = r]
      BY <1>0, <2>3 DEF SecondAttempt, RunRecord
    <3>. HIDE DEF r
    <3>. QED BY <1>0, <3>1 DEF Streaming
  <2>. QED BY <2>1, <2>2, <2>3
           DEF LoadContext, ChunkAfterAbort, MarkFirstToken, NextToken,
               ChunkCompleted, ChunkError, StartFallback, SaveMessage, SaveRequest,
               SecondAttempt, Streaming
<1>3. \/ streams' = streams
      \/ \E e : streams' = [streams EXCEPT ![i] = Published(@, e)]
  BY DEF LoadContext, ChunkAfterAbort, FirstToken, MarkFirstToken, NextToken,
         ChunkCompleted, ChunkError, StartFallback, SaveMessage, SaveRequest,
         EmitLog, AppendToken, Publish, registries
<1>4. \A j \in Inference : streams'[j].state = streams[j].state
  BY <1>0, <1>3, EntryState
<1>5. Present(i)'
  BY <1>1, <1>2, <1>4 DEF NoLeakedRun, Present
<1>. QED BY <1>1, <1>2, <1>4, <1>5, PresentElsewhere

LEMMA NoLeakNext == TypeInv /\ NoLeakedRun /\ [Next]_vars => NoLeakedRun'
<1>. SUFFICES ASSUME TypeInv, NoLeakedRun, [Next]_vars PROVE NoLeakedRun'
  OBVIOUS
<1>0. /\ run \in [Inference -> RunRecord] /\ cancellations \in RegistryType
      /\ streams \in [Inference -> StreamEntry(SseEvent)]
  BY DEF TypeInv, TypeOK, RunType
<1>1. ASSUME UNCHANGED <<run, registries>> PROVE NoLeakedRun'
  BY <1>1 DEF NoLeakedRun, registries
<1>2. CASE UNCHANGED vars
  BY <1>1, <1>2 DEF vars, registries
<1>3. CASE Crash
  <2>1. ASSUME NEW i \in Inference PROVE Present(i)'
    <3>1. run'[i].pc \notin Streaming
      BY <1>0, <1>3 DEF Crash, Live, RunRecord, Streaming
    <3>. QED BY <1>3, <3>1 DEF Crash, EmptyRegistry, NoEntry, Present
  <2>. QED BY <2>1 DEF NoLeakedRun, Present
<1>4. ASSUME NEW c \in CancelCall,
             \/ \E i \in Inference : CancelRead(c, i)
             \/ CancelNotFound(c) \/ CancelTerminal(c)
      PROVE  NoLeakedRun'
  BY <1>1, <1>4 DEF CancelRead, CancelNotFound, CancelTerminal
<1>5. ASSUME NEW c \in CancelCall, CancelActive(c) PROVE NoLeakedRun'
  <2>1. call[c].target \in Inference
    BY <1>5 DEF CancelActive, TypeInv, CallInv
  <2>2. \A j \in Inference :
          cancellations'.entries[j] = "none" <=> cancellations.entries[j] = "none"
    BY <1>0, <1>5, <2>1 DEF CancelActive, RequestCancel, RegistryType
  <2>. QED BY <1>5, <2>2 DEF CancelActive, NoLeakedRun
<1>6. ASSUME NEW i \in Inference, NEW p \in Provider,
             NEW f \in Provider \cup {NoProvider}, StartInference(i, p, f)
      PROVE  NoLeakedRun'
  <2>1. run[i].pc = "idle" /\ UNCHANGED registries
    BY <1>6 DEF StartInference
  <2>2. PICK pc \in {"committed", "rejected"} :
          run' = [run EXCEPT ![i].pc = pc, ![i].provider = p]
    BY <1>6 DEF StartInference
  <2>3. run'[i].pc = pc /\ \A j \in Inference \ {i} : run'[j] = run[j]
    BY <1>0, <2>2 DEF RunRecord
  <2>4. Present(i)'
    BY <2>1, <2>3 DEF NoLeakedRun, Present, registries, Streaming
  <2>. QED BY <2>1, <2>3, <2>4, PresentElsewhere DEF registries
<1>7. ASSUME NEW i \in Inference, ExpireStream(i) PROVE NoLeakedRun'
  BY <1>0, <1>7, EntryState DEF ExpireStream, NoLeakedRun, NoEntry
<1>8. ASSUME NEW i \in Inference, BeginRun(i) PROVE NoLeakedRun'
  <2>1. Moves(i, "loadContext", run[i].outcome, run[i].terminalEmitted)
    BY <1>8, MovesFacts DEF BeginRun
  <2>2. /\ cancellations'.entries[i] # "none"
        /\ \A j \in Inference \ {i} :
             cancellations'.entries[j] = cancellations.entries[j]
    BY <1>0, <1>8 DEF BeginRun, Register, RegistryType
  <2>3. /\ streams'[i].state = "open"
        /\ \A j \in Inference \ {i} : streams'[j] = streams[j]
    BY <1>0, <1>8, EntryState DEF BeginRun
  <2>4. Present(i)'
    BY <2>1, <2>2, <2>3 DEF Moves, Present, Streaming
  <2>. QED BY <2>1, <2>2, <2>3, <2>4, PresentElsewhere DEF Moves
<1>9. ASSUME NEW i \in Inference, Finally(i) PROVE NoLeakedRun'
  <2>1. Moves(i, "done", run[i].outcome, run[i].terminalEmitted)
    BY <1>9, MovesFacts DEF Finally
  <2>2. /\ cancellations'.entries[i] = "none"
        /\ \A j \in Inference \ {i} :
             cancellations'.entries[j] = cancellations.entries[j]
    BY <1>0, <1>9 DEF Finally, Release, RegistryType
  <2>3. /\ streams'[i].state # "open"
        /\ \A j \in Inference \ {i} : streams'[j] = streams[j]
    BY <1>0, <1>9, EntryState DEF Finally
  <2>4. Present(i)'
    BY <2>1, <2>2, <2>3 DEF Moves, Present, Streaming
  <2>. QED BY <2>1, <2>2, <2>3, <2>4, PresentElsewhere DEF Moves
<1>10. ASSUME NEW i \in Inference, RunStep(i) PROVE NoLeakedRun'
  BY <1>8, <1>9, <1>10, PresentMiddle DEF RunStep
<1>. QED BY <1>2, <1>3, <1>4, <1>5, <1>6, <1>7, <1>10 DEF Next, CancelReply
-----------------------------------------------------------------------------
LEMMA SafetyInit == Init => SafetyInv
<1>. SUFFICES ASSUME Init PROVE SafetyInv
  OBVIOUS
<1>1. TypeInv
  BY TypeInit
<1>2. StoryInv
  BY BoundAssumption DEF Init, StoryInv, Story, Undecided, Terminal
<1>3. NoLeakedRun
  BY DEF Init, NoLeakedRun, EmptyRegistry, NoEntry, Streaming
<1>. QED BY <1>1, <1>2, <1>3 DEF SafetyInv

LEMMA SafetyNext == SafetyInv /\ [Next]_vars => SafetyInv'
BY TypeNext, StoryNext, NoLeakNext DEF SafetyInv

\* SafetyInv implies the four invariants that the runs check.
LEMMA SafetyImplies ==
  SafetyInv => /\ SettledMessageFirst /\ LoggedEventMatchesRow
               /\ OneFaultTolerated /\ NoLeakedRun
<1>. SUFFICES ASSUME SafetyInv
              PROVE  /\ SettledMessageFirst /\ LoggedEventMatchesRow
                     /\ OneFaultTolerated /\ NoLeakedRun
  OBVIOUS
<1>1. SettledMessageFirst
  BY DEF SafetyInv, StoryInv, Story, SettledMessageFirst
<1>2. LoggedEventMatchesRow
  BY DEF SafetyInv, StoryInv, Story, LoggedEventMatchesRow
<1>3. OneFaultTolerated
  <2>1. ASSUME NEW i \in Inference, run[i].pc = "done", faults[i] <= 1
        PROVE  /\ run[i].terminalEmitted
               /\ request[i].status \in Terminal
               /\ message[i].status = request[i].status
    <3>1. Story(i) /\ faults[i] \in Nat /\ Verdict(run[i].outcome) \in Terminal
      BY VerdictTerminal, MovesFacts DEF SafetyInv, StoryInv
    <3>2. run[i].terminalEmitted
      BY <2>1, <3>1 DEF Story
    <3>. QED BY <3>1, <3>2 DEF Story
  <2>. QED BY <2>1 DEF OneFaultTolerated
<1>. QED BY <1>1, <1>2, <1>3 DEF SafetyInv

LEMMA SafetyAlways == Spec => []SafetyInv
BY SafetyInit, SafetyNext, PTL DEF Spec

\* No reader and no crash finds a finished inference whose message is still
\* streaming: every finalizer settles the message row before the inference row.
THEOREM MessageSettledFirst == Spec => []SettledMessageFirst
BY SafetyAlways, SafetyImplies, PTL

\* An event handed to ingestion says what the row says, also when the catch
\* block rewrites a row that a finalizer had already written.
THEOREM LogMatchesRow == Spec => []LoggedEventMatchesRow
BY SafetyAlways, SafetyImplies, PTL

\* One failing database call never costs an inference its verdict.
THEOREM OneFaultIsTolerated == Spec => []OneFaultTolerated
BY SafetyAlways, SafetyImplies, PTL

\* The registries hold an entry for a run exactly while it is in progress.
THEOREM NothingLeaks == Spec => []NoLeakedRun
BY SafetyAlways, SafetyImplies, PTL
-----------------------------------------------------------------------------
HasClosing(entry) ==
  \E k \in DOMAIN entry.buffer : entry.buffer[k].type \in Closing
TellInv == \A i \in Inference : HasClosing(streams[i]) => Over(i)

\* Only a closing event makes a buffer have one.
LEMMA ClosingFacts ==
  ASSUME NEW E, NEW entry \in StreamEntry(E), NEW event,
         HasClosing(Published(entry, event))
  PROVE  HasClosing(entry) \/ event.type \in Closing
<1>1. CASE entry.state = "open"
  <2>1. /\ entry.buffer \in Seq(E)
        /\ Published(entry, event).buffer = Append(entry.buffer, event)
    BY <1>1 DEF StreamEntry, Published
  <2>2. PICK k \in 1..(Len(entry.buffer) + 1) :
          Append(entry.buffer, event)[k].type \in Closing
    <3>1. DOMAIN Append(entry.buffer, event) = 1..(Len(entry.buffer) + 1)
      BY <2>1
    <3>. QED BY <2>1, <3>1 DEF HasClosing
  <2>3. CASE k = Len(entry.buffer) + 1
    BY <2>1, <2>2, <2>3
  <2>4. CASE k \in 1..Len(entry.buffer)
    BY <2>1, <2>2, <2>4 DEF HasClosing
  <2>. QED BY <2>1, <2>2, <2>3, <2>4
<1>2. CASE entry.state # "open"
  BY <1>2 DEF Published
<1>. QED BY <1>1, <1>2

LEMMA FreshEntries ==
  /\ ~HasClosing(NoEntry)
  /\ ~HasClosing(Published(Opened, Event("message_start")))
<1>1. NoEntry \in StreamEntry(SseEvent) /\ Opened \in StreamEntry(SseEvent)
  BY EntryTyped
<1>2. ~HasClosing(NoEntry) /\ ~HasClosing(Opened)
  BY DEF HasClosing, NoEntry, Opened
<1>3. Event("message_start").type \notin Closing
  BY DEF Event, Closing
<1>. QED BY <1>1, <1>2, <1>3, ClosingFacts
-----------------------------------------------------------------------------
\* What a step of run i does to the facts that TellInv relates.
StepEffect(i) ==
  /\ Over(i) => Over(i)'
  /\ \A j \in Inference \ {i} : run'[j] = run[j] /\ streams'[j] = streams[j]
  /\ \/ streams'[i] = streams[i]
     \/ streams'[i] = Published(streams[i], Token(run[i].provider))
     \/ streams'[i] = Published(Opened, Event("message_start"))
     \/ Over(i)'

\* Before its last two steps, a run moves on and tells nothing.
LEMMA MiddleEffect ==
  ASSUME TypeInv, NEW i \in Inference,
         \/ LoadContext(i) \/ ChunkAfterAbort(i) \/ FirstToken(i)
         \/ MarkFirstToken(i) \/ NextToken(i) \/ ChunkCompleted(i)
         \/ ChunkError(i) \/ StartFallback(i) \/ SaveMessage(i) \/ SaveRequest(i)
  PROVE  StepEffect(i)
<1>0. /\ run \in [Inference -> RunRecord]
      /\ streams \in [Inference -> StreamEntry(SseEvent)]
  BY DEF TypeInv, TypeOK, RunType
<1>1. run[i].pc # "done"
  BY DEF LoadContext, ChunkAfterAbort, FirstToken, MarkFirstToken, NextToken,
         ChunkCompleted, ChunkError, StartFallback, SaveMessage, SaveRequest
<1>2. /\ run'[i].terminalEmitted = run[i].terminalEmitted
      /\ \A j \in Inference \ {i} : run'[j] = run[j]
  <2>1. CASE \/ \E pc : Goto(i, pc)
             \/ \E o : Finalize(i, o)
             \/ Raise(i) \/ AppendToken(i)
    BY <2>1, MovesFacts DEF Moves
  <2>2. CASE FirstToken(i)
    BY <1>0, <2>2 DEF FirstToken, RunRecord
  <2>3. CASE SecondAttempt(i, body[i].fallback)
    <3>. DEFINE r == [run[i] EXCEPT !.pc = "nextChunk", !.onFallback = TRUE,
                                    !.provider = body[i].fallback]
    <3>1. /\ r.terminalEmitted = run[i].terminalEmitted
          /\ run' = [run EXCEPT ![i] = r]
      BY <1>0, <2>3 DEF SecondAttempt, RunRecord
    <3>. HIDE DEF r
    <3>. QED BY <1>0, <3>1
  <2>. QED BY <2>1, <2>2, <2>3
           DEF LoadContext, ChunkAfterAbort, MarkFirstToken, NextToken,
               ChunkCompleted, ChunkError, StartFallback, SaveMessage, SaveRequest,
               SecondAttempt
<1>3. \/ streams' = streams
      \/ streams' = [streams EXCEPT ![i] = Published(@, Token(run[i].provider))]
  BY DEF LoadContext, ChunkAfterAbort, FirstToken, MarkFirstToken, NextToken,
         ChunkCompleted, ChunkError, StartFallback, SaveMessage, SaveRequest,
         AppendToken, Publish, registries
<1>4. /\ \A j \in Inference \ {i} : streams'[j] = streams[j]
      /\ \/ streams'[i] = streams[i]
         \/ streams'[i] = Published(streams[i], Token(run[i].provider))
  BY <1>0, <1>3
<1>. QED BY <1>1, <1>2, <1>4 DEF StepEffect, Over

LEMMA RunEffect ==
  ASSUME TypeInv, NEW i \in Inference, RunStep(i)
  PROVE  StepEffect(i)
<1>0. /\ run \in [Inference -> RunRecord]
      /\ streams \in [Inference -> StreamEntry(SseEvent)]
  BY DEF TypeInv, TypeOK, RunType
<1>1. CASE BeginRun(i)
  <2>1. Moves(i, "loadContext", run[i].outcome, run[i].terminalEmitted)
    BY <1>1, MovesFacts DEF BeginRun
  <2>2. /\ run[i].pc # "done"
        /\ streams'[i] = Published(Opened, Event("message_start"))
        /\ \A j \in Inference \ {i} : streams'[j] = streams[j]
    BY <1>0, <1>1 DEF BeginRun
  <2>. QED BY <2>1, <2>2 DEF StepEffect, Over, Moves
<1>2. CASE EmitLog(i)
  <2>1. Moves(i, "finally", run[i].outcome, TRUE)
    BY <1>0, <1>2 DEF EmitLog, Moves, RunRecord
  <2>2. \A j \in Inference \ {i} : streams'[j] = streams[j]
    BY <1>0, <1>2 DEF EmitLog, Publish
  <2>. QED BY <2>1, <2>2 DEF StepEffect, Over, Moves
<1>3. CASE Finally(i)
  <2>1. Moves(i, "done", run[i].outcome, run[i].terminalEmitted)
    BY <1>3, MovesFacts DEF Finally
  <2>2. \A j \in Inference \ {i} : streams'[j] = streams[j]
    BY <1>0, <1>3 DEF Finally
  <2>. QED BY <2>1, <2>2 DEF StepEffect, Over, Moves
<1>. QED BY <1>1, <1>2, <1>3, MiddleEffect DEF RunStep
-----------------------------------------------------------------------------
\* No step makes a run that is over resume, and none deletes what was told
\* without leaving the run over or its buffer empty.
LEMMA TellNext == TypeInv /\ TellInv /\ [Next]_vars => TellInv'
<1>. SUFFICES ASSUME TypeInv, TellInv, [Next]_vars PROVE TellInv'
  OBVIOUS
<1>0. /\ run \in [Inference -> RunRecord]
      /\ streams \in [Inference -> StreamEntry(SseEvent)]
  BY DEF TypeInv, TypeOK, RunType
<1>1. ASSUME UNCHANGED <<run, streams>> PROVE TellInv'
  BY <1>1 DEF TellInv, Over, HasClosing
<1>2. CASE UNCHANGED vars
  BY <1>1, <1>2 DEF vars
<1>3. CASE Crash
  <2>1. ASSUME NEW i \in Inference PROVE streams'[i] = NoEntry
    BY <1>3 DEF Crash
  <2>. QED BY <2>1, FreshEntries DEF TellInv, HasClosing
<1>4. ASSUME NEW c \in CancelCall,
             (\E i \in Inference : CancelRead(c, i)) \/ CancelReply(c)
      PROVE  TellInv'
  BY <1>1, <1>4
  DEF CancelRead, CancelReply, CancelNotFound, CancelTerminal, CancelActive,
      registries
<1>5. ASSUME NEW i \in Inference, ExpireStream(i) PROVE TellInv'
  <2>1. /\ run' = run /\ streams'[i] = NoEntry
        /\ \A j \in Inference \ {i} : streams'[j] = streams[j]
    BY <1>0, <1>5 DEF ExpireStream
  <2>. QED BY <2>1, FreshEntries DEF TellInv, HasClosing, Over
<1>6. ASSUME NEW i \in Inference, NEW p \in Provider,
             NEW f \in Provider \cup {NoProvider}, StartInference(i, p, f)
      PROVE  TellInv'
  <2>1. PICK pc \in {"committed", "rejected"} :
          run' = [run EXCEPT ![i].pc = pc, ![i].provider = p]
    BY <1>6 DEF StartInference
  <2>2. run[i].pc = "idle" /\ streams' = streams
    BY <1>6 DEF StartInference, registries
  <2>3. /\ run'[i].terminalEmitted = run[i].terminalEmitted
        /\ \A j \in Inference \ {i} : run'[j] = run[j]
    BY <1>0, <2>1 DEF RunRecord
  <2>. QED BY <2>2, <2>3 DEF TellInv, HasClosing, Over
<1>7. ASSUME NEW i \in Inference, RunStep(i) PROVE TellInv'
  <2>1. StepEffect(i)
    BY <1>7, RunEffect
  <2>2. HasClosing(streams'[i]) => HasClosing(streams[i]) \/ Over(i)'
    <3>1. Token(run[i].provider).type \notin Closing
      BY DEF Token, Closing
    <3>2. CASE streams'[i] = Published(streams[i], Token(run[i].provider))
      BY <1>0, <3>1, <3>2, ClosingFacts
    <3>. QED BY <2>1, <3>2, FreshEntries DEF StepEffect
  <2>3. \A j \in Inference \ {i} :
          streams'[j] = streams[j] /\ (Over(j) => Over(j)')
    BY <2>1 DEF StepEffect, Over
  <2>4. Over(i) => Over(i)'
    BY <2>1 DEF StepEffect
  <2>5. ASSUME NEW j \in Inference, HasClosing(streams'[j]) PROVE Over(j)'
    BY <2>2, <2>3, <2>4, <2>5 DEF TellInv
  <2>. QED BY <2>5 DEF TellInv, HasClosing
<1>. QED BY <1>2, <1>3, <1>4, <1>5, <1>6, <1>7 DEF Next

\* A run that is over writes no row.
LEMMA RowsKept ==
  ASSUME SafetyInv, [Next]_vars, NEW i \in Inference, Over(i)
  PROVE  request'[i] = request[i] /\ message'[i] = message[i]
<1>0. /\ request \in [Inference -> [status : {"none", "started", "streaming"} \cup Terminal,
                                    provider : Provider \cup {NoProvider}]]
      /\ message \in [Inference -> [status : {"none", "streaming"} \cup Terminal,
                                    content : 0..MaxTokens]]
  BY DEF SafetyInv, TypeInv, TypeOK, RequestType, MessageType
<1>1. run[i].pc \in {"finally", "done", "lost"}
  BY DEF Over, SafetyInv, StoryInv, Story
<1>2. ASSUME NEW j \in Inference,
             \/ \E p \in Provider, f \in Provider \cup {NoProvider} :
                  StartInference(j, p, f)
             \/ MarkFirstToken(j) \/ StartFallback(j) \/ SaveMessage(j)
             \/ SaveRequest(j)
      PROVE  request'[i] = request[i] /\ message'[i] = message[i]
  <2>1. j # i
    BY <1>1, <1>2
    DEF StartInference, MarkFirstToken, StartFallback, SaveMessage, SaveRequest
  <2>2. /\ request' = request \/ \E e : request' = [request EXCEPT ![j] = e]
        /\ message' = message \/ \E e : message' = [message EXCEPT ![j] = e]
    BY <1>2
    DEF StartInference, MarkFirstToken, StartFallback, SaveMessage, SaveRequest
  <2>. QED BY <1>0, <2>1, <2>2
<1>3. CASE UNCHANGED <<request, message>>
  BY <1>3
<1>4. ASSUME NEW j \in Inference, RunStep(j)
      PROVE  request'[i] = request[i] /\ message'[i] = message[i]
  BY <1>2, <1>3, <1>4
  DEF RunStep, BeginRun, LoadContext, ChunkAfterAbort, FirstToken, NextToken,
      ChunkCompleted, ChunkError, EmitLog, Finally, database
<1>5. ASSUME NEW c \in CancelCall,
             (\E j \in Inference : CancelRead(c, j)) \/ CancelReply(c)
      PROVE  request'[i] = request[i] /\ message'[i] = message[i]
  BY <1>3, <1>5
  DEF CancelRead, CancelReply, CancelNotFound, CancelTerminal, CancelActive, database
<1>6. CASE UNCHANGED vars \/ Crash \/ \E j \in Inference : ExpireStream(j)
  BY <1>3, <1>6 DEF vars, Crash, ExpireStream, database
<1>. QED BY <1>2, <1>4, <1>5, <1>6 DEF Next
-----------------------------------------------------------------------------
LEMMA TellInit == Init => TellInv
BY FreshEntries DEF Init, TellInv

LEMMA VerdictStep ==
  SafetyInv /\ TellInv /\ [Next]_vars =>
    [\A i \in Inference :
       Told(i) => request'[i] = request[i] /\ message'[i] = message[i]]_vars
<1>. SUFFICES ASSUME SafetyInv, TellInv, [Next]_vars, NEW i \in Inference, Told(i)
              PROVE  request'[i] = request[i] /\ message'[i] = message[i]
  OBVIOUS
<1>1. Over(i)
  BY DEF Told, TellInv, HasClosing, Over
<1>. QED BY <1>1, RowsKept

\* Once the client was told a verdict, no finalizer, catch block, cancel call
\* or crash changes the rows of that inference.
THEOREM VerdictIsFinal == Spec => ToldVerdictIsFinal
<1>1. TellInv /\ SafetyInv /\ [Next]_vars => TellInv'
  BY TellNext DEF SafetyInv
<1>2. Spec => [](SafetyInv /\ TellInv)
  BY <1>1, TellInit, SafetyInit, SafetyNext, PTL DEF Spec
<1>. QED BY <1>2, VerdictStep, PTL DEF Spec, ToldVerdictIsFinal
-----------------------------------------------------------------------------
(***************************************************************************)
(* ChatInference implements InferenceLifecycle: every step of the code is  *)
(* a step of the abstract lifecycle, or changes nothing that it shows.     *)
(***************************************************************************)
\* What the lifecycle shows of one inference, and of all.
View(i) == <<phaseOf(i), recordOf(i), toldOf(i)>>

Shown == <<[i \in Inference |-> phaseOf(i)], [i \in Inference |-> recordOf(i)],
           [i \in Inference |-> toldOf(i)], logged>>

LEMMA ViewElsewhere ==
  ASSUME NEW j \in Inference, run'[j] = run[j], request'[j].status = request[j].status
  PROVE  View(j)' = View(j)
BY DEF View, Over, phaseOf, recordOf, toldOf

LEMMA SameView ==
  ASSUME \A j \in Inference : View(j)' = View(j), logged' = logged
  PROVE  Shown' = Shown
<1>1. \A j \in Inference : phaseOf(j)' = phaseOf(j) /\ recordOf(j)' = recordOf(j)
                           /\ toldOf(j)' = toldOf(j)
  BY DEF View
<1>2. QED
  BY <1>1 DEF Shown

\* The steps of the lifecycle, said of one inference's view.
LEMMA AcceptView ==
  ASSUME NEW i \in Inference, logged' = logged,
         \A j \in Inference \ {i} : View(j)' = View(j),
         phaseOf(i) = "new", phaseOf(i)' = "accepted",
         recordOf(i)' = recordOf(i), toldOf(i)' = toldOf(i)
  PROVE  Lifecycle!Accept(i)
<1>1. \A j \in Inference \ {i} : phaseOf(j)' = phaseOf(j) /\ recordOf(j)' = recordOf(j)
                                 /\ toldOf(j)' = toldOf(j)
  BY DEF View
<1>2. QED
  BY <1>1 DEF Lifecycle!Accept

LEMMA OpenView ==
  ASSUME NEW i \in Inference, logged' = logged,
         \A j \in Inference \ {i} : View(j)' = View(j),
         phaseOf(i) = "accepted", phaseOf(i)' = "open",
         recordOf(i)' = recordOf(i), toldOf(i)' = toldOf(i)
  PROVE  Lifecycle!Open(i)
<1>1. \A j \in Inference \ {i} : phaseOf(j)' = phaseOf(j) /\ recordOf(j)' = recordOf(j)
                                 /\ toldOf(j)' = toldOf(j)
  BY DEF View
<1>2. QED
  BY <1>1 DEF Lifecycle!Open

LEMMA RecordView ==
  ASSUME NEW i \in Inference, logged' = logged,
         \A j \in Inference \ {i} : View(j)' = View(j),
         phaseOf(i) = "open", phaseOf(i)' = "open",
         recordOf(i)' \in Terminal, toldOf(i)' = toldOf(i)
  PROVE  \E v \in Lifecycle!Stored : Lifecycle!Record(i, v)
<1>1. \A j \in Inference \ {i} : phaseOf(j)' = phaseOf(j) /\ recordOf(j)' = recordOf(j)
                                 /\ toldOf(j)' = toldOf(j)
  BY DEF View
<1>2. PICK v \in Lifecycle!Stored : recordOf(i)' = v
  BY DEF Lifecycle!Stored, Terminal
<1>3. QED
  BY <1>1, <1>2 DEF Lifecycle!Record

LEMMA SettleView ==
  ASSUME NEW i \in Inference,
         \/ logged' = logged
         \/ logged' = [logged EXCEPT ![i] = @ \cup {recordOf(i)}],
         \A j \in Inference \ {i} : View(j)' = View(j),
         phaseOf(i) = "open", phaseOf(i)' = "settled",
         recordOf(i) \in Terminal,
         recordOf(i)' = recordOf(i), toldOf(i)' = recordOf(i)
  PROVE  Lifecycle!Settle(i)
<1>1. \A j \in Inference \ {i} : phaseOf(j)' = phaseOf(j) /\ recordOf(j)' = recordOf(j)
                                 /\ toldOf(j)' = toldOf(j)
  BY DEF View
<1>2. QED
  BY <1>1 DEF Lifecycle!Settle, Lifecycle!Stored, Terminal

LEMMA AbandonView ==
  ASSUME NEW i \in Inference, logged' = logged,
         \A j \in Inference \ {i} : View(j)' = View(j),
         phaseOf(i) = "open", phaseOf(i)' = "settled",
         recordOf(i)' = recordOf(i), toldOf(i)' = "unknown"
  PROVE  Lifecycle!Abandon(i)
<1>1. \A j \in Inference \ {i} : phaseOf(j)' = phaseOf(j) /\ recordOf(j)' = recordOf(j)
                                 /\ toldOf(j)' = toldOf(j)
  BY DEF View
<1>2. QED
  BY <1>1 DEF Lifecycle!Abandon
-----------------------------------------------------------------------------
LEMMA LifecycleInitial == Init => Lifecycle!LifecycleInit
<1> SUFFICES ASSUME Init
             PROVE  Lifecycle!LifecycleInit
  OBVIOUS
<1>1. \A i \in Inference :
        phaseOf(i) = "new" /\ recordOf(i) = "pending" /\ toldOf(i) = "none"
  BY DEF Init, Over, phaseOf, recordOf, toldOf, Streaming, Terminal
<1>2. QED
  BY <1>1 DEF Init, Lifecycle!LifecycleInit

\* Between its first await and its last two steps, a run is open, and what
\* changes is at most its record.
LEMMA OpenEffect ==
  ASSUME SafetyInv, NEW i \in Inference,
         \/ LoadContext(i) \/ ChunkAfterAbort(i) \/ FirstToken(i)
         \/ MarkFirstToken(i) \/ NextToken(i) \/ ChunkCompleted(i)
         \/ ChunkError(i) \/ StartFallback(i) \/ SaveMessage(i) \/ SaveRequest(i)
  PROVE  /\ run[i].pc \in Streaming /\ run[i].terminalEmitted = FALSE
         /\ run'[i].pc \in Streaming /\ run'[i].terminalEmitted = FALSE
         /\ \A j \in Inference \ {i} : run'[j] = run[j] /\ request'[j] = request[j]
         /\ logged' = logged
         /\ \/ request'[i] = request[i]
            \/ request'[i].status \in Terminal
            \/ request[i].status \notin Terminal /\ request'[i].status \notin Terminal
<1>0. /\ run \in [Inference -> RunRecord] /\ run[i] \in RunRecord
      /\ request \in RequestType
  BY DEF SafetyInv, TypeInv, TypeOK, RunType
<1>1. run[i].pc \in {"loadContext", "nextChunk", "markFirstToken", "fallback",
                     "saveMessage", "saveRequest"}
  BY DEF LoadContext, ChunkAfterAbort, FirstToken, MarkFirstToken, NextToken,
         ChunkCompleted, ChunkError, StartFallback, SaveMessage, SaveRequest
<1>2. run[i].terminalEmitted = FALSE
  BY <1>0, <1>1 DEF SafetyInv, StoryInv, Story, RunRecord
<1>3. /\ run'[i].pc \in Streaming /\ run'[i].terminalEmitted = FALSE
      /\ \A j \in Inference \ {i} : run'[j] = run[j]
  <2>1. CASE \/ \E pc \in Streaming : Goto(i, pc)
             \/ \E o : Finalize(i, o)
             \/ Raise(i) \/ AppendToken(i)
    BY <1>2, <2>1, MovesFacts DEF SafetyInv, Moves, Streaming
  <2>2. CASE FirstToken(i)
    BY <1>0, <1>2, <2>2 DEF FirstToken, RunRecord, Streaming
  <2>3. CASE SecondAttempt(i, body[i].fallback)
    <3> DEFINE r == [run[i] EXCEPT !.pc = "nextChunk", !.onFallback = TRUE,
                                   !.provider = body[i].fallback]
    <3>1. r.pc = "nextChunk" /\ r.terminalEmitted = FALSE
      BY <1>0, <1>2 DEF RunRecord
    <3>2. run' = [run EXCEPT ![i] = r]
      BY <1>0, <2>3 DEF SecondAttempt
    <3> HIDE DEF r
    <3>3. QED
      BY <1>0, <3>1, <3>2 DEF Streaming
  <2>4. QED
    BY <2>1, <2>2, <2>3
    DEF LoadContext, ChunkAfterAbort, MarkFirstToken, NextToken, ChunkCompleted,
        ChunkError, StartFallback, SecondAttempt, SaveMessage, SaveRequest, Streaming
<1>4. logged' = logged
  BY DEF LoadContext, ChunkAfterAbort, FirstToken, MarkFirstToken, NextToken,
         ChunkCompleted, ChunkError, StartFallback, SaveMessage, SaveRequest, database
<1>5. /\ \A j \in Inference \ {i} : request'[j] = request[j]
      /\ \/ request'[i] = request[i]
         \/ request'[i].status \in Terminal
         \/ request[i].status \notin Terminal /\ request'[i].status \notin Terminal
  <2>1. CASE UNCHANGED request
    BY <2>1
  <2>2. CASE MarkFirstToken(i) \/ StartFallback(i)
    <3>1. request[i].status \notin Terminal
      BY <2>2 DEF SafetyInv, StoryInv, Story, Undecided, MarkFirstToken, StartFallback
    <3>2. /\ request'[i] = request[i] \/ request'[i].status \in {"started", "streaming"}
          /\ \A j \in Inference \ {i} : request'[j] = request[j]
      BY <1>0, <2>2 DEF MarkFirstToken, StartFallback, RequestType
    <3>3. QED
      BY <3>1, <3>2 DEF Terminal
  <2>3. CASE SaveRequest(i)
    <3>1. /\ \/ request'[i] = request[i]
             \/ request'[i].status = Verdict(run[i].outcome)
          /\ \A j \in Inference \ {i} : request'[j] = request[j]
      BY <1>0, <2>3 DEF SaveRequest, RequestType
    <3>2. QED
      BY <3>1, VerdictTerminal DEF SafetyInv
  <2>4. QED
    BY <2>1, <2>2, <2>3
    DEF LoadContext, ChunkAfterAbort, FirstToken, NextToken, ChunkCompleted,
        ChunkError, SaveMessage, database
<1>6. QED
  BY <1>1, <1>2, <1>3, <1>4, <1>5 DEF Streaming

LEMMA OpenStep ==
  ASSUME SafetyInv, NEW i \in Inference,
         \/ LoadContext(i) \/ ChunkAfterAbort(i) \/ FirstToken(i)
         \/ MarkFirstToken(i) \/ NextToken(i) \/ ChunkCompleted(i)
         \/ ChunkError(i) \/ StartFallback(i) \/ SaveMessage(i) \/ SaveRequest(i)
  PROVE  Lifecycle!LifecycleNext \/ Shown' = Shown
<1>1. /\ run[i].pc \in Streaming /\ run[i].terminalEmitted = FALSE
      /\ run'[i].pc \in Streaming /\ run'[i].terminalEmitted = FALSE
      /\ \A j \in Inference \ {i} : run'[j] = run[j] /\ request'[j] = request[j]
      /\ logged' = logged
      /\ \/ request'[i] = request[i]
         \/ request'[i].status \in Terminal
         \/ request[i].status \notin Terminal /\ request'[i].status \notin Terminal
  BY OpenEffect
<1>2. /\ phaseOf(i) = "open" /\ phaseOf(i)' = "open"
      /\ toldOf(i) = "none" /\ toldOf(i)' = "none"
  BY <1>1 DEF Over, phaseOf, toldOf, Streaming
<1>3. \A j \in Inference \ {i} : View(j)' = View(j)
  BY <1>1, ViewElsewhere
<1>4. CASE request'[i].status \in Terminal
  <2>1. recordOf(i)' \in Terminal
    BY <1>4 DEF recordOf
  <2>2. QED
    BY <1>1, <1>2, <1>3, <2>1, RecordView DEF Lifecycle!LifecycleNext
<1>5. CASE request'[i].status \notin Terminal
  <2>1. recordOf(i)' = recordOf(i)
    BY <1>1, <1>5 DEF recordOf
  <2>2. View(i)' = View(i)
    BY <1>2, <2>1 DEF View
  <2>3. QED
    BY <1>1, <1>3, <2>2, SameView
<1>6. QED
  BY <1>4, <1>5
-----------------------------------------------------------------------------
LEMMA StartStep ==
  ASSUME SafetyInv, NEW i \in Inference, NEW p \in Provider,
         NEW f \in Provider \cup {NoProvider}, StartInference(i, p, f)
  PROVE  Lifecycle!LifecycleNext \/ Shown' = Shown
<1>0. /\ run \in [Inference -> RunRecord] /\ run[i] \in RunRecord
      /\ request \in RequestType
  BY DEF SafetyInv, TypeInv, TypeOK, RunType
<1>1. PICK pc \in {"committed", "rejected"} :
        run' = [run EXCEPT ![i].pc = pc, ![i].provider = p]
  BY DEF StartInference
<1>2. /\ run'[i].pc = pc /\ run'[i].terminalEmitted = run[i].terminalEmitted
      /\ \A j \in Inference \ {i} : run'[j] = run[j]
  BY <1>0, <1>1 DEF RunRecord
<1>3. run[i].pc = "idle" /\ logged' = logged
  BY DEF StartInference
<1>4. run[i].terminalEmitted = FALSE /\ request[i].status \notin Terminal
  BY <1>0, <1>3 DEF SafetyInv, StoryInv, Story, Undecided, RunRecord
<1>5. /\ request'[i].status \notin Terminal
      /\ \A j \in Inference \ {i} : request'[j] = request[j]
  BY <1>0, <1>4 DEF StartInference, RequestType, Terminal
<1>6. \A j \in Inference \ {i} : View(j)' = View(j)
  BY <1>2, <1>5, ViewElsewhere
<1>7. /\ phaseOf(i) = "new"
      /\ phaseOf(i)' = IF pc = "committed" THEN "accepted" ELSE "new"
      /\ recordOf(i)' = recordOf(i) /\ toldOf(i)' = toldOf(i)
  BY <1>2, <1>3, <1>4, <1>5 DEF Over, phaseOf, recordOf, toldOf, Streaming
<1>8. CASE pc = "committed"
  BY <1>3, <1>6, <1>7, <1>8, AcceptView DEF Lifecycle!LifecycleNext
<1>9. CASE pc = "rejected"
  <2>1. View(i)' = View(i)
    BY <1>7, <1>9 DEF View
  <2>2. QED
    BY <1>3, <1>6, <2>1, SameView
<1>10. QED
  BY <1>8, <1>9

LEMMA BeginStep ==
  ASSUME SafetyInv, NEW i \in Inference, BeginRun(i)
  PROVE  Lifecycle!LifecycleNext
<1>1. /\ run[i].pc = "committed" /\ logged' = logged /\ request' = request
      /\ run'[i].pc = "loadContext" /\ run'[i].terminalEmitted = run[i].terminalEmitted
      /\ \A j \in Inference \ {i} : run'[j] = run[j]
  BY MovesFacts DEF BeginRun, SafetyInv, Moves, database
<1>2. run[i].terminalEmitted = FALSE
  BY <1>1 DEF SafetyInv, StoryInv, Story, TypeInv, TypeOK, RunType, RunRecord
<1>3. \A j \in Inference \ {i} : View(j)' = View(j)
  BY <1>1, ViewElsewhere
<1>4. /\ phaseOf(i) = "accepted" /\ phaseOf(i)' = "open"
      /\ recordOf(i)' = recordOf(i) /\ toldOf(i)' = toldOf(i)
  BY <1>1, <1>2 DEF Over, phaseOf, recordOf, toldOf, Streaming
<1>5. QED
  BY <1>1, <1>3, <1>4, OpenView DEF Lifecycle!LifecycleNext

\* The closing event tells the verdict that the row holds.
LEMMA EmitStep ==
  ASSUME SafetyInv, NEW i \in Inference, EmitLog(i)
  PROVE  Lifecycle!LifecycleNext
<1>0. run \in [Inference -> RunRecord] /\ run[i] \in RunRecord
  BY DEF SafetyInv, TypeInv, TypeOK, RunType
<1>1. /\ run[i].pc = "emitLog" /\ request' = request
      /\ run'[i].pc = "finally" /\ run'[i].terminalEmitted = TRUE
      /\ run'[i].outcome = run[i].outcome
      /\ \A j \in Inference \ {i} : run'[j] = run[j]
  BY <1>0 DEF EmitLog, RunRecord
<1>2. run[i].terminalEmitted = FALSE
  BY <1>0, <1>1 DEF SafetyInv, StoryInv, Story, RunRecord
<1>3. request[i].status = Verdict(run[i].outcome) /\ request[i].status \in Terminal
  BY <1>1, VerdictTerminal DEF SafetyInv, StoryInv, Story
<1>4. \A j \in Inference \ {i} : View(j)' = View(j)
  BY <1>1, ViewElsewhere
<1>5. /\ phaseOf(i) = "open" /\ phaseOf(i)' = "settled"
      /\ recordOf(i) = request[i].status /\ recordOf(i)' = recordOf(i)
      /\ toldOf(i)' = recordOf(i)
  BY <1>1, <1>2, <1>3 DEF Over, phaseOf, recordOf, toldOf, Streaming
<1>6. \/ logged' = logged
      \/ logged' = [logged EXCEPT ![i] = @ \cup {recordOf(i)}]
  BY <1>3, <1>5 DEF EmitLog
<1>7. recordOf(i) \in Terminal
  BY <1>3, <1>5
<1>8. QED
  BY <1>4, <1>5, <1>6, <1>7, SettleView DEF Lifecycle!LifecycleNext

LEMMA FinallyStep ==
  ASSUME SafetyInv, NEW i \in Inference, Finally(i)
  PROVE  Lifecycle!LifecycleNext \/ Shown' = Shown
<1>1. /\ run[i].pc = "finally" /\ request' = request /\ logged' = logged
      /\ run'[i].pc = "done" /\ run'[i].terminalEmitted = run[i].terminalEmitted
      /\ run'[i].outcome = run[i].outcome
      /\ \A j \in Inference \ {i} : run'[j] = run[j]
  BY MovesFacts DEF Finally, SafetyInv, Moves, database
<1>2. \A j \in Inference \ {i} : View(j)' = View(j)
  BY <1>1, ViewElsewhere
<1>3. recordOf(i)' = recordOf(i)
  BY <1>1 DEF recordOf
<1>4. CASE run[i].terminalEmitted
  <2>1. View(i)' = View(i)
    BY <1>1, <1>3, <1>4 DEF View, Over, phaseOf, toldOf
  <2>2. QED
    BY <1>1, <1>2, <2>1, SameView
<1>5. CASE ~run[i].terminalEmitted
  <2>1. /\ phaseOf(i) = "open" /\ phaseOf(i)' = "settled" /\ toldOf(i)' = "unknown"
    BY <1>1, <1>5 DEF Over, phaseOf, toldOf, Streaming
  <2>2. QED
    BY <1>1, <1>2, <1>3, <2>1, AbandonView DEF Lifecycle!LifecycleNext
<1>6. QED
  BY <1>4, <1>5

LEMMA CrashStep == ASSUME SafetyInv, Crash PROVE Lifecycle!LifecycleNext
<1>1. request' = request /\ logged' = logged
  BY DEF Crash, database
<1>2. ASSUME NEW i \in Inference
      PROVE  /\ run'[i].pc = IF run[i].pc \in Live THEN "lost" ELSE run[i].pc
             /\ run'[i].outcome = run[i].outcome
             /\ run'[i].terminalEmitted = run[i].terminalEmitted
  <2>1. run[i] \in RunRecord
    BY DEF SafetyInv, TypeInv, TypeOK, RunType
  <2>2. QED
    BY <2>1 DEF Crash, RunRecord
<1>3. ASSUME NEW i \in Inference
      PROVE  /\ phaseOf(i)' = IF phaseOf(i) \in {"accepted", "open"}
                              THEN "lost" ELSE phaseOf(i)
             /\ recordOf(i)' = recordOf(i)
             /\ toldOf(i)' = toldOf(i)
  BY <1>1, <1>2 DEF Over, phaseOf, recordOf, toldOf, Live, Streaming
<1>4. QED
  BY <1>1, <1>3 DEF Lifecycle!LifecycleNext, Lifecycle!Lose

\* Cancel calls and the grace timer show nothing.
LEMMA SilentStep ==
  ASSUME \/ UNCHANGED vars
         \/ \E i \in Inference : ExpireStream(i)
         \/ \E c \in CancelCall : (\E i \in Inference : CancelRead(c, i)) \/ CancelReply(c)
  PROVE  Shown' = Shown
<1>1. run' = run /\ request' = request /\ logged' = logged
  BY DEF vars, ExpireStream, CancelRead, CancelReply, CancelNotFound, CancelTerminal,
         CancelActive, database
<1>2. QED
  BY <1>1, ViewElsewhere, SameView

LEMMA LifecycleStep ==
  SafetyInv /\ [Next]_vars => Lifecycle!LifecycleNext \/ Shown' = Shown
<1> SUFFICES ASSUME SafetyInv, [Next]_vars
             PROVE  Lifecycle!LifecycleNext \/ Shown' = Shown
  OBVIOUS
<1>1. ASSUME NEW i \in Inference, RunStep(i)
      PROVE  Lifecycle!LifecycleNext \/ Shown' = Shown
  BY <1>1, BeginStep, OpenStep, EmitStep, FinallyStep DEF RunStep
<1>2. QED
  BY <1>1, StartStep, CrashStep, SilentStep DEF Next

\* Every behaviour of a chat turn, with every fault, cancel and crash, is one of
\* the lifecycle: at most one verdict told, as recorded, final, logged as such.
THEOREM ChatImplementsLifecycle == Spec => ImplementsLifecycle
<1>1. SafetyInv /\ [Next]_vars => [Lifecycle!LifecycleNext]_Shown
  BY LifecycleStep
<1>2. QED
  BY <1>1, LifecycleInitial, SafetyAlways, PTL
  DEF Spec, ImplementsLifecycle, Lifecycle!LifecycleSpec, Lifecycle!lifecycle, Shown
=============================================================================
