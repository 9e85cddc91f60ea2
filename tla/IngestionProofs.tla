--------------------------- MODULE IngestionProofs ---------------------------
(***************************************************************************)
(* Theorems about IngestionPipeline, for any deliveries, events, slots and *)
(* bounds: the types, then the safety properties, from an invariant that   *)
(* ties each delivery's call, row, job and slots together, then the bound  *)
(* on duplicates, which counts the slots that may still write an event.    *)
(***************************************************************************)
EXTENDS IngestionProperties, FiniteSetTheorems, TLAPS

\* A slot that is busy has a job.
BusySlots == \A w \in Slot : slot[w].pc # "idle" => slot[w].job \in Delivery

TypeInv == TypeOK /\ BusySlots

\* The fields that the steps of the queue leave alone or advance.
LEMMA FaultType ==
  ASSUME TypeOK, Fault \/ UNCHANGED faults
  PROVE  faults' \in 0..MaxFaults
BY BoundAssumption DEF TypeOK, Fault

LEMMA UseAttemptType ==
  ASSUME TypeOK, NEW d \in Delivery, NEW final \in BOOLEAN, UseAttempt(d, final)
  PROVE  job' \in [Delivery -> JobRecord] /\ handlers' \subseteq Delivery
<1> DEFINE s == IF final \/ job[d].attemptsMade + 1 >= MaxAttempts
                THEN "failed" ELSE "waiting"
           r == [job[d] EXCEPT !.attemptsMade = job[d].attemptsMade + 1,
                               !.owner = None, !.state = s]
<1>1. r \in JobRecord
  <2>1. s \in {"failed", "waiting"}
    OBVIOUS
  <2>2. job[d] \in JobRecord
    BY DEF TypeOK
  <2>3. job[d].attemptsMade + 1 \in Nat
    BY <2>2 DEF JobRecord
  <2> HIDE DEF s
  <2>4. QED
    BY <2>1, <2>2, <2>3 DEF JobRecord
<1>2. job' = [job EXCEPT ![d] = r]
  BY DEF UseAttempt
<1>3. handlers' \subseteq Delivery
  BY DEF UseAttempt, TypeOK
<1> HIDE DEF r
<1>4. QED
  BY <1>1, <1>2, <1>3 DEF TypeOK

LEMMA FailAttemptType ==
  ASSUME TypeInv, NEW w \in Slot, slot[w].pc # "idle", FailAttempt(w)
  PROVE  /\ job' \in [Delivery -> JobRecord] /\ handlers' \subseteq Delivery
         /\ slot' = [slot EXCEPT ![w] = [pc |-> "idle", job |-> None]]
<1>1. slot[w].job \in Delivery
  BY DEF TypeInv, BusySlots
<1>2. CASE UseAttempt(slot[w].job, FALSE)
  BY <1>1, <1>2, UseAttemptType DEF FailAttempt, TypeInv
<1>3. CASE UNCHANGED <<job, handlers>>
  BY <1>3 DEF FailAttempt, TypeInv, TypeOK
<1>4. QED
  BY <1>2, <1>3 DEF FailAttempt

\* What the steps of a slot leave behind is again a slot.
LEMMA IdleSlotType ==
  ASSUME TypeInv, NEW w \in Slot,
         slot' = [slot EXCEPT ![w] = [pc |-> "idle", job |-> None]]
  PROVE  slot' \in [Slot -> SlotRecord] /\ BusySlots'
BY DEF TypeInv, TypeOK, BusySlots, SlotRecord

LEMMA BusySlotType ==
  ASSUME TypeInv, NEW w \in Slot, slot[w].pc # "idle",
         NEW place \in {"load", "commit", "ack"},
         slot' = [slot EXCEPT ![w].pc = place]
  PROVE  slot' \in [Slot -> SlotRecord] /\ BusySlots'
BY DEF TypeInv, TypeOK, BusySlots, SlotRecord
-----------------------------------------------------------------------------
LEMMA IngestTypeInit == Init => TypeInv
<1> SUFFICES ASSUME Init
             PROVE  TypeInv
  OBVIOUS
<1>1. delivery \in [Delivery -> DeliveryRecord] /\ log \in [Delivery -> LogRecord]
  BY DEF Init, DeliveryRecord, LogRecord
<1>2. job \in [Delivery -> JobRecord]
  <2>1. 0 \in 0..MaxStalls
    BY BoundAssumption
  <2>2. QED
    BY <2>1 DEF Init, JobRecord
<1>3. slot \in [Slot -> SlotRecord] /\ BusySlots
  BY DEF Init, SlotRecord, BusySlots
<1>4. events \in [Delivery -> Nat] /\ handlers \subseteq Delivery
  BY DEF Init
<1>5. retention \in [pc : {"idle", "strip"}, old : SUBSET Delivery]
  BY DEF Init
<1>6. /\ faults \in 0..MaxFaults /\ crashes \in 0..MaxCrashes
      /\ retries \in 0..MaxRetries /\ retentions \in 0..MaxRetentions
  <2>1. /\ MaxFaults \in Nat /\ MaxCrashes \in Nat
        /\ MaxRetries \in Nat /\ MaxRetentions \in Nat
    BY BoundAssumption
  <2>2. faults = 0 /\ crashes = 0 /\ retries = 0 /\ retentions = 0
    BY DEF Init
  <2>3. QED
    BY <2>1, <2>2
<1>7. QED
  BY <1>1, <1>2, <1>3, <1>4, <1>5, <1>6 DEF TypeInv, TypeOK

\* Updates of single fields.
LEMMA LogFields ==
  ASSUME TypeOK, NEW d \in Delivery, NEW s \in {"received", "processed", "failed"},
         \/ log' = [log EXCEPT ![d].status = s]
         \/ log' = [log EXCEPT ![d].status = s, ![d].normalized = TRUE]
  PROVE  log' \in [Delivery -> LogRecord]
<1>1. log[d] \in LogRecord
  BY DEF TypeOK
<1>2. /\ [log[d] EXCEPT !.status = s] \in LogRecord
      /\ [log[d] EXCEPT !.status = s, !.normalized = TRUE] \in LogRecord
  BY <1>1 DEF LogRecord
<1>3. QED
  BY <1>2 DEF TypeOK

LEMMA JobFields ==
  ASSUME TypeOK, NEW d \in Delivery, NEW s \in {"waiting", "completed"},
         \/ job' = [job EXCEPT ![d].state = s]
         \/ job' = [job EXCEPT ![d].state = s, ![d].owner = None]
  PROVE  job' \in [Delivery -> JobRecord]
<1> DEFINE r == [job[d] EXCEPT !.state = s]
           f == [job[d] EXCEPT !.state = s, !.owner = None]
<1>1. job[d] \in JobRecord
  BY DEF TypeOK
<1>2. r \in JobRecord
  BY <1>1 DEF JobRecord
<1>3. f \in JobRecord
  BY <1>1 DEF JobRecord
<1>4. job' = [job EXCEPT ![d] = r] \/ job' = [job EXCEPT ![d] = f]
  OBVIOUS
<1> HIDE DEF r, f
<1>5. QED
  BY <1>2, <1>3, <1>4 DEF TypeOK

\* A call of receive() from its first await to its reply.
LEMMA ReceiveType ==
  ASSUME TypeInv, NEW d \in Delivery,
         \/ \E e \in EventId : Receive(d, e)
         \/ Refuse(d) \/ CreateLog(d) \/ EnqueueJob(d)
  PROVE  TypeInv'
<1>1. CASE \E e \in EventId : Receive(d, e)
  <2>1. PICK e \in EventId : Receive(d, e)
    BY <1>1
  <2>2. delivery' \in [Delivery -> DeliveryRecord]
    BY <2>1 DEF Receive, TypeInv, TypeOK, DeliveryRecord
  <2>3. QED
    BY <2>1, <2>2 DEF Receive, queue, bounds, TypeInv, TypeOK, BusySlots
<1>2. CASE Refuse(d)
  <2>1. delivery' \in [Delivery -> DeliveryRecord]
    BY <1>2 DEF Refuse, TypeInv, TypeOK, DeliveryRecord
  <2>2. QED
    BY <1>2, <2>1 DEF Refuse, queue, bounds, TypeInv, TypeOK, BusySlots
<1>3. CASE CreateLog(d)
  <2>1. delivery' \in [Delivery -> DeliveryRecord]
    BY <1>3 DEF CreateLog, TypeInv, TypeOK, DeliveryRecord
  <2>2. log' \in [Delivery -> LogRecord]
    <3>1. [status |-> "received", raw |-> RawPayload(EventOf(d)), normalized |-> FALSE]
            \in LogRecord
      BY DEF RawPayload, LogRecord
    <3>2. QED
      BY <1>3, <3>1 DEF CreateLog, TypeInv, TypeOK
  <2>3. faults' \in 0..MaxFaults
    BY <1>3, FaultType DEF CreateLog, TypeInv
  <2>4. QED
    BY <1>3, <2>1, <2>2, <2>3 DEF CreateLog, queue, TypeInv, TypeOK, BusySlots
<1>4. CASE EnqueueJob(d)
  <2>1. delivery' \in [Delivery -> DeliveryRecord]
    <3> DEFINE r == [delivery[d] EXCEPT !.pc = "replied", !.reply = "received"]
               t == [delivery[d] EXCEPT !.pc = "thrown"]
    <3>1. delivery[d] \in DeliveryRecord
      BY DEF TypeInv, TypeOK
    <3>2. r \in DeliveryRecord /\ t \in DeliveryRecord
      BY <3>1 DEF DeliveryRecord
    <3>3. delivery' = [delivery EXCEPT ![d] = r] \/ delivery' = [delivery EXCEPT ![d] = t]
      BY <1>4 DEF EnqueueJob
    <3> HIDE DEF r, t
    <3>4. QED
      BY <3>2, <3>3 DEF TypeInv, TypeOK
  <2>2. job' \in [Delivery -> JobRecord]
    BY <1>4, JobFields DEF EnqueueJob, TypeInv, TypeOK
  <2>3. faults' \in 0..MaxFaults
    BY <1>4, FaultType DEF EnqueueJob, TypeInv
  <2>4. QED
    BY <1>4, <2>1, <2>2, <2>3 DEF EnqueueJob, TypeInv, TypeOK, BusySlots
<1>5. QED
  BY <1>1, <1>2, <1>3, <1>4

\* The steps of the worker's slots.
LEMMA WorkerType ==
  ASSUME TypeInv, NEW w \in Slot, WorkerStep(w)
  PROVE  TypeInv'
<1>1. ASSUME NEW d \in Delivery, FetchJob(w, d)
      PROVE  TypeInv'
  <2>1. job' \in [Delivery -> JobRecord]
    BY <1>1 DEF FetchJob, TypeInv, TypeOK, JobRecord
  <2>2. slot' \in [Slot -> SlotRecord] /\ BusySlots'
    BY <1>1 DEF FetchJob, TypeInv, TypeOK, SlotRecord, BusySlots
  <2>3. QED
    BY <1>1, <2>1, <2>2 DEF FetchJob, bounds, TypeInv, TypeOK
<1>2. CASE LoadLog(w)
  <2>1. slot[w].pc # "idle" /\ UNCHANGED <<delivery, log, events, retention, crashes,
                                          retries, retentions>>
    BY <1>2 DEF LoadLog
  <2>2. faults' \in 0..MaxFaults
    BY <1>2, FaultType DEF LoadLog, TypeInv
  <2>3. CASE slot' = [slot EXCEPT ![w].pc = "commit"] /\ UNCHANGED <<job, handlers>>
    BY <2>1, <2>2, <2>3, BusySlotType DEF TypeInv, TypeOK
  <2>4. CASE FailAttempt(w)
    <3>1. slot' \in [Slot -> SlotRecord] /\ BusySlots'
      BY <2>1, <2>4, FailAttemptType, IdleSlotType
    <3>2. job' \in [Delivery -> JobRecord] /\ handlers' \subseteq Delivery
      BY <2>1, <2>4, FailAttemptType
    <3>3. QED
      BY <2>1, <2>2, <3>1, <3>2 DEF TypeInv, TypeOK
  <2>5. QED
    BY <1>2, <2>3, <2>4 DEF LoadLog
<1>3. CASE CommitLog(w)
  <2>1. slot[w].pc # "idle" /\ UNCHANGED <<delivery, retention, crashes, retries,
                                          retentions>>
    BY <1>3 DEF CommitLog
  <2>2. faults' \in 0..MaxFaults
    BY <1>3, FaultType DEF CommitLog, TypeInv
  <2>3. log' \in [Delivery -> LogRecord] /\ events' \in [Delivery -> Nat]
    <3>1. CASE RecordEvent(slot[w].job)
      <4>1. events' \in [Delivery -> Nat]
        <5>1. slot[w].job \in Delivery /\ events[slot[w].job] + 1 \in Nat
          BY <2>1 DEF TypeInv, TypeOK, BusySlots
        <5>2. QED
          BY <3>1, <5>1 DEF RecordEvent, TypeInv, TypeOK
      <4>2. log' \in [Delivery -> LogRecord]
        BY <2>1, <3>1, LogFields DEF RecordEvent, TypeInv, BusySlots
      <4>3. QED
        BY <4>1, <4>2
    <3>2. CASE UNCHANGED <<log, events>>
      BY <3>2 DEF TypeInv, TypeOK
    <3>3. QED
      BY <1>3, <3>1, <3>2 DEF CommitLog
  <2>4. CASE slot' = [slot EXCEPT ![w].pc = "ack"] /\ UNCHANGED <<job, handlers>>
    BY <2>1, <2>2, <2>3, <2>4, BusySlotType DEF TypeInv, TypeOK
  <2>5. CASE FailAttempt(w)
    <3>1. slot' \in [Slot -> SlotRecord] /\ BusySlots'
      BY <2>1, <2>5, FailAttemptType, IdleSlotType
    <3>2. job' \in [Delivery -> JobRecord] /\ handlers' \subseteq Delivery
      BY <2>1, <2>5, FailAttemptType
    <3>3. QED
      BY <2>1, <2>2, <2>3, <3>1, <3>2 DEF TypeInv, TypeOK
  <2>6. QED
    BY <1>3, <2>4, <2>5 DEF CommitLog
<1>4. CASE AckJob(w)
  <2>1. job' \in [Delivery -> JobRecord]
    BY <1>4, JobFields DEF AckJob, TypeInv, TypeOK, BusySlots
  <2>2. slot' \in [Slot -> SlotRecord] /\ BusySlots'
    BY <1>4, IdleSlotType DEF AckJob
  <2>3. QED
    BY <1>4, <2>1, <2>2 DEF AckJob, bounds, TypeInv, TypeOK
<1>5. QED
  BY <1>1, <1>2, <1>3, <1>4 DEF WorkerStep

\* handleFailed's update, BullMQ, the operator.
LEMMA JobType ==
  ASSUME TypeInv, NEW d \in Delivery, MarkFailed(d) \/ StallJob(d) \/ RetryFailed(d)
  PROVE  TypeInv'
<1>1. CASE MarkFailed(d)
  <2>1. log' \in [Delivery -> LogRecord]
    BY <1>1, LogFields DEF MarkFailed, TypeInv, TypeOK
  <2>2. faults' \in 0..MaxFaults
    BY <1>1, FaultType DEF MarkFailed, TypeInv
  <2>3. QED
    BY <1>1, <2>1, <2>2 DEF MarkFailed, TypeInv, TypeOK, BusySlots
<1>2. CASE StallJob(d)
  <2>1. job' \in [Delivery -> JobRecord] /\ handlers' \subseteq Delivery
    <3>1. CASE job[d].stalls < MaxStalls
      <4>1. job[d] \in JobRecord
        BY DEF TypeInv, TypeOK
      <4>2. job[d].stalls + 1 \in 0..MaxStalls
        BY <3>1, <4>1, BoundAssumption DEF JobRecord
      <4> DEFINE r == [job[d] EXCEPT !.state = "waiting", !.owner = None,
                                     !.stalls = job[d].stalls + 1]
      <4>3. r \in JobRecord
        BY <4>1, <4>2 DEF JobRecord
      <4>4. job' = [job EXCEPT ![d] = r]
        BY <1>2, <3>1 DEF StallJob
      <4>5. handlers' \subseteq Delivery
        BY <1>2, <3>1 DEF StallJob, TypeInv, TypeOK
      <4> HIDE DEF r
      <4>6. QED
        BY <4>3, <4>4, <4>5 DEF TypeInv, TypeOK
    <3>2. CASE UseAttempt(d, TRUE)
      BY <3>2, UseAttemptType DEF TypeInv
    <3>3. QED
      BY <1>2, <3>1, <3>2 DEF StallJob
  <2>2. QED
    BY <1>2, <2>1 DEF StallJob, bounds, TypeInv, TypeOK, BusySlots
<1>3. CASE RetryFailed(d)
  <2>1. job' \in [Delivery -> JobRecord]
    BY <1>3 DEF RetryFailed, FailedJobs, TypeInv, TypeOK, JobRecord
  <2>2. retries' \in 0..MaxRetries
    BY <1>3, BoundAssumption DEF RetryFailed, TypeInv, TypeOK
  <2>3. QED
    BY <1>3, <2>1, <2>2 DEF RetryFailed, TypeInv, TypeOK, BusySlots
<1>4. QED
  BY <1>1, <1>2, <1>3

\* The clean-up and the crashes.
LEMMA HouseType ==
  ASSUME TypeInv,
         \/ \E old \in SUBSET Delivery : DeleteOldEvents(old)
         \/ StripOldPayloads \/ ApiCrash \/ WorkerCrash \/ UNCHANGED vars
  PROVE  TypeInv'
<1>1. ASSUME NEW old \in SUBSET Delivery, DeleteOldEvents(old)
      PROVE  TypeInv'
  <2>1. events' \in [Delivery -> Nat]
    BY <1>1 DEF DeleteOldEvents, TypeInv, TypeOK
  <2>2. retentions' \in 0..MaxRetentions
    BY <1>1, BoundAssumption DEF DeleteOldEvents, TypeInv, TypeOK
  <2>3. retention' \in [pc : {"idle", "strip"}, old : SUBSET Delivery]
    BY <1>1 DEF DeleteOldEvents
  <2>4. QED
    BY <1>1, <2>1, <2>2, <2>3 DEF DeleteOldEvents, queue, TypeInv, TypeOK, BusySlots
<1>2. CASE StripOldPayloads
  <2>1. log' \in [Delivery -> LogRecord]
    BY <1>2 DEF StripOldPayloads, TypeInv, TypeOK, LogRecord
  <2>2. QED
    BY <1>2, <2>1 DEF StripOldPayloads, queue, bounds, TypeInv, TypeOK, BusySlots
<1>3. CASE ApiCrash
  <2>1. delivery' \in [Delivery -> DeliveryRecord]
    BY <1>3 DEF ApiCrash, TypeInv, TypeOK, DeliveryRecord
  <2>2. crashes' \in 0..MaxCrashes
    BY <1>3, BoundAssumption DEF ApiCrash, TypeInv, TypeOK
  <2>3. QED
    BY <1>3, <2>1, <2>2 DEF ApiCrash, queue, TypeInv, TypeOK, BusySlots
<1>4. CASE WorkerCrash
  <2>1. slot' \in [Slot -> SlotRecord] /\ BusySlots'
    BY <1>4 DEF WorkerCrash, SlotRecord, BusySlots
  <2>2. crashes' \in 0..MaxCrashes
    BY <1>4, BoundAssumption DEF WorkerCrash, TypeInv, TypeOK
  <2>3. QED
    BY <1>4, <2>1, <2>2 DEF WorkerCrash, TypeInv, TypeOK
<1>5. CASE UNCHANGED vars
  BY <1>5 DEF vars, queue, bounds, TypeInv, TypeOK, BusySlots
<1>6. QED
  BY <1>1, <1>2, <1>3, <1>4, <1>5

\* The steps of the pipeline, by who takes them.
LEMMA PipelineSteps ==
  ASSUME [Next]_vars
  PROVE  \/ \E d \in Delivery : \/ \E e \in EventId : Receive(d, e)
                               \/ Refuse(d) \/ CreateLog(d) \/ EnqueueJob(d)
         \/ \E w \in Slot : WorkerStep(w)
         \/ \E d \in Delivery : MarkFailed(d) \/ StallJob(d) \/ RetryFailed(d)
         \/ \E old \in SUBSET Delivery : DeleteOldEvents(old)
         \/ StripOldPayloads \/ ApiCrash \/ WorkerCrash \/ UNCHANGED vars
BY DEF Next, Post, Enqueue, ReceiveStep

LEMMA IngestTypeStep == TypeInv /\ [Next]_vars => TypeInv'
BY PipelineSteps, ReceiveType, WorkerType, JobType, HouseType

LEMMA IngestTypeInvariant == Spec => []TypeInv
BY IngestTypeInit, IngestTypeStep, PTL DEF Spec

\* Every variable of IngestionPipeline keeps its type.
THEOREM IngestTypeCorrect == Spec => []TypeOK
<1>1. TypeInv => TypeOK
  BY DEF TypeInv
<1>2. QED
  BY <1>1, IngestTypeInvariant, PTL
-----------------------------------------------------------------------------
Settled(d) == log[d].status \in {"processed", "failed"}

\* What is known of a row at every stage of its delivery and its job.
RowStage(d) ==
  /\ delivery[d].pc \in {"idle", "create"} => log[d].status = "none"
  /\ log[d].status = "none" =>
       /\ job[d].state = "none" /\ delivery[d].pc # "enqueue"
       /\ d \notin handlers /\ events[d] = 0 /\ log[d].normalized = FALSE
  /\ delivery[d].pc = "enqueue" => job[d].state = "none"
  /\ delivery[d].reply = "received" => job[d].state # "none"
  /\ job[d].state = "completed" => Settled(d)
  /\ job[d].owner # None => job[d].state = "active"

\* Marks and event rows appear only when they may.
RowCause(d) ==
  /\ log[d].status = "failed" \/ d \in handlers => job[d].attemptsMade >= MaxAttempts
  /\ events[d] > 0 \/ log[d].normalized = TRUE => Settled(d)

\* A busy slot works on a stored row, and acknowledges only a settled one.
SlotStage(w) ==
  /\ slot[w].pc # "idle" => log[slot[w].job].status # "none"
  /\ slot[w].pc = "ack" => Settled(slot[w].job)

OneRow == \A e \in Keyed : \A c, d \in Stored(e) : c = d

PipelineInv ==
  /\ TypeInv
  /\ \A d \in Delivery : RowStage(d) /\ RowCause(d)
  /\ \A w \in Slot : SlotStage(w)
  /\ OneRow

LEMMA PipelineInit == Init => PipelineInv
<1> SUFFICES ASSUME Init
             PROVE  PipelineInv
  OBVIOUS
<1>1. ASSUME NEW d \in Delivery
      PROVE  RowStage(d) /\ RowCause(d)
  <2>1. /\ delivery[d].pc = "idle" /\ delivery[d].reply = "none"
        /\ log[d].status = "none" /\ log[d].normalized = FALSE /\ events[d] = 0
        /\ job[d].state = "none" /\ job[d].owner = None /\ d \notin handlers
    BY DEF Init
  <2>2. QED
    BY <2>1 DEF RowStage, RowCause
<1>2. (\A w \in Slot : SlotStage(w)) /\ OneRow
  BY DEF Init, SlotStage, OneRow, Stored
<1>3. QED
  BY <1>1, <1>2, IngestTypeInit DEF PipelineInv

\* What UseAttempt and FailAttempt do to a job.
LEMMA UseAttemptEffect ==
  ASSUME TypeInv, NEW d \in Delivery, NEW final \in BOOLEAN, UseAttempt(d, final)
  PROVE  /\ \A c \in Delivery : c # d => job'[c] = job[c] /\ (c \in handlers' <=> c \in handlers)
         /\ job'[d].attemptsMade = job[d].attemptsMade + 1
         /\ job'[d].stalls = job[d].stalls /\ job'[d].owner = None
         /\ job'[d].state \in {"waiting", "failed"}
         /\ d \in handlers' => d \in handlers \/ job'[d].attemptsMade >= MaxAttempts
<1>1. job[d] \in JobRecord
  BY DEF TypeInv, TypeOK
<1>2. DOMAIN job = Delivery
  BY DEF TypeInv, TypeOK
<1>3. QED
  BY <1>1, <1>2 DEF UseAttempt, JobRecord

LEMMA FailAttemptEffect ==
  ASSUME TypeInv, NEW w \in Slot, NEW d \in Delivery, slot[w].job = d, FailAttempt(w)
  PROVE  /\ \A c \in Delivery :
              c # d => job'[c] = job[c] /\ (c \in handlers' <=> c \in handlers)
         /\ \/ /\ job[d].owner = w
               /\ job'[d].attemptsMade = job[d].attemptsMade + 1
               /\ job'[d].stalls = job[d].stalls /\ job'[d].owner = None
               /\ job'[d].state \in {"waiting", "failed"}
               /\ d \in handlers' => d \in handlers \/ job'[d].attemptsMade >= MaxAttempts
            \/ job[d].owner # w /\ UNCHANGED <<job, handlers>>
BY UseAttemptEffect DEF FailAttempt
-----------------------------------------------------------------------------
\* What a step leaves alone stays as it should be.
LEMMA OtherRow ==
  ASSUME NEW c \in Delivery, RowStage(c), RowCause(c),
         UNCHANGED <<delivery[c], log[c], job[c]>>,
         events'[c] = events[c] \/ events'[c] = 0,
         c \in handlers' => c \in handlers
  PROVE  RowStage(c)' /\ RowCause(c)'
BY DEF RowStage, RowCause, Settled

LEMMA OtherSlot ==
  ASSUME TypeInv, NEW w \in Slot, SlotStage(w), slot'[w] = slot[w],
         \A c \in Delivery : /\ log[c].status # "none" => log'[c].status # "none"
                             /\ Settled(c) => Settled(c)'
  PROVE  SlotStage(w)'
BY DEF SlotStage, TypeInv, BusySlots, Settled

LEMMA SameRows ==
  ASSUME OneRow,
         \A c \in Delivery : /\ log'[c].status # "none" => log[c].status # "none"
                             /\ log'[c].status # "none" =>
                                  delivery'[c].event = delivery[c].event
  PROVE  OneRow'
BY DEF OneRow, Stored, EventOf

\* The parts of PipelineInv other than the types.
Rest == /\ \A d \in Delivery : RowStage(d) /\ RowCause(d)
        /\ \A w \in Slot : SlotStage(w)
        /\ OneRow

LEMMA ReceiveRows ==
  ASSUME PipelineInv, NEW d \in Delivery,
         (\E e \in EventId : Receive(d, e)) \/ Refuse(d)
  PROVE  Rest'
<1>1. /\ delivery[d].pc = "idle"
      /\ delivery'[d].pc \in {"create", "replied"} /\ delivery'[d].reply # "received"
      /\ \A c \in Delivery : c # d => delivery'[c] = delivery[c]
      /\ UNCHANGED <<log, events, job, slot, handlers>>
  <2>1. delivery[d] \in DeliveryRecord /\ DOMAIN delivery = Delivery
    BY DEF PipelineInv, TypeInv, TypeOK
  <2>2. CASE \E e \in EventId : Receive(d, e)
    BY <2>1, <2>2 DEF Receive, queue
  <2>3. CASE Refuse(d)
    BY <2>1, <2>3 DEF Refuse, queue, DeliveryRecord
  <2>4. QED
    BY <2>2, <2>3
<1>2. log[d].status = "none"
  BY <1>1 DEF PipelineInv, RowStage
<1>3. RowStage(d)' /\ RowCause(d)'
  BY <1>1, <1>2 DEF PipelineInv, RowStage, RowCause, Settled
<1>4. \A c \in Delivery : c # d => RowStage(c)' /\ RowCause(c)'
  BY <1>1, OtherRow DEF PipelineInv
<1>5. \A w \in Slot : SlotStage(w)'
  BY <1>1, OtherSlot DEF PipelineInv, Settled
<1>6. OneRow'
  BY <1>1, <1>2, SameRows DEF PipelineInv
<1>7. QED
  BY <1>3, <1>4, <1>5, <1>6 DEF Rest

\* The insert is where the unique index keeps a second row of a key out.
LEMMA CreateRows ==
  ASSUME PipelineInv, NEW d \in Delivery, CreateLog(d)
  PROVE  Rest'
<1>1. /\ delivery[d].pc = "create"
      /\ delivery'[d].pc \in {"enqueue", "thrown"}
      /\ delivery'[d].pc = "enqueue" => log'[d].status = "received"
      /\ delivery'[d].reply = delivery[d].reply /\ delivery'[d].event = delivery[d].event
      /\ \A c \in Delivery : c # d => delivery'[c] = delivery[c] /\ log'[c] = log[c]
      /\ \/ log'[d].status = "received" /\ log'[d].normalized = FALSE
            /\ ~KeyTaken(EventOf(d))
         \/ log' = log
      /\ UNCHANGED <<events, job, slot, handlers>>
  <2>1. /\ delivery[d] \in DeliveryRecord /\ DOMAIN delivery = Delivery
        /\ DOMAIN log = Delivery
    BY DEF PipelineInv, TypeInv, TypeOK
  <2>2. PICK ok \in BOOLEAN, applied \in BOOLEAN :
          /\ ok => applied
          /\ applied => ~KeyTaken(EventOf(d))
          /\ log' = IF applied
                    THEN [log EXCEPT ![d] = [status |-> "received",
                                             raw |-> RawPayload(EventOf(d)),
                                             normalized |-> FALSE]]
                    ELSE log
          /\ delivery' = [delivery EXCEPT ![d].pc = IF ok THEN "enqueue" ELSE "thrown"]
    BY DEF CreateLog
  <2>3. delivery[d].pc = "create" /\ UNCHANGED <<events, job, slot, handlers>>
    BY DEF CreateLog, queue
  <2>4. QED
    BY <2>1, <2>2, <2>3 DEF DeliveryRecord
<1>2. /\ log[d].status = "none" /\ job[d].state = "none" /\ events[d] = 0
      /\ d \notin handlers /\ log[d].normalized = FALSE
      /\ delivery[d].reply # "received"
  BY <1>1 DEF PipelineInv, RowStage
<1>3. RowStage(d)' /\ RowCause(d)'
  BY <1>1, <1>2 DEF PipelineInv, RowStage, RowCause, Settled
<1>4. \A c \in Delivery : c # d => RowStage(c)' /\ RowCause(c)'
  BY <1>1, OtherRow DEF PipelineInv
<1>5. \A w \in Slot : SlotStage(w)'
  BY <1>1, <1>2, OtherSlot DEF PipelineInv, Settled
<1>6. OneRow'
  <2>1. CASE log' = log
    BY <1>1, <2>1, SameRows DEF PipelineInv
  <2>2. CASE ~KeyTaken(EventOf(d))
    <3> SUFFICES ASSUME NEW e \in Keyed, NEW b \in Stored(e)', NEW c \in Stored(e)'
                 PROVE  b = c
      BY DEF OneRow
    <3>1. ASSUME NEW x \in Stored(e)', x # d
          PROVE  x \in Stored(e)
      BY <1>1, <3>1 DEF Stored, EventOf
    <3>2. d \in Stored(e)' => Stored(e) = {}
      BY <1>1, <2>2 DEF Stored, EventOf, KeyTaken
    <3>3. QED
      BY <3>1, <3>2 DEF PipelineInv, OneRow
  <2>3. QED
    BY <1>1, <2>1, <2>2
<1>7. QED
  BY <1>3, <1>4, <1>5, <1>6 DEF Rest
-----------------------------------------------------------------------------
LEMMA EnqueueRows ==
  ASSUME PipelineInv, NEW d \in Delivery, EnqueueJob(d)
  PROVE  Rest'
<1>1. /\ delivery[d].pc = "enqueue"
      /\ \/ delivery'[d].pc = "replied" /\ job'[d].state = "waiting"
         \/ delivery'[d].pc = "thrown" /\ delivery'[d].reply = delivery[d].reply
              /\ job'[d].state \in {"waiting", job[d].state}
      /\ delivery'[d].event = delivery[d].event
      /\ job'[d].attemptsMade = job[d].attemptsMade /\ job'[d].owner = job[d].owner
      /\ \A c \in Delivery : c # d => delivery'[c] = delivery[c] /\ job'[c] = job[c]
      /\ UNCHANGED <<log, events, slot, handlers>>
  <2>1. /\ delivery[d] \in DeliveryRecord /\ DOMAIN delivery = Delivery
        /\ job[d] \in JobRecord /\ DOMAIN job = Delivery
    BY DEF PipelineInv, TypeInv, TypeOK
  <2>2. PICK ok \in BOOLEAN, applied \in BOOLEAN :
          /\ ok => applied
          /\ job' = IF applied THEN [job EXCEPT ![d].state = "waiting"] ELSE job
          /\ delivery' = [delivery EXCEPT
               ![d] = IF ok THEN [@ EXCEPT !.pc = "replied", !.reply = "received"]
                            ELSE [@ EXCEPT !.pc = "thrown"]]
    BY DEF EnqueueJob
  <2>3. delivery[d].pc = "enqueue" /\ UNCHANGED <<log, events, slot, handlers>>
    BY DEF EnqueueJob
  <2>4. QED
    BY <2>1, <2>2, <2>3 DEF DeliveryRecord, JobRecord
<1>2. /\ log[d].status # "none" /\ job[d].state = "none" /\ job[d].owner = None
      /\ delivery[d].reply # "received"
  BY <1>1 DEF PipelineInv, RowStage
<1>3. RowStage(d)' /\ RowCause(d)'
  BY <1>1, <1>2 DEF PipelineInv, RowStage, RowCause, Settled
<1>4. \A c \in Delivery : c # d => RowStage(c)' /\ RowCause(c)'
  BY <1>1, OtherRow DEF PipelineInv
<1>5. \A w \in Slot : SlotStage(w)'
  BY <1>1, OtherSlot DEF PipelineInv, Settled
<1>6. OneRow'
  BY <1>1, SameRows DEF PipelineInv
<1>7. QED
  BY <1>3, <1>4, <1>5, <1>6 DEF Rest

LEMMA MarkRows ==
  ASSUME PipelineInv, NEW d \in Delivery, MarkFailed(d)
  PROVE  Rest'
<1>1. /\ d \in handlers /\ handlers' \subseteq handlers
      /\ log'[d].status \in {"failed", log[d].status}
      /\ log'[d].normalized = log[d].normalized
      /\ \A c \in Delivery : c # d => log'[c] = log[c]
      /\ UNCHANGED <<delivery, events, job, slot>>
  <2>1. log[d] \in LogRecord /\ DOMAIN log = Delivery
    BY DEF PipelineInv, TypeInv, TypeOK
  <2>2. QED
    BY <2>1 DEF MarkFailed, LogRecord
<1>2. log[d].status # "none" /\ job[d].attemptsMade >= MaxAttempts
  BY <1>1 DEF PipelineInv, RowStage, RowCause
<1>3. RowStage(d)' /\ RowCause(d)'
  BY <1>1, <1>2 DEF PipelineInv, RowStage, RowCause, Settled
<1>4. \A c \in Delivery : c # d => RowStage(c)' /\ RowCause(c)'
  BY <1>1, OtherRow DEF PipelineInv
<1>5. \A w \in Slot : SlotStage(w)'
  BY <1>1, <1>2, OtherSlot DEF PipelineInv, Settled
<1>6. OneRow'
  BY <1>1, <1>2, SameRows DEF PipelineInv
<1>7. QED
  BY <1>3, <1>4, <1>5, <1>6 DEF Rest

\* A job is handed on: it is not lost, completed only for a settled row, and
\* its attempts only grow.
HandedOn(d) ==
  /\ delivery[d].pc # "enqueue"
  /\ job'[d].state # "none" /\ (job'[d].state = "completed" => Settled(d)')
  /\ job'[d].owner # None => job'[d].state = "active"
  /\ job'[d].attemptsMade \in Nat /\ job'[d].attemptsMade >= job[d].attemptsMade
  /\ d \in handlers' => d \in handlers \/ job'[d].attemptsMade >= MaxAttempts

\* A step of one job's stored row: it settles the row or leaves it, and hands
\* the job on or leaves it.
LEMMA MovedJob ==
  ASSUME PipelineInv, NEW d \in Delivery, log[d].status # "none", UNCHANGED delivery,
         \A c \in Delivery : c # d => /\ job'[c] = job[c] /\ log'[c] = log[c]
                                      /\ events'[c] = events[c]
                                      /\ (c \in handlers' => c \in handlers),
         \/ log'[d] = log[d] /\ events'[d] = events[d]
         \/ log'[d].status = "processed",
         \/ job'[d] = job[d] /\ (d \in handlers' => d \in handlers)
         \/ HandedOn(d)
  PROVE  (\A c \in Delivery : RowStage(c)' /\ RowCause(c)') /\ OneRow'
<1>1. RowStage(d)'
  BY DEF PipelineInv, RowStage, Settled, HandedOn
<1>2. RowCause(d)'
  <2>1. job[d] \in JobRecord /\ MaxAttempts \in Nat
    BY BoundAssumption DEF PipelineInv, TypeInv, TypeOK
  <2>2. job[d].attemptsMade \in Nat
    BY <2>1 DEF JobRecord
  <2>3. QED
    BY <2>1, <2>2 DEF PipelineInv, RowCause, Settled, HandedOn
<1>3. \A c \in Delivery : c # d => RowStage(c)' /\ RowCause(c)'
  BY OtherRow DEF PipelineInv
<1>4. OneRow'
  BY SameRows DEF PipelineInv
<1>5. QED
  BY <1>1, <1>2, <1>3, <1>4

LEMMA StallRetryRows ==
  ASSUME PipelineInv, NEW d \in Delivery, StallJob(d) \/ RetryFailed(d)
  PROVE  Rest'
<1>1. job[d] \in JobRecord /\ DOMAIN job = Delivery
  BY DEF PipelineInv, TypeInv, TypeOK
<1>2. UNCHANGED <<delivery, log, events, slot>> /\ job[d].state # "none"
  BY DEF StallJob, RetryFailed, FailedJobs
<1>3. log[d].status # "none" /\ delivery[d].pc # "enqueue"
  BY <1>2 DEF PipelineInv, RowStage
<1> DEFINE Moved ==
      /\ \A c \in Delivery : c # d => job'[c] = job[c] /\ (c \in handlers' => c \in handlers)
      /\ job'[d].state \in {"waiting", "failed"} /\ job'[d].owner = None
      /\ job'[d].attemptsMade \in Nat /\ job'[d].attemptsMade >= job[d].attemptsMade
      /\ d \in handlers' => d \in handlers \/ job'[d].attemptsMade >= MaxAttempts
<1>4. Moved
  <2>1. ASSUME StallJob(d), job[d].stalls < MaxStalls
        PROVE  Moved
    BY <1>1, <2>1 DEF StallJob, JobRecord
  <2>2. ASSUME UseAttempt(d, TRUE)
        PROVE  Moved
    <3>1. /\ \A c \in Delivery : c # d => job'[c] = job[c]
                                            /\ (c \in handlers' => c \in handlers)
          /\ job'[d].attemptsMade = job[d].attemptsMade + 1
          /\ job'[d].owner = None /\ job'[d].state \in {"waiting", "failed"}
          /\ d \in handlers' => d \in handlers \/ job'[d].attemptsMade >= MaxAttempts
      BY <2>2, UseAttemptEffect DEF PipelineInv
    <3>2. job[d].attemptsMade \in Nat
      BY <1>1 DEF JobRecord
    <3>3. QED
      BY <3>1, <3>2
  <2>3. ASSUME RetryFailed(d)
        PROVE  Moved
    <3>1. job[d].state = "failed" /\ job' = [job EXCEPT ![d].state = "waiting"]
          /\ handlers' = handlers
      BY <2>3 DEF RetryFailed, FailedJobs
    <3>2. job[d].owner = None
      BY <3>1 DEF PipelineInv, RowStage
    <3>3. QED
      BY <1>1, <3>1, <3>2 DEF JobRecord
  <2>4. QED
    BY <2>1, <2>2, <2>3 DEF StallJob
<1>5. (\A c \in Delivery : RowStage(c)' /\ RowCause(c)') /\ OneRow'
  BY <1>2, <1>3, <1>4, MovedJob DEF HandedOn
<1>6. \A w \in Slot : SlotStage(w)'
  BY <1>2, OtherSlot DEF PipelineInv, Settled
<1>7. QED
  BY <1>5, <1>6 DEF Rest

LEMMA FetchRows ==
  ASSUME PipelineInv, NEW w \in Slot, NEW d \in Delivery, FetchJob(w, d)
  PROVE  Rest'
<1>1. job[d] \in JobRecord /\ DOMAIN job = Delivery /\ DOMAIN slot = Slot
  BY DEF PipelineInv, TypeInv, TypeOK
<1>2. UNCHANGED <<delivery, log, events, handlers>> /\ job[d].state = "waiting"
  BY DEF FetchJob
<1>3. log[d].status # "none" /\ delivery[d].pc # "enqueue"
  BY <1>2 DEF PipelineInv, RowStage
<1>4. /\ \A c \in Delivery : c # d => job'[c] = job[c]
      /\ job'[d].state = "active" /\ job'[d].attemptsMade = job[d].attemptsMade
      /\ job'[d].attemptsMade \in Nat
  BY <1>1 DEF FetchJob, JobRecord
<1>5. (\A c \in Delivery : RowStage(c)' /\ RowCause(c)') /\ OneRow'
  <2>1. HandedOn(d)
    BY <1>1, <1>2, <1>3, <1>4 DEF HandedOn, JobRecord
  <2>2. QED
    BY <1>2, <1>3, <1>4, <2>1, MovedJob
<1>6. \A v \in Slot : SlotStage(v)'
  <2>1. slot'[w] = [pc |-> "load", job |-> d] /\ \A v \in Slot : v # w => slot'[v] = slot[v]
    BY <1>1 DEF FetchJob
  <2>2. SlotStage(w)'
    BY <1>2, <1>3, <2>1 DEF SlotStage
  <2>3. \A v \in Slot : v # w => SlotStage(v)'
    BY <1>2, <2>1, OtherSlot DEF PipelineInv, Settled
  <2>4. QED
    BY <2>2, <2>3
<1>7. QED
  BY <1>5, <1>6 DEF Rest
-----------------------------------------------------------------------------
\* A failing attempt touches the slot's own job only, and empties the slot.
LEMMA FailAttemptHandsOn ==
  ASSUME PipelineInv, NEW w \in Slot, NEW d \in Delivery, slot[w].job = d, FailAttempt(w)
  PROVE  /\ \A c \in Delivery : c # d => /\ job'[c] = job[c]
                                         /\ (c \in handlers' => c \in handlers)
         /\ (job'[d] = job[d] /\ (d \in handlers' => d \in handlers)) \/ HandedOn(d)
<1>1. job[d] \in JobRecord
  BY DEF PipelineInv, TypeInv, TypeOK
<1>2. \A c \in Delivery : c # d => job'[c] = job[c] /\ (c \in handlers' => c \in handlers)
  BY FailAttemptEffect DEF PipelineInv
<1>3. CASE job[d].owner # w /\ UNCHANGED <<job, handlers>>
  BY <1>2, <1>3
<1>4. CASE job[d].owner = w
  <2>1. w # None
    BY EventAssumption
  <2>2. delivery[d].pc # "enqueue"
    BY <1>1, <1>4, <2>1 DEF PipelineInv, RowStage
  <2>3. /\ job'[d].attemptsMade = job[d].attemptsMade + 1 /\ job'[d].owner = None
        /\ job'[d].state \in {"waiting", "failed"}
        /\ d \in handlers' => d \in handlers \/ job'[d].attemptsMade >= MaxAttempts
    BY <1>4, FailAttemptEffect DEF PipelineInv
  <2>4. job[d].attemptsMade \in Nat
    BY <1>1 DEF JobRecord
  <2>5. HandedOn(d)
    BY <2>2, <2>3, <2>4 DEF HandedOn
  <2>6. QED
    BY <1>2, <2>5
<1>5. QED
  BY <1>3, <1>4, FailAttemptEffect DEF PipelineInv

\* The slots after a step of one of them: it is empty, or goes to a place that
\* the row of its job permits.
LEMMA MovedSlot ==
  ASSUME PipelineInv, NEW w \in Slot, slot[w].pc # "idle",
         NEW d \in Delivery, slot[w].job = d,
         \/ slot' = [slot EXCEPT ![w] = [pc |-> "idle", job |-> None]]
         \/ slot' = [slot EXCEPT ![w].pc = "commit"]
         \/ slot' = [slot EXCEPT ![w].pc = "ack"] /\ Settled(d)',
         \A c \in Delivery : /\ log[c].status # "none" => log'[c].status # "none"
                             /\ Settled(c) => Settled(c)'
  PROVE  \A v \in Slot : SlotStage(v)'
<1>1. slot[w] \in SlotRecord /\ DOMAIN slot = Slot
  BY DEF PipelineInv, TypeInv, TypeOK
<1>2. log[d].status # "none"
  BY DEF PipelineInv, SlotStage
<1>3. SlotStage(w)'
  BY <1>1, <1>2 DEF SlotStage, SlotRecord
<1>4. ASSUME NEW v \in Slot, v # w
      PROVE  SlotStage(v)'
  <2>1. slot'[v] = slot[v]
    BY <1>1, <1>4
  <2>2. QED
    BY <2>1, OtherSlot DEF PipelineInv
<1>5. QED
  BY <1>3, <1>4

LEMMA LoadRows ==
  ASSUME PipelineInv, NEW w \in Slot, LoadLog(w)
  PROVE  Rest'
<1>0. slot[w].pc # "idle"
  BY DEF LoadLog
<1>1. PICK d \in Delivery : slot[w].job = d
  BY <1>0 DEF PipelineInv, TypeInv, BusySlots
<1>2. slot[w].pc # "idle" /\ UNCHANGED <<delivery, log, events>>
  BY DEF LoadLog
<1>3. log[d].status # "none"
  BY <1>2, <1>1 DEF PipelineInv, SlotStage
<1>4. CASE slot' = [slot EXCEPT ![w].pc = "commit"] /\ UNCHANGED <<job, handlers>>
  <2>1. (\A c \in Delivery : RowStage(c)' /\ RowCause(c)') /\ OneRow'
    BY <1>2, <1>3, <1>4, MovedJob
  <2>2. \A v \in Slot : SlotStage(v)'
    BY <1>2, <1>4, <1>1, MovedSlot DEF Settled
  <2>3. QED
    BY <2>1, <2>2 DEF Rest
<1>5. CASE FailAttempt(w)
  <2>1. (\A c \in Delivery : RowStage(c)' /\ RowCause(c)') /\ OneRow'
    BY <1>2, <1>3, <1>5, <1>1, FailAttemptHandsOn, MovedJob
  <2>2. slot' = [slot EXCEPT ![w] = [pc |-> "idle", job |-> None]]
    BY <1>5 DEF FailAttempt
  <2>3. \A v \in Slot : SlotStage(v)'
    BY <1>2, <2>2, <1>1, MovedSlot DEF Settled
  <2>4. QED
    BY <2>1, <2>3 DEF Rest
<1>6. QED
  BY <1>4, <1>5 DEF LoadLog

\* The transaction of process(): whatever becomes of the job, the event row and
\* the verdict come together.
LEMMA CommitRows ==
  ASSUME PipelineInv, NEW w \in Slot, CommitLog(w)
  PROVE  Rest'
<1>0. slot[w].pc # "idle"
  BY DEF CommitLog
<1>1. PICK d \in Delivery : slot[w].job = d
  BY <1>0 DEF PipelineInv, TypeInv, BusySlots
<1>2. slot[w].pc # "idle" /\ UNCHANGED delivery
  BY DEF CommitLog
<1>3. log[d].status # "none"
  BY <1>2, <1>1 DEF PipelineInv, SlotStage
<1>4. ASSUME RecordEvent(d)
      PROVE  /\ \A c \in Delivery : c # d => log'[c] = log[c] /\ events'[c] = events[c]
             /\ log'[d].status = "processed"
  <2>1. log[d] \in LogRecord /\ DOMAIN log = Delivery /\ DOMAIN events = Delivery
    BY DEF PipelineInv, TypeInv, TypeOK
  <2>2. QED
    BY <1>4, <2>1 DEF RecordEvent, LogRecord
<1>5. RecordEvent(d) \/ UNCHANGED <<log, events>>
  BY <1>1 DEF CommitLog
<1>6. /\ \A c \in Delivery : c # d => log'[c] = log[c] /\ events'[c] = events[c]
      /\ (log'[d] = log[d] /\ events'[d] = events[d]) \/ log'[d].status = "processed"
      /\ \A c \in Delivery : /\ log[c].status # "none" => log'[c].status # "none"
                             /\ Settled(c) => Settled(c)'
  <2>1. CASE RecordEvent(d)
    BY <1>4, <2>1 DEF Settled
  <2>2. CASE UNCHANGED <<log, events>>
    BY <2>2 DEF Settled
  <2>3. QED
    BY <1>5, <2>1, <2>2
<1>7. CASE RecordEvent(d) /\ slot' = [slot EXCEPT ![w].pc = "ack"]
             /\ UNCHANGED <<job, handlers>>
  <2>1. (\A c \in Delivery : RowStage(c)' /\ RowCause(c)') /\ OneRow'
    BY <1>2, <1>3, <1>6, <1>7, MovedJob
  <2>2. Settled(d)'
    BY <1>4, <1>7 DEF Settled
  <2>3. \A v \in Slot : SlotStage(v)'
    BY <1>2, <1>6, <1>7, <2>2, <1>1, MovedSlot
  <2>4. QED
    BY <2>1, <2>3 DEF Rest
<1>8. CASE FailAttempt(w)
  <2>1. (\A c \in Delivery : RowStage(c)' /\ RowCause(c)') /\ OneRow'
    BY <1>2, <1>3, <1>6, <1>8, <1>1, FailAttemptHandsOn, MovedJob
  <2>2. slot' = [slot EXCEPT ![w] = [pc |-> "idle", job |-> None]]
    BY <1>8 DEF FailAttempt
  <2>3. \A v \in Slot : SlotStage(v)'
    BY <1>2, <1>6, <2>2, <1>1, MovedSlot
  <2>4. QED
    BY <2>1, <2>3 DEF Rest
<1>9. QED
  BY <1>1, <1>7, <1>8 DEF CommitLog

LEMMA AckRows ==
  ASSUME PipelineInv, NEW w \in Slot, AckJob(w)
  PROVE  Rest'
<1>0. slot[w].pc = "ack"
  BY DEF AckJob
<1>1. PICK d \in Delivery : slot[w].job = d
  BY <1>0 DEF PipelineInv, TypeInv, BusySlots
<1>2. /\ slot[w].pc = "ack" /\ UNCHANGED <<delivery, log, events, handlers>>
      /\ slot' = [slot EXCEPT ![w] = [pc |-> "idle", job |-> None]]
  BY DEF AckJob
<1>3. /\ log[d].status # "none" /\ Settled(d)
      /\ job[d] \in JobRecord /\ DOMAIN job = Delivery
  BY <1>2, <1>1 DEF PipelineInv, SlotStage, TypeInv, TypeOK
<1>4. \A c \in Delivery : c # d => job'[c] = job[c]
  BY <1>3, <1>1 DEF AckJob
<1>5. job'[d] = job[d] \/ HandedOn(d)
  <2>1. CASE job[d].owner = w
    <3>1. w # None
      BY EventAssumption
    <3>2. delivery[d].pc # "enqueue"
      BY <1>3, <2>1, <3>1 DEF PipelineInv, RowStage
    <3>3. /\ job'[d].state = "completed" /\ job'[d].owner = None
          /\ job'[d].attemptsMade = job[d].attemptsMade
      BY <1>1, <1>3, <2>1 DEF AckJob, JobRecord
    <3>4. job[d].attemptsMade \in Nat /\ Settled(d)'
      BY <1>2, <1>3 DEF JobRecord, Settled
    <3>5. QED
      BY <1>2, <3>2, <3>3, <3>4 DEF HandedOn
  <2>2. CASE job[d].owner # w
    BY <1>1, <2>2 DEF AckJob
  <2>3. QED
    BY <2>1, <2>2
<1>6. (\A c \in Delivery : RowStage(c)' /\ RowCause(c)') /\ OneRow'
  BY <1>2, <1>3, <1>4, <1>5, MovedJob
<1>7. \A v \in Slot : SlotStage(v)'
  BY <1>2, <1>1, MovedSlot DEF Settled
<1>8. QED
  BY <1>6, <1>7 DEF Rest

\* The clean-up and the crashes change no status and no job.
LEMMA HouseRows ==
  ASSUME PipelineInv,
         \/ \E old \in SUBSET Delivery : DeleteOldEvents(old)
         \/ StripOldPayloads \/ ApiCrash \/ WorkerCrash \/ UNCHANGED vars
  PROVE  Rest'
<1>1. ASSUME NEW old \in SUBSET Delivery, DeleteOldEvents(old)
      PROVE  Rest'
  <2>1. /\ UNCHANGED <<delivery, log, job, slot, handlers>>
        /\ \A c \in Delivery : events'[c] = events[c] \/ events'[c] = 0
    BY <1>1 DEF DeleteOldEvents, queue
  <2>2. \A c \in Delivery : RowStage(c)' /\ RowCause(c)'
    BY <2>1, OtherRow DEF PipelineInv
  <2>3. (\A w \in Slot : SlotStage(w)') /\ OneRow'
    BY <2>1, OtherSlot, SameRows DEF PipelineInv, Settled
  <2>4. QED
    BY <2>2, <2>3 DEF Rest
<1>2. CASE StripOldPayloads
  <2>1. /\ UNCHANGED <<delivery, events, job, slot, handlers>>
        /\ \A c \in Delivery : log'[c].status = log[c].status
        /\ \A c \in Delivery : log'[c] = log[c] \/ log'[c].normalized = FALSE
    BY <1>2 DEF StripOldPayloads, queue, PipelineInv, TypeInv, TypeOK, LogRecord
  <2>2. \A c \in Delivery : RowStage(c)' /\ RowCause(c)'
    BY <2>1 DEF PipelineInv, RowStage, RowCause, Settled
  <2>3. (\A w \in Slot : SlotStage(w)') /\ OneRow'
    BY <2>1, OtherSlot, SameRows DEF PipelineInv, Settled
  <2>4. QED
    BY <2>2, <2>3 DEF Rest
<1>3. CASE ApiCrash
  <2>1. /\ UNCHANGED <<log, events, job, slot, handlers>>
        /\ \A c \in Delivery :
             /\ delivery'[c].pc \in {delivery[c].pc, "dropped"}
             /\ delivery'[c].reply = delivery[c].reply
             /\ delivery'[c].event = delivery[c].event
    BY <1>3 DEF ApiCrash, queue, PipelineInv, TypeInv, TypeOK, DeliveryRecord
  <2>2. \A c \in Delivery : RowStage(c)' /\ RowCause(c)'
    BY <2>1 DEF PipelineInv, RowStage, RowCause, Settled
  <2>3. (\A w \in Slot : SlotStage(w)') /\ OneRow'
    BY <2>1, OtherSlot, SameRows DEF PipelineInv, Settled
  <2>4. QED
    BY <2>2, <2>3 DEF Rest
<1>4. CASE WorkerCrash
  <2>1. /\ UNCHANGED <<delivery, log, events, job>> /\ handlers' = {}
        /\ \A w \in Slot : slot'[w].pc = "idle"
    BY <1>4 DEF WorkerCrash
  <2>2. \A c \in Delivery : RowStage(c)' /\ RowCause(c)'
    BY <2>1, OtherRow DEF PipelineInv
  <2>3. (\A w \in Slot : SlotStage(w)') /\ OneRow'
    BY <2>1, SameRows DEF PipelineInv, SlotStage
  <2>4. QED
    BY <2>2, <2>3 DEF Rest
<1>5. CASE UNCHANGED vars
  <2>1. UNCHANGED <<delivery, log, events, job, slot, handlers>>
    BY <1>5 DEF vars, queue
  <2>2. QED
    BY <2>1, OtherRow, OtherSlot, SameRows DEF PipelineInv, Rest, Settled
<1>6. QED
  BY <1>1, <1>2, <1>3, <1>4, <1>5

LEMMA PipelineStep == PipelineInv /\ [Next]_vars => PipelineInv'
<1> SUFFICES ASSUME PipelineInv, [Next]_vars
             PROVE  PipelineInv'
  OBVIOUS
<1>1. TypeInv'
  BY IngestTypeStep DEF PipelineInv
<1>2. ASSUME NEW w \in Slot, WorkerStep(w)
      PROVE  Rest'
  BY <1>2, FetchRows, LoadRows, CommitRows, AckRows DEF WorkerStep
<1>3. Rest'
  BY <1>2, PipelineSteps, ReceiveRows, CreateRows, EnqueueRows, MarkRows,
     StallRetryRows, HouseRows
<1>4. QED
  BY <1>1, <1>3 DEF PipelineInv, Rest

LEMMA PipelineInvariant == Spec => []PipelineInv
BY PipelineInit, PipelineStep, PTL DEF Spec
-----------------------------------------------------------------------------
\* However the deliveries of a keyed event race, one row is stored for it.
THEOREM OneRowPerKey == Spec => []UniqueLog
<1>1. PipelineInv => UniqueLog
  <2> SUFFICES ASSUME PipelineInv, NEW e \in Keyed
               PROVE  Cardinality(Stored(e)) <= 1
    BY DEF UniqueLog
  <2>1. CASE Stored(e) = {}
    BY <2>1, FS_EmptySet
  <2>2. CASE Stored(e) # {}
    <3>1. PICK d \in Stored(e) : TRUE
      BY <2>2
    <3>2. Stored(e) = {d}
      BY <3>1 DEF PipelineInv, OneRow
    <3>3. QED
      BY <3>2, FS_Singleton
  <2>3. QED
    BY <2>1, <2>2
<1>2. QED
  BY <1>1, PipelineInvariant, PTL

\* A log answered with "received" has a job, or a verdict, whatever fails.
THEOREM AcceptedIsKept == Spec => []AcceptedNotLost
<1>1. PipelineInv => AcceptedNotLost
  <2> SUFFICES ASSUME PipelineInv, NEW d \in Delivery, delivery[d].reply = "received"
               PROVE  \/ job[d].state \in {"waiting", "active", "failed"}
                      \/ log[d].status \in {"processed", "failed"}
    BY DEF AcceptedNotLost
  <2>1. job[d] \in JobRecord
    BY DEF PipelineInv, TypeInv, TypeOK
  <2>2. QED
    BY <2>1 DEF PipelineInv, RowStage, Settled, JobRecord
<1>2. QED
  BY <1>1, PipelineInvariant, PTL

\* No event row or normalized payload stands beside an unsettled log row.
THEOREM EventsComeWithVerdicts == Spec => []EventImpliesVerdict
<1>1. PipelineInv => EventImpliesVerdict
  <2> SUFFICES ASSUME PipelineInv, NEW d \in Delivery,
                      events[d] > 0 \/ log[d].normalized
               PROVE  log[d].status \in {"processed", "failed"}
    BY DEF EventImpliesVerdict
  <2>1. log[d].normalized \in BOOLEAN
    BY DEF PipelineInv, TypeInv, TypeOK, LogRecord
  <2>2. events[d] > 0 \/ log[d].normalized = TRUE
    BY <2>1
  <2>3. QED
    BY <2>2 DEF PipelineInv, RowCause, Settled
<1>2. QED
  BY <1>1, PipelineInvariant, PTL

\* No row is marked failed while its job has attempts left.
THEOREM FailedIsExhausted == Spec => []FailedMeansExhausted
<1>1. PipelineInv => FailedMeansExhausted
  BY DEF PipelineInv, RowCause, FailedMeansExhausted
<1>2. QED
  BY <1>1, PipelineInvariant, PTL
-----------------------------------------------------------------------------
(***************************************************************************)
(* Duplicates: every event row is paid for by a dispatch of its job, and a *)
(* slot that may still write one holds a dispatch that is not used up.     *)
(***************************************************************************)
Writers(d) == {w \in Slot : slot[w].pc \in {"load", "commit"} /\ slot[w].job = d}

Dispatches(d) ==
  job[d].stalls + job[d].attemptsMade
    + (IF job[d].state \in {"active", "completed"} THEN 1 ELSE 0)

PaidFor(d) == events[d] + Cardinality(Writers(d)) <= Dispatches(d)

LEMMA WritersFinite ==
  ASSUME NEW d
  PROVE  /\ IsFiniteSet(Writers(d)) /\ Cardinality(Writers(d)) \in Nat
         /\ IsFiniteSet(Writers(d)') /\ Cardinality(Writers(d)') \in Nat
<1>1. Writers(d) \subseteq Slot /\ Writers(d)' \subseteq Slot
  BY DEF Writers
<1>2. QED
  BY <1>1, SlotAssumption, FS_Subset, FS_CardinalityType

LEMMA DispatchesType ==
  ASSUME TypeInv, NEW d \in Delivery
  PROVE  Dispatches(d) \in Nat /\ events[d] \in Nat
<1>1. job[d] \in JobRecord /\ events[d] \in Nat /\ MaxStalls \in Nat
  BY BoundAssumption DEF TypeInv, TypeOK
<1>2. job[d].stalls \in Nat /\ job[d].attemptsMade \in Nat
  BY <1>1 DEF JobRecord
<1>3. QED
  BY <1>1, <1>2 DEF Dispatches

\* A step that takes no writer on and writes no event row, or that turns a
\* writer into an event row.
LEMMA NoNewWriter ==
  ASSUME TypeInv, TypeInv', NEW d \in Delivery, PaidFor(d),
         Dispatches(d)' >= Dispatches(d),
         \/ events'[d] <= events[d] /\ Writers(d)' \subseteq Writers(d)
         \/ /\ events'[d] <= events[d] + 1
            /\ \E w \in Writers(d) : Writers(d)' \subseteq Writers(d) \ {w}
  PROVE  PaidFor(d)'
<1>1. /\ Dispatches(d) \in Nat /\ events[d] \in Nat
      /\ Dispatches(d)' \in Nat /\ events'[d] \in Nat
  <2>1. Dispatches(d) \in Nat /\ events[d] \in Nat
    BY DispatchesType
  <2>2. (Dispatches(d) \in Nat /\ events[d] \in Nat)'
    BY DispatchesType, PTL
  <2>3. QED
    BY <2>1, <2>2
<1>2. CASE events'[d] <= events[d] /\ Writers(d)' \subseteq Writers(d)
  <2>1. Cardinality(Writers(d)') <= Cardinality(Writers(d))
    BY <1>2, WritersFinite, FS_Subset
  <2>2. QED
    BY <1>1, <1>2, <2>1, WritersFinite DEF PaidFor
<1>3. ASSUME NEW w \in Writers(d), events'[d] <= events[d] + 1,
             Writers(d)' \subseteq Writers(d) \ {w}
      PROVE  PaidFor(d)'
  <2>1. /\ IsFiniteSet(Writers(d) \ {w})
        /\ Cardinality(Writers(d) \ {w}) = Cardinality(Writers(d)) - 1
    BY WritersFinite, FS_RemoveElement
  <2>2. Cardinality(Writers(d)') <= Cardinality(Writers(d) \ {w})
    BY <1>3, <2>1, FS_Subset
  <2>3. QED
    BY <1>1, <1>3, <2>1, <2>2, WritersFinite DEF PaidFor
<1>4. QED
  BY <1>2, <1>3

LEMMA PaidInit == Init => \A d \in Delivery : PaidFor(d)
<1> SUFFICES ASSUME Init, NEW d \in Delivery
             PROVE  PaidFor(d)
  OBVIOUS
<1>1. Writers(d) = {}
  BY DEF Init, Writers
<1>2. Cardinality(Writers(d)) = 0
  BY <1>1, FS_EmptySet
<1>3. events[d] = 0 /\ Dispatches(d) = 0
  <2>1. /\ events[d] = 0 /\ job[d].stalls = 0 /\ job[d].attemptsMade = 0
        /\ job[d].state = "none"
    BY DEF Init
  <2>2. QED
    BY <2>1 DEF Dispatches
<1>4. QED
  BY <1>2, <1>3 DEF PaidFor

\* Steps that take place outside the worker's slots and the queue.
LEMMA PaidElsewhere ==
  ASSUME PipelineInv, TypeInv', NEW d \in Delivery, PaidFor(d),
         \/ \E c \in Delivery : \/ \E e \in EventId : Receive(c, e)
                              \/ Refuse(c) \/ CreateLog(c) \/ MarkFailed(c)
         \/ \E old \in SUBSET Delivery : DeleteOldEvents(old)
         \/ StripOldPayloads \/ ApiCrash \/ WorkerCrash \/ UNCHANGED vars
  PROVE  PaidFor(d)'
<1>1. events[d] \in Nat
  BY DEF PipelineInv, TypeInv, TypeOK
<1>2. /\ UNCHANGED job
      /\ events'[d] = events[d] \/ events'[d] = 0
      /\ slot' = slot \/ \A w \in Slot : slot'[w].pc = "idle"
  <2>1. CASE \E c \in Delivery : (\E e \in EventId : Receive(c, e)) \/ Refuse(c)
    BY <2>1 DEF Receive, Refuse, queue
  <2>2. CASE \E c \in Delivery : CreateLog(c) \/ MarkFailed(c)
    BY <2>2 DEF CreateLog, MarkFailed, queue
  <2>3. CASE \E old \in SUBSET Delivery : DeleteOldEvents(old)
    BY <2>3 DEF DeleteOldEvents, queue
  <2>4. CASE StripOldPayloads \/ ApiCrash \/ UNCHANGED vars
    BY <2>4 DEF StripOldPayloads, ApiCrash, vars, queue
  <2>5. CASE WorkerCrash
    BY <2>5 DEF WorkerCrash
  <2>6. QED
    BY <2>1, <2>2, <2>3, <2>4, <2>5
<1>3. Dispatches(d)' >= Dispatches(d)
  <2>1. Dispatches(d)' = Dispatches(d)
    BY <1>2 DEF Dispatches
  <2>2. QED
    BY <2>1, DispatchesType DEF PipelineInv
<1>4. Writers(d)' \subseteq Writers(d)
  BY <1>2 DEF Writers
<1>5. QED
  BY <1>1, <1>2, <1>3, <1>4, NoNewWriter DEF PipelineInv

\* Steps of the queue that leave the slots alone.
LEMMA PaidQueue ==
  ASSUME PipelineInv, TypeInv', NEW d \in Delivery, PaidFor(d), NEW c \in Delivery,
         EnqueueJob(c) \/ StallJob(c) \/ RetryFailed(c)
  PROVE  PaidFor(d)'
<1>1. UNCHANGED <<events, slot>>
  BY DEF EnqueueJob, StallJob, RetryFailed, FailedJobs
<1>2. job[c] \in JobRecord /\ DOMAIN job = Delivery
  BY DEF PipelineInv, TypeInv, TypeOK
<1>3. job[c].stalls \in Int /\ job[c].attemptsMade \in Nat
  BY <1>2, BoundAssumption DEF JobRecord
<1>4. Dispatches(d)' >= Dispatches(d)
  <2>1. CASE c # d
    <3>1. job'[d] = job[d]
      BY <1>2, <2>1, UseAttemptEffect DEF EnqueueJob, StallJob, RetryFailed, FailedJobs, PipelineInv
    <3>2. QED
      BY <3>1, DispatchesType DEF Dispatches, PipelineInv
  <2>2. ASSUME c = d, EnqueueJob(d)
        PROVE  Dispatches(d)' >= Dispatches(d)
    <3>1. job[d].state = "none"
      BY <2>2 DEF EnqueueJob, PipelineInv, RowStage
    <3>2. /\ job'[d].stalls = job[d].stalls /\ job'[d].attemptsMade = job[d].attemptsMade
          /\ job'[d].state \in {"none", "waiting"}
      BY <1>2, <2>2, <3>1 DEF EnqueueJob, JobRecord
    <3>3. QED
      BY <1>3, <2>2, <3>1, <3>2 DEF Dispatches
  <2>3. ASSUME c = d, StallJob(d), job[d].stalls < MaxStalls
        PROVE  Dispatches(d)' >= Dispatches(d)
    <3>1. /\ job[d].state = "active" /\ job'[d].stalls = job[d].stalls + 1
          /\ job'[d].attemptsMade = job[d].attemptsMade /\ job'[d].state = "waiting"
      BY <1>2, <2>3 DEF StallJob, JobRecord
    <3>2. QED
      BY <1>3, <2>3, <3>1 DEF Dispatches
  <2>4. ASSUME c = d, job[d].state = "active", UseAttempt(d, TRUE)
        PROVE  Dispatches(d)' >= Dispatches(d)
    <3>1. /\ job'[d].stalls = job[d].stalls
          /\ job'[d].attemptsMade = job[d].attemptsMade + 1
          /\ job'[d].state \in {"waiting", "failed"}
      BY <2>4, UseAttemptEffect DEF PipelineInv
    <3>2. QED
      BY <1>3, <2>4, <3>1 DEF Dispatches
  <2>5. ASSUME c = d, RetryFailed(d)
        PROVE  Dispatches(d)' >= Dispatches(d)
    <3>1. /\ job[d].state = "failed" /\ job'[d].stalls = job[d].stalls
          /\ job'[d].attemptsMade = job[d].attemptsMade /\ job'[d].state = "waiting"
      BY <1>2, <2>5 DEF RetryFailed, FailedJobs, JobRecord
    <3>2. QED
      BY <1>3, <2>5, <3>1 DEF Dispatches
  <2>6. QED
    BY <2>1, <2>2, <2>3, <2>4, <2>5 DEF StallJob
<1>5. Writers(d)' \subseteq Writers(d) /\ events'[d] <= events[d]
  BY <1>1, DispatchesType DEF Writers, PipelineInv
<1>6. QED
  BY <1>4, <1>5, NoNewWriter DEF PipelineInv

\* A failing attempt pays for itself.
LEMMA PaidFailure ==
  ASSUME PipelineInv, NEW d \in Delivery, NEW w \in Slot, NEW c \in Delivery,
         slot[w].job = c, FailAttempt(w)
  PROVE  Dispatches(d)' >= Dispatches(d)
<1>1. job[d] \in JobRecord /\ Dispatches(d) \in Nat
  BY DispatchesType DEF PipelineInv, TypeInv, TypeOK
<1>2. CASE job'[d] = job[d]
  BY <1>1, <1>2 DEF Dispatches
<1>3. CASE c = d /\ job[d].owner = w
  <2>1. w # None
    BY EventAssumption
  <2>2. job[d].state = "active"
    BY <1>3, <2>1 DEF PipelineInv, RowStage
  <2>3. /\ job'[d].stalls = job[d].stalls
        /\ job'[d].attemptsMade = job[d].attemptsMade + 1
        /\ job'[d].state \in {"waiting", "failed"}
    BY <1>3, FailAttemptEffect DEF PipelineInv
  <2>4. job[d].stalls \in Int /\ job[d].attemptsMade \in Nat
    BY <1>1, BoundAssumption DEF JobRecord
  <2>5. QED
    BY <2>2, <2>3, <2>4 DEF Dispatches
<1>4. QED
  BY <1>2, <1>3, FailAttemptEffect DEF PipelineInv

\* The steps of a slot: only fetching takes a writer on, and it is a dispatch.
LEMMA PaidWorker ==
  ASSUME PipelineInv, TypeInv', NEW d \in Delivery, PaidFor(d), NEW w \in Slot,
         WorkerStep(w)
  PROVE  PaidFor(d)'
<1>1. /\ slot[w] \in SlotRecord /\ DOMAIN slot = Slot /\ DOMAIN job = Delivery
      /\ job[d] \in JobRecord /\ events[d] \in Nat /\ Dispatches(d) \in Nat
  BY DispatchesType DEF PipelineInv, TypeInv, TypeOK
<1>2. ASSUME NEW c \in Delivery, FetchJob(w, c)
      PROVE  PaidFor(d)'
  <2>1. /\ slot'[w] = [pc |-> "load", job |-> c] /\ slot[w].pc = "idle"
        /\ \A v \in Slot : v # w => slot'[v] = slot[v]
        /\ events' = events
    BY <1>1, <1>2 DEF FetchJob
  <2>2. CASE c # d
    <3>1. Writers(d)' \subseteq Writers(d)
      BY <2>1, <2>2 DEF Writers
    <3>2. job'[d] = job[d]
      BY <1>1, <1>2, <2>2 DEF FetchJob
    <3>3. Dispatches(d)' >= Dispatches(d)
      BY <1>1, <3>2 DEF Dispatches
    <3>4. QED
      BY <1>1, <2>1, <3>1, <3>3, NoNewWriter DEF PipelineInv
  <2>3. CASE c = d
    <3>1. Writers(d)' = Writers(d) \cup {w} /\ w \notin Writers(d)
      BY <2>1, <2>3 DEF Writers
    <3>2. Cardinality(Writers(d)') = Cardinality(Writers(d)) + 1
      BY <3>1, WritersFinite, FS_AddElement
    <3>3. /\ job[d].state = "waiting" /\ job'[d].state = "active"
          /\ job'[d].stalls = job[d].stalls /\ job'[d].attemptsMade = job[d].attemptsMade
      BY <1>1, <1>2, <2>3 DEF FetchJob, JobRecord
    <3>4. job[d].stalls \in Int /\ job[d].attemptsMade \in Nat
      BY <1>1, BoundAssumption DEF JobRecord
    <3>5. Dispatches(d)' = Dispatches(d) + 1
      BY <3>3, <3>4 DEF Dispatches
    <3>6. QED
      BY <1>1, <2>1, <3>2, <3>5, WritersFinite DEF PaidFor
  <2>4. QED
    BY <2>2, <2>3
<1>3. ASSUME slot[w].pc # "idle"
      PROVE  \E c \in Delivery : slot[w].job = c
  BY <1>3 DEF PipelineInv, TypeInv, BusySlots
<1>4. ASSUME LoadLog(w), NEW c \in Delivery, slot[w].job = c
      PROVE  PaidFor(d)'
  <2>1. slot[w].pc = "load" /\ events' = events
    BY <1>4 DEF LoadLog
  <2>2. Writers(d)' \subseteq Writers(d)
    <3>1. \/ slot' = [slot EXCEPT ![w].pc = "commit"]
          \/ slot' = [slot EXCEPT ![w] = [pc |-> "idle", job |-> None]]
      BY <1>4 DEF LoadLog, FailAttempt
    <3>2. QED
      BY <1>1, <2>1, <3>1 DEF Writers, SlotRecord
  <2>3. Dispatches(d)' >= Dispatches(d)
    <3>1. CASE FailAttempt(w)
      BY <1>4, <3>1, PaidFailure
    <3>2. CASE UNCHANGED <<job, handlers>>
      BY <1>1, <3>2 DEF Dispatches
    <3>3. QED
      BY <1>4, <3>1, <3>2 DEF LoadLog
  <2>4. QED
    BY <1>1, <2>1, <2>2, <2>3, NoNewWriter DEF PipelineInv
<1>5. ASSUME CommitLog(w), NEW c \in Delivery, slot[w].job = c
      PROVE  PaidFor(d)'
  <2>1. slot[w].pc = "commit"
    BY <1>5 DEF CommitLog
  <2>2. \/ slot' = [slot EXCEPT ![w].pc = "ack"]
        \/ slot' = [slot EXCEPT ![w] = [pc |-> "idle", job |-> None]]
    BY <1>5 DEF CommitLog, FailAttempt
  <2>3. Writers(d)' \subseteq Writers(d) \ {w}
    BY <1>1, <2>2 DEF Writers, SlotRecord
  <2>4. Dispatches(d)' >= Dispatches(d)
    <3>1. CASE FailAttempt(w)
      BY <1>5, <3>1, PaidFailure
    <3>2. CASE UNCHANGED <<job, handlers>>
      BY <1>1, <3>2 DEF Dispatches
    <3>3. QED
      BY <1>5, <3>1, <3>2 DEF CommitLog
  <2>5. IF c = d THEN events'[d] \in {events[d], events[d] + 1} ELSE events'[d] = events[d]
    <3>1. DOMAIN events = Delivery
      BY DEF PipelineInv, TypeInv, TypeOK
    <3>2. RecordEvent(c) \/ UNCHANGED <<log, events>>
      BY <1>5 DEF CommitLog
    <3>3. QED
      BY <3>1, <3>2 DEF RecordEvent
  <2>6. CASE c = d
    <3>1. w \in Writers(d)
      BY <1>5, <2>1, <2>6 DEF Writers
    <3>2. events'[d] <= events[d] + 1
      BY <1>1, <2>5, <2>6
    <3>3. QED
      BY <2>3, <2>4, <3>1, <3>2, NoNewWriter DEF PipelineInv
  <2>7. CASE c # d
    <3>1. events'[d] <= events[d] /\ Writers(d)' \subseteq Writers(d)
      BY <1>1, <2>3, <2>5, <2>7
    <3>2. QED
      BY <2>4, <3>1, NoNewWriter DEF PipelineInv
  <2>8. QED
    BY <2>6, <2>7
<1>6. ASSUME AckJob(w), NEW c \in Delivery, slot[w].job = c
      PROVE  PaidFor(d)'
  <2>1. /\ slot[w].pc = "ack" /\ events' = events
        /\ slot' = [slot EXCEPT ![w] = [pc |-> "idle", job |-> None]]
    BY <1>6 DEF AckJob
  <2>2. Writers(d)' \subseteq Writers(d)
    BY <1>1, <2>1 DEF Writers
  <2>3. Dispatches(d)' >= Dispatches(d)
    <3>1. CASE c = d /\ job[d].owner = w
      <4>1. w # None
        BY EventAssumption
      <4>2. job[d].state = "active"
        BY <3>1, <4>1 DEF PipelineInv, RowStage
      <4>3. /\ job'[d].state = "completed" /\ job'[d].stalls = job[d].stalls
            /\ job'[d].attemptsMade = job[d].attemptsMade
        BY <1>1, <1>6, <3>1 DEF AckJob, JobRecord
      <4>4. QED
        BY <1>1, <4>2, <4>3 DEF Dispatches
    <3>2. CASE ~(c = d /\ job[d].owner = w)
      <4>1. job'[d] = job[d]
        BY <1>1, <1>6, <3>2 DEF AckJob
      <4>2. QED
        BY <1>1, <4>1 DEF Dispatches
    <3>3. QED
      BY <3>1, <3>2
  <2>4. QED
    BY <1>1, <2>1, <2>2, <2>3, NoNewWriter DEF PipelineInv
<1>7. CASE LoadLog(w) \/ CommitLog(w) \/ AckJob(w)
  <2>1. slot[w].pc # "idle"
    BY <1>7 DEF LoadLog, CommitLog, AckJob
  <2>2. QED
    BY <1>3, <1>4, <1>5, <1>6, <1>7, <2>1
<1>8. QED
  BY <1>2, <1>7 DEF WorkerStep

PaidInv == PipelineInv /\ \A d \in Delivery : PaidFor(d)

LEMMA PaidStep == PaidInv /\ [Next]_vars => PaidInv'
<1> SUFFICES ASSUME PaidInv, [Next]_vars
             PROVE  PaidInv'
  OBVIOUS
<1>1. PipelineInv' /\ TypeInv'
  BY PipelineStep DEF PaidInv, PipelineInv
<1>2. \A d \in Delivery : PaidFor(d)'
  BY <1>1, PipelineSteps, PaidElsewhere, PaidQueue, PaidWorker DEF PaidInv
<1>3. QED
  BY <1>1, <1>2 DEF PaidInv

\* Duplicate event rows are bounded by the redeliveries of the job, however many
\* slots work on it at once.
THEOREM DuplicatesAreBounded == Spec => []DuplicatesBounded
<1>1. Init => PaidInv
  BY PipelineInit, PaidInit DEF PaidInv
<1>2. PaidInv => DuplicatesBounded
  <2> SUFFICES ASSUME PaidInv, NEW d \in Delivery
               PROVE  events[d] <= Dispatches(d)
    BY DEF DuplicatesBounded, Dispatches
  <2>1. Dispatches(d) \in Nat /\ events[d] \in Nat
    BY DispatchesType DEF PaidInv, PipelineInv
  <2>2. QED
    BY <2>1, WritersFinite DEF PaidInv, PaidFor
<1>3. QED
  BY <1>1, <1>2, PaidStep, PTL DEF Spec
-----------------------------------------------------------------------------
(***************************************************************************)
(* FailureHasACause: a pending or stored failure of a row stands beside a  *)
(* fault, a stall, a clean-up, or an event that cannot be stored; and a    *)
(* stored payload that does not parse, beside a clean-up.                  *)
(***************************************************************************)
Cause(d) == EventOf(d) \in Poison \/ faults > 0 \/ job[d].stalls > 0 \/ retentions > 0

Explained(d) ==
  /\ log[d].status = "failed" \/ d \in handlers => Cause(d)
  /\ log[d].status # "none" /\ log[d].raw = "{}" => retentions > 0

CauseInv ==
  /\ \A d \in Delivery : Explained(d)
  /\ retention.pc = "strip" => retentions > 0

\* Faults, clean-ups and stalls are only ever added to.
LEMMA CounterSteps ==
  ASSUME [Next]_vars
  PROVE  /\ faults' = faults \/ faults' = faults + 1
         /\ retentions' = retentions \/ retentions' = retentions + 1
<1>1. ASSUME NEW d \in Delivery, NEW e \in EventId,
             Receive(d, e) \/ Refuse(d) \/ CreateLog(d) \/ EnqueueJob(d)
      PROVE  (faults' = faults \/ faults' = faults + 1) /\ retentions' = retentions
  BY <1>1 DEF Receive, Refuse, CreateLog, EnqueueJob, bounds, Fault
<1>2. ASSUME NEW w \in Slot, WorkerStep(w)
      PROVE  (faults' = faults \/ faults' = faults + 1) /\ retentions' = retentions
  BY <1>2 DEF WorkerStep, FetchJob, LoadLog, CommitLog, AckJob, bounds, Fault
<1>3. ASSUME NEW d \in Delivery, MarkFailed(d) \/ StallJob(d) \/ RetryFailed(d)
      PROVE  (faults' = faults \/ faults' = faults + 1) /\ retentions' = retentions
  BY <1>3 DEF MarkFailed, StallJob, RetryFailed, bounds, Fault
<1>4. ASSUME NEW old \in SUBSET Delivery, DeleteOldEvents(old)
      PROVE  faults' = faults /\ retentions' = retentions + 1
  BY <1>4 DEF DeleteOldEvents
<1>5. ASSUME StripOldPayloads \/ ApiCrash \/ WorkerCrash \/ UNCHANGED vars
      PROVE  faults' = faults /\ retentions' = retentions
  BY <1>5 DEF StripOldPayloads, ApiCrash, WorkerCrash, vars, bounds
<1>6. CASE \E d \in Delivery : \/ \E e \in EventId : Receive(d, e)
                               \/ Refuse(d) \/ CreateLog(d) \/ EnqueueJob(d)
  <2>1. CASE EventId = {}
    BY <1>6, <2>1 DEF Refuse, CreateLog, EnqueueJob, bounds, Fault
  <2>. QED BY <1>1, <1>6, <2>1
<1>. QED BY <1>2, <1>3, <1>4, <1>5, <1>6, PipelineSteps

LEMMA StallSteps ==
  ASSUME TypeInv, [Next]_vars, NEW c \in Delivery
  PROVE  job'[c].stalls = job[c].stalls \/ job'[c].stalls = job[c].stalls + 1
<1>0. job \in [Delivery -> JobRecord] /\ job[c] \in JobRecord
  BY DEF TypeInv, TypeOK
<1>1. ASSUME NEW d \in Delivery, NEW final \in BOOLEAN, UseAttempt(d, final)
      PROVE  job'[c].stalls = job[c].stalls
  BY <1>1, UseAttemptEffect
<1>2. ASSUME NEW d \in Delivery, EnqueueJob(d) \/ RetryFailed(d)
      PROVE  job'[c].stalls = job[c].stalls
  BY <1>0, <1>2 DEF EnqueueJob, RetryFailed, FailedJobs, JobRecord
<1>3. ASSUME NEW d \in Delivery, StallJob(d)
      PROVE  job'[c].stalls = job[c].stalls \/ job'[c].stalls = job[c].stalls + 1
  <2>1. CASE UseAttempt(d, TRUE)
    BY <1>1, <2>1
  <2>2. CASE job' = [job EXCEPT ![d].state = "waiting", ![d].owner = None,
                                ![d].stalls = @ + 1]
    BY <1>0, <2>2 DEF JobRecord
  <2>. QED BY <1>3, <2>1, <2>2 DEF StallJob
<1>4. ASSUME NEW w \in Slot, WorkerStep(w)
      PROVE  job'[c].stalls = job[c].stalls
  <2>1. ASSUME FailAttempt(w), slot[w].pc # "idle"
        PROVE  job'[c].stalls = job[c].stalls
    <3>1. slot[w].job \in Delivery
      BY <2>1 DEF TypeInv, BusySlots
    <3>. QED BY <1>1, <2>1, <3>1 DEF FailAttempt
  <2>2. CASE \E d \in Delivery : FetchJob(w, d)
    BY <1>0, <2>2 DEF FetchJob, JobRecord
  <2>3. CASE AckJob(w)
    BY <1>0, <2>3 DEF AckJob, JobRecord
  <2>. QED BY <1>4, <2>1, <2>2, <2>3 DEF WorkerStep, LoadLog, CommitLog
<1>5. ASSUME \/ \E d \in Delivery : \/ \E e \in EventId : Receive(d, e)
                                    \/ Refuse(d) \/ CreateLog(d) \/ MarkFailed(d)
             \/ \E old \in SUBSET Delivery : DeleteOldEvents(old)
             \/ StripOldPayloads \/ ApiCrash \/ WorkerCrash \/ UNCHANGED vars
      PROVE  job' = job
  BY <1>5
  DEF Receive, Refuse, CreateLog, MarkFailed, DeleteOldEvents, StripOldPayloads,
      ApiCrash, WorkerCrash, vars, queue
<1>. QED BY <1>2, <1>3, <1>4, <1>5, PipelineSteps

\* A delivery's event is chosen once.
LEMMA EventSteps ==
  ASSUME TypeInv, [Next]_vars, NEW c \in Delivery, delivery[c].pc # "idle"
  PROVE  EventOf(c)' = EventOf(c)
<1>0. delivery \in [Delivery -> DeliveryRecord] /\ delivery[c] \in DeliveryRecord
  BY DEF TypeInv, TypeOK
<1>1. ASSUME NEW d \in Delivery, NEW e \in EventId, Receive(d, e)
      PROVE  delivery'[c] = delivery[c]
  BY <1>0, <1>1 DEF Receive
<1>2. ASSUME NEW d \in Delivery, Refuse(d) \/ CreateLog(d) \/ EnqueueJob(d)
      PROVE  delivery'[c].event = delivery[c].event
  <2>1. CASE Refuse(d)
    BY <1>0, <2>1 DEF Refuse, DeliveryRecord
  <2>2. CASE CreateLog(d)
    BY <1>0, <2>2 DEF CreateLog, DeliveryRecord
  <2>3. CASE EnqueueJob(d)
    <3>1. \/ delivery' = [delivery EXCEPT
                 ![d] = [@ EXCEPT !.pc = "replied", !.reply = "received"]]
          \/ delivery' = [delivery EXCEPT ![d] = [@ EXCEPT !.pc = "thrown"]]
      BY <2>3 DEF EnqueueJob
    <3>2. c # d => delivery'[c] = delivery[c]
      BY <1>0, <3>1
    <3>3. c = d => \/ delivery'[c] = [delivery[c] EXCEPT !.pc = "replied",
                                                       !.reply = "received"]
                   \/ delivery'[c] = [delivery[c] EXCEPT !.pc = "thrown"]
      BY <1>0, <3>1
    <3>4. c = d => delivery'[c].event = delivery[c].event
      BY <1>0, <3>3 DEF DeliveryRecord
    <3>. QED BY <3>2, <3>4
  <2>. QED BY <1>2, <2>1, <2>2, <2>3
<1>3. CASE ApiCrash
  BY <1>0, <1>3 DEF ApiCrash, DeliveryRecord, EventOf
<1>4. ASSUME \/ \E w \in Slot : WorkerStep(w)
             \/ \E d \in Delivery : MarkFailed(d) \/ StallJob(d) \/ RetryFailed(d)
             \/ \E old \in SUBSET Delivery : DeleteOldEvents(old)
             \/ StripOldPayloads \/ WorkerCrash \/ UNCHANGED vars
      PROVE  delivery' = delivery
  BY <1>4
  DEF WorkerStep, FetchJob, LoadLog, CommitLog, AckJob, MarkFailed, StallJob,
      RetryFailed, DeleteOldEvents, StripOldPayloads, WorkerCrash, vars
<1>. QED BY <1>1, <1>2, <1>3, <1>4, PipelineSteps DEF EventOf

\* A cause is never lost.
LEMMA CauseStays ==
  ASSUME PipelineInv, [Next]_vars, NEW d \in Delivery, log[d].status # "none", Cause(d)
  PROVE  Cause(d)'
<1>1. TypeInv /\ delivery[d].pc # "idle"
  BY DEF PipelineInv, RowStage
<1>2. faults \in Nat /\ retentions \in Nat /\ job[d].stalls \in Nat
  BY BoundAssumption DEF PipelineInv, TypeInv, TypeOK, JobRecord
<1>3. EventOf(d)' = EventOf(d)
  BY <1>1, EventSteps
<1>4. /\ faults > 0 => faults' > 0
      /\ retentions > 0 => retentions' > 0
  BY <1>2, CounterSteps
<1>5. job[d].stalls > 0 => job'[d].stalls > 0
  BY <1>1, <1>2, StallSteps
<1>. QED BY <1>3, <1>4, <1>5 DEF Cause, EventOf

\* An attempt that uses up a job fails for a cause.
LEMMA AttemptHasCause ==
  ASSUME PipelineInv, CauseInv, [Next]_vars, NEW d \in Delivery,
         d \in handlers', d \notin handlers
  PROVE  Cause(d)'
<1>0. TypeInv /\ job \in [Delivery -> JobRecord] /\ job[d] \in JobRecord
      /\ log[d] \in LogRecord
      /\ faults \in Nat /\ retentions \in Nat
  BY BoundAssumption DEF PipelineInv, TypeInv, TypeOK
<1>1. ASSUME NEW w \in Slot, WorkerStep(w) PROVE Cause(d)'
  <2>1. FailAttempt(w) /\ slot[w].job = d /\ (LoadLog(w) \/ CommitLog(w))
    <3>1. FailAttempt(w) /\ (LoadLog(w) \/ CommitLog(w))
      BY <1>1 DEF WorkerStep, FetchJob, LoadLog, CommitLog, AckJob
    <3>2. slot[w].job \in Delivery
      BY <1>0, <3>1 DEF TypeInv, BusySlots, LoadLog, CommitLog
    <3>. QED BY <1>0, <3>1, <3>2, FailAttemptEffect
  <2>2. log[d].status # "none"
    BY <2>1 DEF PipelineInv, SlotStage, LoadLog, CommitLog
  <2>3. CASE Cause(d)
    BY <2>2, <2>3, CauseStays
  <2>4. CASE Fault
    BY <1>0, <2>4 DEF Fault, Cause
  <2>5. ASSUME ~Parses(log[d].raw) PROVE Cause(d)
    <3>1. log[d].raw = "{}"
      BY <1>0, <2>5 DEF Parses, LogRecord
    <3>. QED BY <2>2, <3>1 DEF CauseInv, Explained, Cause
  <2>6. EventOf(d) \in Poison => Cause(d)
    BY DEF Cause
  <2>7. CASE LoadLog(w)
    <3>1. ~Parses(log[d].raw) \/ Fault
      <4>1. handlers' # handlers
        OBVIOUS
      <4>. QED BY <2>1, <2>7, <4>1 DEF LoadLog
    <3>. QED BY <2>3, <2>4, <2>5, <3>1
  <2>8. CASE CommitLog(w)
    <3>1. EventOf(d) \in Poison \/ Fault
      <4>1. handlers' # handlers
        OBVIOUS
      <4>. QED BY <2>1, <2>8, <4>1 DEF CommitLog
    <3>. QED BY <2>3, <2>4, <2>6, <3>1
  <2>. QED BY <2>1, <2>7, <2>8
<1>2. ASSUME NEW c \in Delivery, StallJob(c) PROVE Cause(d)'
  <2>1. ~(job[c].stalls < MaxStalls) /\ UseAttempt(c, TRUE)
    BY <1>2 DEF StallJob
  <2>2. c = d
    BY <1>0, <2>1, UseAttemptEffect
  <2>3. job[d].stalls > 0
    BY <1>0, <2>1, <2>2, BoundAssumption DEF JobRecord
  <2>4. log[d].status # "none"
    BY <1>2, <2>2 DEF PipelineInv, RowStage, StallJob
  <2>. QED BY <2>3, <2>4, CauseStays DEF Cause
<1>3. ASSUME \/ \E c \in Delivery : \/ \E e \in EventId : Receive(c, e)
                                    \/ Refuse(c) \/ CreateLog(c) \/ EnqueueJob(c)
                                    \/ MarkFailed(c) \/ RetryFailed(c)
             \/ \E old \in SUBSET Delivery : DeleteOldEvents(old)
             \/ StripOldPayloads \/ ApiCrash \/ WorkerCrash \/ UNCHANGED vars
      PROVE  handlers' \subseteq handlers
  BY <1>3
  DEF Receive, Refuse, CreateLog, EnqueueJob, MarkFailed, RetryFailed,
      DeleteOldEvents, StripOldPayloads, ApiCrash, WorkerCrash, vars, queue
<1>. QED BY <1>1, <1>2, <1>3, PipelineSteps

\* How a step can change a row.
LEMMA RowSteps ==
  ASSUME PipelineInv, CauseInv, [Next]_vars, NEW d \in Delivery
  PROVE  \/ log'[d] = log[d]
         \/ log'[d].status = "received" /\ log'[d].raw # "{}"
         \/ log'[d].status = "processed" /\ log'[d].raw = log[d].raw
              /\ log[d].status # "none"
         \/ log'[d].status = "failed" /\ log'[d].raw = log[d].raw /\ d \in handlers
         \/ log'[d].status = log[d].status /\ retentions > 0
<1>0. TypeInv /\ log \in [Delivery -> LogRecord] /\ log[d] \in LogRecord
  BY DEF PipelineInv, TypeInv, TypeOK
<1>1. ASSUME NEW c \in Delivery, CreateLog(c)
      PROVE  \/ log'[d] = log[d]
             \/ log'[d].status = "received" /\ log'[d].raw # "{}"
  <2>1. PICK r \in LogRecord :
          /\ r.status = "received" /\ r.raw # "{}"
          /\ log' = [log EXCEPT ![c] = r] \/ log' = log
    <3>. DEFINE r == [status |-> "received", raw |-> RawPayload(EventOf(c)),
                      normalized |-> FALSE]
    <3>1. RawPayload(EventOf(c)) \in {"full", "with nulls"}
      BY DEF RawPayload
    <3>2. r \in LogRecord /\ r.status = "received" /\ r.raw # "{}"
      BY <3>1 DEF LogRecord
    <3>3. log' = [log EXCEPT ![c] = r] \/ log' = log
      BY <1>1 DEF CreateLog
    <3>. HIDE DEF r
    <3>. QED BY <3>2, <3>3
  <2>2. c = d => log'[d] = r \/ log'[d] = log[d]
    BY <1>0, <2>1
  <2>3. c # d => log'[d] = log[d]
    BY <1>0, <2>1
  <2>. QED BY <2>1, <2>2, <2>3
<1>2. ASSUME NEW c \in Delivery, MarkFailed(c)
      PROVE  \/ log'[d] = log[d]
             \/ log'[d].status = "failed" /\ log'[d].raw = log[d].raw /\ d \in handlers
  <2>1. log' = [log EXCEPT ![c].status = "failed"] \/ log' = log
    BY <1>2 DEF MarkFailed
  <2>2. c \in handlers
    BY <1>2 DEF MarkFailed
  <2>3. CASE log' = [log EXCEPT ![c].status = "failed"]
    <3>1. c = d => log'[d].status = "failed" /\ log'[d].raw = log[d].raw
      BY <1>0, <2>3 DEF LogRecord
    <3>2. c # d => log'[d] = log[d]
      BY <1>0, <2>3
    <3>. QED BY <2>2, <3>1, <3>2
  <2>. QED BY <2>1, <2>3
<1>3. ASSUME NEW w \in Slot, WorkerStep(w)
      PROVE  \/ log'[d] = log[d]
             \/ log'[d].status = "processed" /\ log'[d].raw = log[d].raw
                  /\ log[d].status # "none"
  <2>1. CASE log' = log
    BY <2>1
  <2>2. ASSUME CommitLog(w), RecordEvent(slot[w].job)
        PROVE  \/ log'[d] = log[d]
               \/ log'[d].status = "processed" /\ log'[d].raw = log[d].raw
                    /\ log[d].status # "none"
    <3>1. log[slot[w].job].status # "none"
      BY <2>2 DEF PipelineInv, SlotStage, CommitLog
    <3>. QED BY <1>0, <2>2, <3>1 DEF RecordEvent, LogRecord
  <2>. QED BY <1>3, <2>1, <2>2 DEF WorkerStep, FetchJob, LoadLog, CommitLog, AckJob
<1>4. ASSUME StripOldPayloads
      PROVE  log'[d].status = log[d].status /\ retentions > 0
  BY <1>0, <1>4 DEF StripOldPayloads, LogRecord, CauseInv
<1>5. ASSUME \/ \E c \in Delivery : \/ \E e \in EventId : Receive(c, e)
                                    \/ Refuse(c) \/ EnqueueJob(c)
                                    \/ StallJob(c) \/ RetryFailed(c)
             \/ \E old \in SUBSET Delivery : DeleteOldEvents(old)
             \/ ApiCrash \/ WorkerCrash \/ UNCHANGED vars
      PROVE  log' = log
  BY <1>5
  DEF Receive, Refuse, EnqueueJob, StallJob, RetryFailed, DeleteOldEvents, ApiCrash,
      WorkerCrash, vars
<1>. QED BY <1>1, <1>2, <1>3, <1>4, <1>5, PipelineSteps

LEMMA CauseStep == PipelineInv /\ CauseInv /\ [Next]_vars => CauseInv'
<1>. SUFFICES ASSUME PipelineInv, CauseInv, [Next]_vars PROVE CauseInv'
  OBVIOUS
<1>0. retentions \in Nat
  BY BoundAssumption DEF PipelineInv, TypeInv, TypeOK
<1>1. retentions > 0 => retentions' > 0
  BY <1>0, CounterSteps
<1>2. ASSUME NEW d \in Delivery PROVE Explained(d)'
  <2>1. log[d].status = "failed" \/ d \in handlers => Cause(d)'
    <3>1. d \in handlers => log[d].status # "none"
      BY DEF PipelineInv, RowStage
    <3>. QED BY <3>1, CauseStays DEF CauseInv, Explained
  <2>2. log'[d].status = "failed" \/ d \in handlers' => Cause(d)'
    <3>1. d \in handlers' => Cause(d)'
      BY <2>1, AttemptHasCause
    <3>2. log'[d].status = "failed" => log[d].status = "failed" \/ d \in handlers
      BY RowSteps
    <3>. QED BY <2>1, <3>1, <3>2
  <2>3. log'[d].status # "none" /\ log'[d].raw = "{}" => retentions' > 0
    <3>1. d \in handlers => log[d].status # "none"
      BY DEF PipelineInv, RowStage
    <3>. QED BY <1>1, <3>1, RowSteps DEF CauseInv, Explained
  <2>. QED BY <2>2, <2>3 DEF Explained
<1>3. retention'.pc = "strip" => retentions' > 0
  <2>1. CASE \E old \in SUBSET Delivery : DeleteOldEvents(old)
    BY <1>0, <2>1 DEF DeleteOldEvents
  <2>2. CASE StripOldPayloads \/ WorkerCrash
    <3>1. retention' = [pc |-> "idle", old |-> {}]
      BY <2>2 DEF StripOldPayloads, WorkerCrash
    <3>2. retention'.pc = "idle"
      BY <3>1
    <3>. QED BY <3>2
  <2>3. ASSUME \/ \E d \in Delivery : \/ \E e \in EventId : Receive(d, e)
                                      \/ Refuse(d) \/ CreateLog(d) \/ EnqueueJob(d)
               \/ \E w \in Slot : WorkerStep(w)
               \/ \E d \in Delivery : MarkFailed(d) \/ StallJob(d) \/ RetryFailed(d)
               \/ ApiCrash \/ UNCHANGED vars
        PROVE  retention' = retention
    BY <2>3
    DEF Receive, Refuse, CreateLog, EnqueueJob, WorkerStep, FetchJob, LoadLog,
        CommitLog, AckJob, MarkFailed, StallJob, RetryFailed, ApiCrash, vars
  <2>. QED BY <1>1, <2>1, <2>2, <2>3, PipelineSteps DEF CauseInv
<1>. QED BY <1>2, <1>3 DEF CauseInv

LEMMA CauseInit == Init => CauseInv
<1>. SUFFICES ASSUME Init PROVE CauseInv
  OBVIOUS
<1>1. ASSUME NEW d \in Delivery PROVE Explained(d)
  <2>1. log[d].status = "none" /\ d \notin handlers
    BY DEF Init
  <2>. QED BY <2>1 DEF Explained
<1>2. retention.pc = "idle"
  BY DEF Init
<1>. QED BY <1>1, <1>2 DEF CauseInv

\* A row is failed only beside a fault, a stall, a clean-up, or an event whose
\* inference is unknown: never for what receive() itself had stored.
THEOREM FailuresHaveCauses == Spec => []FailureHasACause
<1>1. CauseInv => FailureHasACause
  BY DEF CauseInv, Explained, Cause, FailureHasACause
<1>2. PipelineInv /\ CauseInv /\ [Next]_vars => (PipelineInv /\ CauseInv)'
  BY PipelineStep, CauseStep
<1>3. Init => PipelineInv /\ CauseInv
  BY PipelineInit, CauseInit
<1>. QED BY <1>1, <1>2, <1>3, PTL DEF Spec
=============================================================================
