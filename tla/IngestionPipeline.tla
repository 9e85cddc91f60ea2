-------------------------- MODULE IngestionPipeline --------------------------
(***************************************************************************)
(* How a log event travels from a producer to inference_events: the HTTP   *)
(* endpoint (ingestion.controller.ts, api-key.guard.ts), the enqueuer the  *)
(* API itself uses (ingestion-enqueuer.service.ts), the one                *)
(* IngestionService.receive behind both, the BullMQ queue, the             *)
(* worker's LoggingPipelineProcessor (logging-pipeline.processor.ts), the  *)
(* admin retry endpoints (admin.controller.ts) and the nightly             *)
(* RetentionService (retention.service.ts), all under apps/api/src/modules.*)
(*                                                                         *)
(* A delivery is one call of receive(); a producer that retries makes      *)
(* another delivery of the same event.  The row, the job and the number of *)
(* inference_events rows that a delivery gives rise to carry its name.     *)
(* BullMQ is external: it is modelled from the options and calls the code  *)
(* uses (attempts, locks, stalled jobs, the failed event, job.retry).      *)
(***************************************************************************)
EXTENDS Naturals, FiniteSets

CONSTANTS
  Delivery,      \* calls of receive()
  EventId,       \* the events being delivered
  Keyed,         \* events with a sourceEventId
  Linked,        \* events with an inferenceRequestId
  Sparse,        \* events that leave an optional field out
  Poison,        \* events whose transaction always fails (unknown inference)
  Slot,          \* concurrent jobs of the worker process
  None,          \* no event, no job, no owner
  MaxAttempts,   \* INGESTION_MAX_ATTEMPTS
  MaxStalls,     \* BullMQ's limit of stalls per job; the code keeps its default, 1
  MaxFaults,     \* bound: failing database and Redis calls
  MaxCrashes,    \* bound: crashes of the api or the worker process
  MaxRetries,    \* bound: admin retries
  MaxRetentions  \* bound: nightly clean-ups

ASSUME EventAssumption ==
  /\ Keyed \subseteq EventId
  /\ Poison \subseteq Linked
  /\ Linked \subseteq EventId
  /\ Sparse \subseteq EventId
  /\ None \notin EventId \cup Delivery \cup Slot
ASSUME SlotAssumption == IsFiniteSet(Slot)
ASSUME BoundAssumption ==
  /\ MaxAttempts \in Nat \ {0}
  /\ {MaxStalls, MaxFaults, MaxCrashes, MaxRetries, MaxRetentions} \subseteq Nat
  /\ MaxStalls # 0

VARIABLES
  delivery,   \* each call: its event, its await, its reply
  log,        \* ingestion_logs: status, raw_payload and normalized_payload
  events,     \* inference_events rows written for a log row
  job,        \* the job in Redis that points at the row
  slot,       \* what each worker slot is doing
  handlers,   \* final failures whose row update is still pending
  retention,  \* the clean-up between its two statements
  faults, crashes, retries, retentions   \* used-up bounds

queue == <<job, slot, handlers>>
bounds == <<faults, crashes, retries, retentions>>
vars == <<delivery, log, events, job, slot, handlers, retention, bounds>>

Init ==
  /\ delivery = [d \in Delivery |-> [pc |-> "idle", event |-> None, reply |-> "none"]]
  /\ log = [d \in Delivery |-> [status |-> "none", raw |-> "{}", normalized |-> FALSE]]
  /\ events = [d \in Delivery |-> 0]
  /\ job = [d \in Delivery |->
              [state |-> "none", attemptsMade |-> 0, stalls |-> 0, owner |-> None]]
  /\ slot = [w \in Slot |-> [pc |-> "idle", job |-> None]]
  /\ handlers = {}
  /\ retention = [pc |-> "idle", old |-> {}]
  /\ faults = 0 /\ crashes = 0 /\ retries = 0 /\ retentions = 0

Fault == faults < MaxFaults /\ faults' = faults + 1

EventOf(d) == delivery[d].event
Stored(e) == {d \in Delivery : log[d].status # "none" /\ EventOf(d) = e}

\* What GET logs/:id answers; "none" is a 404.
Status(d) == log[d].status

\* buildRawPayload: a field that was left out is stored as null.
RawPayload(e) == IF e \in Sparse THEN "with nulls" ELSE "full"

\* Seeded fault: optional fields may be left out, but not be null.
ParsesOptional(raw) == raw = "full"

\* inferenceLogPayloadV1Schema on what is stored: optional fields are nullable
\* too, the "{}" that retention leaves lacks the required ones.
Parses(raw) == raw \in {"full", "with nulls"}
-----------------------------------------------------------------------------
(***************************************************************************)
(* receive(): look the key up, insert the row, add the job; three awaits   *)
(* that no transaction spans.                                              *)
(***************************************************************************)
Receive(d, e) ==
  /\ delivery[d].pc = "idle"
  /\ delivery' = [delivery EXCEPT ![d] =
       IF e \in Keyed /\ Stored(e) # {}
       THEN [pc |-> "replied", event |-> e, reply |-> "duplicate"]
       ELSE [pc |-> "create", event |-> e, reply |-> "none"]]
  /\ UNCHANGED <<log, events, queue, retention, bounds>>

\* canActivate: the bearer token must equal INGESTION_API_KEY.
Admits(token) == token = "INGESTION_API_KEY"

\* The guard (401) and the validation pipe (400) come before receive().
Refuse(d) ==
  /\ delivery[d].pc = "idle"
  /\ delivery' = [delivery EXCEPT ![d].pc = "replied", ![d].reply = "refused"]
  /\ UNCHANGED <<log, events, queue, retention, bounds>>

\* POST ingestion/inference-logs.
Post(d, e) ==
  \E token \in {"none", "other", "INGESTION_API_KEY"}, valid \in BOOLEAN :
    IF Admits(token) /\ valid THEN Receive(d, e) ELSE Refuse(d)

\* The API's own events take the same path behind the guard.
Enqueue(d, e) == Receive(d, e)

\* Seeded fault: the table has no unique index.
KeyTakenUnchecked(e) == FALSE

\* The unique (source, sourceEventId) index; NULL keys are distinct.
KeyTaken(e) == e \in Keyed /\ Stored(e) # {}

CreateLog(d) ==
  /\ delivery[d].pc = "create"
  /\ \E ok, applied \in BOOLEAN :
       /\ ok => applied
       /\ applied => ~KeyTaken(EventOf(d))
       /\ IF ok \/ KeyTaken(EventOf(d)) THEN UNCHANGED faults ELSE Fault
       /\ log' = IF applied
                 THEN [log EXCEPT ![d] = [status |-> "received",
                                                raw |-> RawPayload(EventOf(d)),
                                                normalized |-> FALSE]]
                 ELSE log
       /\ delivery' = [delivery EXCEPT ![d].pc = IF ok THEN "enqueue" ELSE "thrown"]
  /\ UNCHANGED <<events, queue, retention, crashes, retries, retentions>>

\* Seeded fault: a failing queue.add() is logged, and the caller told "received".
EnqueueJobSwallowing(d) ==
  /\ delivery[d].pc = "enqueue"
  /\ \/ job' = [job EXCEPT ![d].state = "waiting"] /\ UNCHANGED faults
     \/ UNCHANGED job /\ Fault
  /\ delivery' = [delivery EXCEPT ![d] = [@ EXCEPT !.pc = "replied",
                                                   !.reply = "received"]]
  /\ UNCHANGED <<log, events, slot, handlers, retention, crashes, retries, retentions>>

EnqueueJob(d) ==
  /\ delivery[d].pc = "enqueue"
  /\ \E ok, applied \in BOOLEAN :
       /\ ok => applied
       /\ IF ok THEN UNCHANGED faults ELSE Fault
       /\ job' = IF applied THEN [job EXCEPT ![d].state = "waiting"] ELSE job
       /\ delivery' = [delivery EXCEPT
            ![d] = IF ok THEN [@ EXCEPT !.pc = "replied", !.reply = "received"]
                         ELSE [@ EXCEPT !.pc = "thrown"]]
  /\ UNCHANGED <<log, events, slot, handlers, retention, crashes, retries, retentions>>

\* The api process dies: calls in progress are never answered.
ApiCrash ==
  /\ crashes < MaxCrashes
  /\ crashes' = crashes + 1
  /\ delivery' = [d \in Delivery |->
       IF delivery[d].pc \in {"create", "enqueue"}
       THEN [delivery[d] EXCEPT !.pc = "dropped"] ELSE delivery[d]]
  /\ UNCHANGED <<log, events, queue, retention, faults, retries, retentions>>
-----------------------------------------------------------------------------
\* BullMQ hands a waiting job to a free slot, which takes its lock.
FetchJob(w, d) ==
  /\ slot[w].pc = "idle"
  /\ job[d].state = "waiting"
  /\ job' = [job EXCEPT ![d].state = "active", ![d].owner = w]
  /\ slot' = [slot EXCEPT ![w] = [pc |-> "load", job |-> d]]
  /\ UNCHANGED <<delivery, log, events, handlers, retention, bounds>>

\* Seeded fault: handleFailed does not look at the attempts that are left.
UseAttemptMarkingEarly(d, final) ==
  LET n == job[d].attemptsMade + 1 IN
    /\ job' = [job EXCEPT ![d] =
                 [@ EXCEPT !.attemptsMade = n, !.owner = None,
                           !.state = IF final \/ n >= MaxAttempts
                                     THEN "failed" ELSE "waiting"]]
    /\ handlers' = handlers \cup {d}

\* One more attempt is used up: back to waiting, or to the failed set, where
\* handleFailed starts its row update without awaiting it.  handleFailed does
\* nothing while attempts are left.
UseAttempt(d, final) ==
  LET n == job[d].attemptsMade + 1 IN
    /\ job' = [job EXCEPT ![d] =
                 [@ EXCEPT !.attemptsMade = n, !.owner = None,
                           !.state = IF final \/ n >= MaxAttempts
                                     THEN "failed" ELSE "waiting"]]
    /\ handlers' = IF n >= MaxAttempts THEN handlers \cup {d} ELSE handlers

\* process() threw.  Without the lock the job cannot be moved.
FailAttempt(w) ==
  LET d == slot[w].job IN
    /\ slot' = [slot EXCEPT ![w] = [pc |-> "idle", job |-> None]]
    /\ IF job[d].owner = w THEN UseAttempt(d, FALSE) ELSE UNCHANGED <<job, handlers>>

\* Seeded fault: process() returns when the payload does not parse.
LoadLogSwallowing(w) ==
  /\ slot[w].pc = "load"
  /\ \/ /\ slot' = [slot EXCEPT ![w].pc = IF Parses(log[slot[w].job].raw)
                                            THEN "commit" ELSE "ack"]
        /\ UNCHANGED <<job, handlers, faults>>
     \/ FailAttempt(w) /\ Fault
  /\ UNCHANGED <<delivery, log, events, retention, crashes, retries, retentions>>

\* findUniqueOrThrow and the re-parse of raw_payload.
LoadLog(w) ==
  /\ slot[w].pc = "load"
  /\ \/ /\ Parses(log[slot[w].job].raw)
        /\ slot' = [slot EXCEPT ![w].pc = "commit"]
        /\ UNCHANGED <<job, handlers, faults>>
     \/ ~Parses(log[slot[w].job].raw) /\ FailAttempt(w) /\ UNCHANGED faults
     \/ FailAttempt(w) /\ Fault
  /\ UNCHANGED <<delivery, log, events, retention, crashes, retries, retentions>>

RecordEvent(d) ==
  /\ events' = IF EventOf(d) \in Linked THEN [events EXCEPT ![d] = @ + 1] ELSE events
  /\ log' = [log EXCEPT ![d].status = "processed", ![d].normalized = TRUE]

\* Seeded fault: the event row is written before, not in, a transaction.
CommitLogNotAtomic(w) ==
  /\ slot[w].pc = "commit"
  /\ LET d == slot[w].job IN
       /\ EventOf(d) \notin Poison
       /\ \/ /\ RecordEvent(d)
             /\ slot' = [slot EXCEPT ![w].pc = "ack"]
             /\ UNCHANGED <<job, handlers, faults>>
          \/ /\ events' = [events EXCEPT ![d] = @ + 1]
             /\ FailAttempt(w) /\ Fault /\ UNCHANGED log
  /\ UNCHANGED <<delivery, retention, crashes, retries, retentions>>

\* The transaction of process(): the event row and the status, or neither.
CommitLog(w) ==
  /\ slot[w].pc = "commit"
  /\ LET d == slot[w].job IN
       \/ /\ EventOf(d) \notin Poison
          /\ RecordEvent(d)
          /\ slot' = [slot EXCEPT ![w].pc = "ack"]
          /\ UNCHANGED <<job, handlers, faults>>
       \/ /\ EventOf(d) \notin Poison
          /\ RecordEvent(d)
          /\ FailAttempt(w) /\ Fault
       \/ FailAttempt(w) /\ UNCHANGED <<log, events>>
            /\ IF EventOf(d) \in Poison THEN UNCHANGED faults ELSE Fault
  /\ UNCHANGED <<delivery, retention, crashes, retries, retentions>>

\* The job is moved to completed, if the lock is still held.
AckJob(w) ==
  /\ slot[w].pc = "ack"
  /\ slot' = [slot EXCEPT ![w] = [pc |-> "idle", job |-> None]]
  /\ LET d == slot[w].job IN
       job' = IF job[d].owner = w
              THEN [job EXCEPT ![d].state = "completed", ![d].owner = None] ELSE job
  /\ UNCHANGED <<delivery, log, events, handlers, retention, bounds>>

\* The pending update of handleFailed; its own failure is only logged.
MarkFailed(d) ==
  /\ d \in handlers
  /\ handlers' = handlers \ {d}
  /\ \/ log' = [log EXCEPT ![d].status = "failed"] /\ UNCHANGED faults
     \/ UNCHANGED log /\ Fault
  /\ UNCHANGED <<delivery, events, job, slot, retention, crashes, retries, retentions>>

\* A lock expires, the holder being dead or late: the job is delivered again,
\* or fails for good once it has stalled too often.
StallJob(d) ==
  /\ job[d].state = "active"
  /\ IF job[d].stalls < MaxStalls
     THEN /\ job' = [job EXCEPT ![d].state = "waiting", ![d].owner = None,
                                ![d].stalls = @ + 1]
          /\ UNCHANGED handlers
     ELSE UseAttempt(d, TRUE)
  /\ UNCHANGED <<delivery, log, events, slot, retention, bounds>>

WorkerCrash ==
  /\ crashes < MaxCrashes
  /\ crashes' = crashes + 1
  /\ slot' = [w \in Slot |-> [pc |-> "idle", job |-> None]]
  /\ handlers' = {}
  /\ retention' = [pc |-> "idle", old |-> {}]
  /\ UNCHANGED <<delivery, log, events, job, faults, retries, retentions>>
-----------------------------------------------------------------------------
\* GET .../failed: what an operator may retry.
FailedJobs == {d \in Delivery : job[d].state = "failed"}

\* Seeded fault: the retry starts counting attempts anew.
RetryFailedResetting(d) ==
  /\ retries < MaxRetries
  /\ d \in FailedJobs
  /\ retries' = retries + 1
  /\ job' = [job EXCEPT ![d].state = "waiting", ![d].attemptsMade = 0]
  /\ UNCHANGED <<delivery, log, events, slot, handlers, retention,
                 faults, crashes, retentions>>

\* POST .../failed/:jobId/retry, and each job of retry-all.
RetryFailed(d) ==
  /\ retries < MaxRetries
  /\ d \in FailedJobs
  /\ retries' = retries + 1
  /\ job' = [job EXCEPT ![d].state = "waiting"]
  /\ UNCHANGED <<delivery, log, events, slot, handlers, retention,
                 faults, crashes, retentions>>

\* runRetention: rows received before the cutoff are the old ones, events
\* written for them may be younger; two statements, no transaction.
DeleteOldEvents(old) ==
  /\ retentions < MaxRetentions
  /\ retentions' = retentions + 1
  /\ retention.pc = "idle"
  /\ old # {} /\ \A d \in old : log[d].status # "none"
  /\ \E gone \in SUBSET old :
       events' = [d \in Delivery |-> IF d \in gone THEN 0 ELSE events[d]]
  /\ retention' = [pc |-> "strip", old |-> old]
  /\ UNCHANGED <<delivery, log, queue, faults, crashes, retries>>

StripOldPayloads ==
  /\ retention.pc = "strip"
  /\ log' = [d \in Delivery |->
               IF d \in retention.old
               THEN [log[d] EXCEPT !.raw = "{}", !.normalized = FALSE] ELSE log[d]]
  /\ retention' = [pc |-> "idle", old |-> {}]
  /\ UNCHANGED <<delivery, events, queue, bounds>>
-----------------------------------------------------------------------------
ReceiveStep(d) == CreateLog(d) \/ EnqueueJob(d)
WorkerStep(w) ==
  (\E d \in Delivery : FetchJob(w, d)) \/ LoadLog(w) \/ CommitLog(w) \/ AckJob(w)

Next ==
  \/ \E d \in Delivery :
       \/ \E e \in EventId : Post(d, e) \/ Enqueue(d, e)
       \/ ReceiveStep(d) \/ MarkFailed(d) \/ StallJob(d) \/ RetryFailed(d)
  \/ \E w \in Slot : WorkerStep(w)
  \/ \E old \in SUBSET Delivery : DeleteOldEvents(old)
  \/ StripOldPayloads \/ ApiCrash \/ WorkerCrash

Spec == Init /\ [][Next]_vars

\* The processes keep running, waiting jobs are fetched, and BullMQ detects
\* the stalled jobs of a dead holder.
FairSpec ==
  /\ Spec
  /\ \A d \in Delivery :
       /\ WF_vars(ReceiveStep(d)) /\ WF_vars(MarkFailed(d)) /\ WF_vars(StallJob(d))
  /\ \A w \in Slot : WF_vars(WorkerStep(w))
=============================================================================
