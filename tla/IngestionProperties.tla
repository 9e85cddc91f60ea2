------------------------- MODULE IngestionProperties -------------------------
(***************************************************************************)
(* What must be true of IngestionPipeline.                                 *)
(***************************************************************************)
EXTENDS IngestionPipeline

DeliveryRecord ==
  [pc : {"idle", "create", "enqueue", "replied", "thrown", "dropped"},
   event : EventId \cup {None}, reply : {"none", "received", "duplicate", "refused"}]
LogRecord ==
  [status : {"none", "received", "processed", "failed"},
   raw : {"{}", "with nulls", "full"}, normalized : BOOLEAN]
JobRecord ==
  [state : {"none", "waiting", "active", "failed", "completed"},
   attemptsMade : Nat, stalls : 0..MaxStalls, owner : Slot \cup {None}]
SlotRecord == [pc : {"idle", "load", "commit", "ack"}, job : Delivery \cup {None}]

\* Every variable stays in the set its columns and fields allow.
TypeOK ==
  /\ delivery \in [Delivery -> DeliveryRecord]
  /\ log \in [Delivery -> LogRecord]
  /\ events \in [Delivery -> Nat]
  /\ job \in [Delivery -> JobRecord]
  /\ slot \in [Slot -> SlotRecord]
  /\ handlers \subseteq Delivery
  /\ retention \in [pc : {"idle", "strip"}, old : SUBSET Delivery]
  /\ faults \in 0..MaxFaults /\ crashes \in 0..MaxCrashes
  /\ retries \in 0..MaxRetries /\ retentions \in 0..MaxRetentions

\* However deliveries of one keyed event race, one row is stored for it.
UniqueLog == \A e \in Keyed : Cardinality(Stored(e)) <= 1

\* A log answered with "received" is never lost: its job is still in Redis,
\* or its row carries a verdict.
AcceptedNotLost ==
  \A d \in Delivery :
    delivery[d].reply = "received" =>
      \/ job[d].state \in {"waiting", "active", "failed"}
      \/ log[d].status \in {"processed", "failed"}

\* Neither an event row nor a normalized payload appears without its log row
\* having left "received": the writes are one transaction, whatever crash or stall
\* follows.
EventImpliesVerdict ==
  \A d \in Delivery :
    events[d] > 0 \/ log[d].normalized => log[d].status \in {"processed", "failed"}

\* A row is marked failed only after all attempts were used, although the
\* marking runs detached from the job.
FailedMeansExhausted ==
  \A d \in Delivery :
    log[d].status = "failed" \/ d \in handlers => job[d].attemptsMade >= MaxAttempts

\* A log is not failed for what receive() itself wrote: behind every failed row
\* there is a fault, a stall, a clean-up or an event whose inference is unknown.
\* (payloads.ts: "Nullable so the worker can re-parse rawPayload".)
FailureHasACause ==
  \A d \in Delivery :
    log[d].status = "failed" =>
      \/ EventOf(d) \in Poison
      \/ faults > 0 \/ job[d].stalls > 0 \/ retentions > 0

\* Duplicate event rows are bounded by the redeliveries: one per stall, one per
\* used attempt, and one for the delivery in progress or done.
DuplicatesBounded ==
  \A d \in Delivery :
    events[d] <= job[d].stalls + job[d].attemptsMade
                   + (IF job[d].state \in {"active", "completed"} THEN 1 ELSE 0)

\* A log answered with "received" gets a verdict, or its job ends in the failed
\* set where an operator finds it, despite crashes, stalls and faults.
AcceptedSettles ==
  \A d \in Delivery :
    delivery[d].reply = "received" ~>
      (Status(d) \in {"processed", "failed"} \/ d \in FailedJobs)
-----------------------------------------------------------------------------
\* README: with the idempotency key "retries are safe", that is, a delivery
\* answered with "duplicate" names a log that is or will be processed.
RetriesAreSafe ==
  \A d \in Delivery :
    delivery[d].reply = "duplicate" =>
      \E s \in Stored(EventOf(d)) :
        \/ log[s].status \in {"processed", "failed"}
        \/ job[s].state \in {"waiting", "active", "failed"}
        \/ delivery[s].pc = "enqueue"

=============================================================================
