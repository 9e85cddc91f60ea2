------------------------- MODULE InferenceLifecycle -------------------------
(***************************************************************************)
(* What a chat turn promises, without registries, awaits or retries: the   *)
(* client of an accepted inference is told at most one verdict; a verdict  *)
(* other than "unknown" is the one on record when it is told; and from     *)
(* then on the record never changes.  A log entry always repeats the       *)
(* record.  A crash loses the inferences that were not told yet, and       *)
(* freezes their records.                                                  *)
(***************************************************************************)
CONSTANT Inference

VARIABLES
  phase,    \* new, accepted, open (being streamed), settled or lost
  record,   \* the stored verdict, or "pending"
  told,     \* the verdict sent to the client, "none" before
  log       \* the verdicts handed to ingestion

Stored == {"completed", "failed", "cancelled"}
lifecycle == <<phase, record, told, log>>

LifecycleInit ==
  /\ phase = [i \in Inference |-> "new"]
  /\ record = [i \in Inference |-> "pending"]
  /\ told = [i \in Inference |-> "none"]
  /\ log = [i \in Inference |-> {}]

Accept(i) ==
  /\ phase[i] = "new"
  /\ phase' = [phase EXCEPT ![i] = "accepted"]
  /\ UNCHANGED <<record, told, log>>

Open(i) ==
  /\ phase[i] = "accepted"
  /\ phase' = [phase EXCEPT ![i] = "open"]
  /\ UNCHANGED <<record, told, log>>

\* The record may still be rewritten while nothing has been told.
Record(i, v) ==
  /\ phase[i] = "open"
  /\ record' = [record EXCEPT ![i] = v]
  /\ UNCHANGED <<phase, told, log>>

Settle(i) ==
  /\ phase[i] = "open"
  /\ record[i] \in Stored
  /\ phase' = [phase EXCEPT ![i] = "settled"]
  /\ told' = [told EXCEPT ![i] = record[i]]
  /\ log' \in {log, [log EXCEPT ![i] = @ \cup {record[i]}]}
  /\ UNCHANGED record

\* The verdict could not be stored; the client only learns that it is over.
Abandon(i) ==
  /\ phase[i] = "open"
  /\ phase' = [phase EXCEPT ![i] = "settled"]
  /\ told' = [told EXCEPT ![i] = "unknown"]
  /\ UNCHANGED <<record, log>>

Lose ==
  /\ phase' = [i \in Inference |->
                 IF phase[i] \in {"accepted", "open"} THEN "lost" ELSE phase[i]]
  /\ UNCHANGED <<record, told, log>>

LifecycleNext ==
  \/ \E i \in Inference :
       \/ Accept(i) \/ Open(i) \/ Settle(i) \/ Abandon(i)
       \/ \E v \in Stored : Record(i, v)
  \/ Lose

LifecycleSpec == LifecycleInit /\ [][LifecycleNext]_lifecycle
=============================================================================
