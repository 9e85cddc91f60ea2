--------------------------- MODULE AttemptContract ---------------------------
(***************************************************************************)
(* What ChatInference assumes of one attempt at a provider, whichever      *)
(* adapter serves it: tokens arrive one by one; once the run is aborted no *)
(* token is started any more and the attempt is cancelled; otherwise it is *)
(* completed or fails, and it may be tried elsewhere only if no token of   *)
(* it was added.                                                           *)
(***************************************************************************)
EXTENDS Naturals

VARIABLES
  text,      \* tokens appended
  writing,   \* the first token's write is being awaited
  stopped,   \* the abort signal
  result     \* pending, or how the attempt ended

attempt == <<text, writing, stopped, result>>

Results == {"completed", "cancelled", "error", "retryable", "exception"}

AttemptInit ==
  text = 0 /\ writing = FALSE /\ stopped = FALSE /\ result = "pending"

Stop == stopped' = TRUE /\ UNCHANGED <<text, writing, result>>

StartFirst ==
  /\ result = "pending" /\ ~stopped /\ text = 0 /\ ~writing
  /\ writing' = TRUE
  /\ UNCHANGED <<text, stopped, result>>

AddToken ==
  /\ result = "pending"
  /\ writing \/ (~stopped /\ text > 0)
  /\ text' = text + 1 /\ writing' = FALSE
  /\ UNCHANGED <<stopped, result>>

\* Only the write of the first token can throw.
End(r) ==
  /\ result = "pending"
  /\ writing => r = "exception"
  /\ stopped /\ ~writing => r = "cancelled"
  /\ ~stopped => r # "cancelled"
  /\ r = "retryable" => text = 0
  /\ result' = r /\ writing' = FALSE
  /\ UNCHANGED <<text, stopped>>

AttemptNext == Stop \/ StartFirst \/ AddToken \/ \E r \in Results : End(r)

AttemptSpec == AttemptInit /\ [][AttemptNext]_attempt
=============================================================================
