--------------------------- MODULE ChatRedisOutage ---------------------------
(***************************************************************************)
(* ChatInference while Redis comes and goes.  The client that the queue    *)
(* uses (apps/api/src/queues/redis.module.ts) is created with              *)
(* maxRetriesPerRequest: null: a command issued while the connection is    *)
(* down is neither answered nor failed, it waits for the reconnect.  A run *)
(* reaches Redis only through InferenceLoggerService.emit, which awaits    *)
(* queue.add before the finalizer publishes the closing event.             *)
(***************************************************************************)
EXTENDS ChatInferenceProperties

VARIABLE redis  \* the connection of the API to Redis

outageVars == <<vars, redis>>

OutageInit == Init /\ redis = "up"

RedisLost == redis = "up" /\ redis' = "down" /\ UNCHANGED vars
RedisBack == redis = "down" /\ redis' = "up" /\ UNCHANGED vars

\* A run that waits for queue.add moves only if Redis answers or the process
\* dies; everything else works without Redis.
ChatStep ==
  /\ Next
  /\ redis = "down" =>
       \A i \in Inference : run[i].pc = "emitLog" => run'[i].pc \in {"emitLog", "lost"}
  /\ UNCHANGED redis

OutageNext == ChatStep \/ RedisLost \/ RedisBack

\* The runs are served as in FairSpec; Redis may stay away, but a run whose
\* step is possible again and again takes it.
OutageSpec ==
  /\ OutageInit /\ [][OutageNext]_outageVars
  /\ \A i \in Inference : SF_outageVars(RunStep(i) /\ ChatStep)

\* architecture-notes.md, on Redis being unavailable during the enqueue: the
\* error is caught in emit() and "Chat succeeds anyway", so a run that has
\* stored its verdict tells it.
ChatSucceedsAnyway ==
  \A i \in Inference : run[i].pc = "emitLog" ~> (Told(i) \/ run[i].pc = "lost")
=============================================================================
