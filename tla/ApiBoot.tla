------------------------------- MODULE ApiBoot -------------------------------
(***************************************************************************)
(* The start of the API process and the rows it seeds: bootstrap() of      *)
(* main.ts, run by every replica, possibly several at once, and again by   *)
(* the container's restart policy whenever the process exits.  A seed is   *)
(* its rank in the order they are written: the anonymous user, then the    *)
(* provider configurations.  The environment is taken to parse: without a  *)
(* required variable no start would succeed.                               *)
(***************************************************************************)
EXTENDS Naturals

CONSTANTS
  Replica,
  Seeds,        \* number of rows that are seeded
  MaxKills,     \* bound: processes that die otherwise than by an error
  MaxOutages    \* bound: outages of the database

ASSUME BootAssumption ==
  Seeds \in Nat \ {0} /\ MaxKills \in Nat /\ MaxOutages \in Nat

VARIABLES
  row,       \* the seeded rows as the database has them
  pc,        \* where a replica's bootstrap() is
  next,      \* the seed its loop is at
  databaseUp,
  kills,
  outages

vars == <<row, pc, next, databaseUp, kills, outages>>

Seed == 1..Seeds
RowState == {"absent", "seeded", "edited"}
Place == {"exited", "upsert", "insert", "listen", "listening"}

Init ==
  /\ row = [s \in Seed |-> "absent"]
  /\ pc = [p \in Replica |-> "exited"]
  /\ next = [p \in Replica |-> 1]
  /\ databaseUp = TRUE /\ kills = 0 /\ outages = 0

Goto(p, place) == pc' = [pc EXCEPT ![p] = place]

\* bootstrap() rejects; nobody handles it and the process exits.
Fail(p) == Goto(p, "exited") /\ UNCHANGED <<row, next>>

\* Seeded fault: the seeds are not awaited before listen() is called.
BootUnawaited(p) ==
  /\ pc[p] = "exited"
  /\ Goto(p, "listen")
  /\ UNCHANGED <<row, next, databaseUp, kills, outages>>

\* The application is built, and the first seed reached, without the database.
Boot(p) ==
  /\ pc[p] = "exited"
  /\ Goto(p, "upsert")
  /\ next' = [next EXCEPT ![p] = 1]
  /\ UNCHANGED <<row, databaseUp, kills, outages>>

\* The next seed, or listen() after the last one.
Advance(p) ==
  IF next[p] = Seeds
  THEN Goto(p, "listen") /\ UNCHANGED next
  ELSE Goto(p, "upsert") /\ next' = [next EXCEPT ![p] = @ + 1]

\* Seeded faults: the upsert updates the row it finds; create() is called
\* instead of upsert().
UpsertOverwriting(p) ==
  /\ pc[p] = "upsert" /\ databaseUp
  /\ row' = [row EXCEPT ![next[p]] = "seeded"]
  /\ Advance(p)
  /\ UNCHANGED <<databaseUp, kills, outages>>

UpsertCreating(p) ==
  /\ pc[p] = "upsert" /\ databaseUp
  /\ IF row[next[p]] # "absent"
     THEN Fail(p)
     ELSE Goto(p, "insert") /\ UNCHANGED <<row, next>>
  /\ UNCHANGED <<databaseUp, kills, outages>>

\* upsert(): with an empty update, a row that exists is left alone; one that
\* does not is inserted by a statement of its own.
Upsert(p) ==
  /\ pc[p] = "upsert"
  /\ \/ ~databaseUp /\ Fail(p)
     \/ /\ databaseUp /\ row[next[p]] # "absent"
        /\ Advance(p) /\ UNCHANGED row
     \/ /\ databaseUp /\ row[next[p]] = "absent"
        /\ Goto(p, "insert") /\ UNCHANGED <<row, next>>
  /\ UNCHANGED <<databaseUp, kills, outages>>

\* Another replica may have inserted it meanwhile: a unique violation.
Insert(p) ==
  /\ pc[p] = "insert"
  /\ \/ ~databaseUp /\ Fail(p)
     \/ databaseUp /\ row[next[p]] # "absent" /\ Fail(p)
     \/ /\ databaseUp /\ row[next[p]] = "absent"
        /\ row' = [row EXCEPT ![next[p]] = "seeded"]
        /\ Advance(p)
  /\ UNCHANGED <<databaseUp, kills, outages>>

\* listen() first runs the hooks of the modules, of which PrismaService's
\* onModuleInit connects to the database, and then accepts requests.
Listen(p) ==
  /\ pc[p] = "listen"
  /\ \/ databaseUp /\ Goto(p, "listening") /\ UNCHANGED <<row, next>>
     \/ ~databaseUp /\ Fail(p)
  /\ UNCHANGED <<databaseUp, kills, outages>>
-----------------------------------------------------------------------------
\* The environment.

\* The process is stopped or dies at any point, before or after its last
\* statement was applied.
Kill(p) ==
  /\ pc[p] # "exited" /\ kills < MaxKills
  /\ kills' = kills + 1
  /\ Goto(p, "exited")
  /\ UNCHANGED <<row, next, databaseUp, outages>>

\* An operator changes a row in the database, for instance isEnabled.
Edit(s) ==
  /\ databaseUp /\ row[s] # "absent"
  /\ row' = [row EXCEPT ![s] = "edited"]
  /\ UNCHANGED <<pc, next, databaseUp, kills, outages>>

Outage ==
  /\ databaseUp /\ outages < MaxOutages
  /\ databaseUp' = FALSE /\ outages' = outages + 1
  /\ UNCHANGED <<row, pc, next, kills>>

Restore ==
  /\ ~databaseUp
  /\ databaseUp' = TRUE
  /\ UNCHANGED <<row, pc, next, kills, outages>>

Bootstrap(p) == Boot(p) \/ Upsert(p) \/ Insert(p) \/ Listen(p)

Next ==
  \/ \E p \in Replica : Bootstrap(p) \/ Kill(p)
  \/ \E s \in Seed : Edit(s)
  \/ Outage \/ Restore

Spec == Init /\ [][Next]_vars

\* "restart: unless-stopped" of the compose file, for the API and the database.
FairSpec == Spec /\ WF_vars(Restore) /\ \A p \in Replica : WF_vars(Bootstrap(p))
-----------------------------------------------------------------------------
\* Properties.

TypeOK ==
  /\ row \in [Seed -> RowState]
  /\ pc \in [Replica -> Place]
  /\ next \in [Replica -> Seed]
  /\ databaseUp \in BOOLEAN
  /\ kills \in 0..MaxKills /\ outages \in 0..MaxOutages

\* A replica that accepts requests finds every seeded row: the user that
\* conversations are created for, and all provider configurations.
ListeningMeansSeeded ==
  \A p \in Replica : pc[p] = "listening" => \A s \in Seed : row[s] # "absent"

\* What an operator changed stays, whatever starts and restarts: "operators can
\* toggle isEnabled or change defaultModel ... without the seed clobbering".
EditsSurvive == [][\A s \in Seed : row[s] = "edited" => row'[s] = "edited"]_vars

\* Every replica comes up in the end: racing seeds, an outage of the database
\* and processes killed half-way through delay it only.
EveryReplicaListens == \A p \in Replica : <>[](pc[p] = "listening")
=============================================================================
