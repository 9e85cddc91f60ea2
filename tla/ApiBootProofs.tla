---------------------------- MODULE ApiBootProofs ----------------------------
(***************************************************************************)
(* Theorems about ApiBoot, for every number of replicas and seeds.         *)
(***************************************************************************)
EXTENDS ApiBoot, TLAPS

LEMMA BootTypeInit == Init => TypeOK
BY BootAssumption DEF Init, TypeOK, Seed, RowState, Place

\* One lemma for the steps of a replica, one for the environment's.
LEMMA BootTypeReplica ==
  ASSUME TypeOK, NEW p \in Replica, Bootstrap(p) \/ Kill(p)
  PROVE  TypeOK'
<1> USE BootAssumption DEF TypeOK, Seed, RowState, Place, Goto
<1>1. CASE Boot(p)
  BY <1>1 DEF Boot
<1>2. CASE Upsert(p)
  BY <1>2 DEF Upsert, Fail, Advance
<1>3. CASE Insert(p)
  <2>1. CASE Fail(p)
    BY <1>3, <2>1 DEF Insert, Fail
  <2>2. CASE row' = [row EXCEPT ![next[p]] = "seeded"] /\ Advance(p)
    BY <1>3, <2>2 DEF Insert, Advance
  <2>3. QED
    BY <1>3, <2>1, <2>2 DEF Insert
<1>4. CASE Listen(p)
  BY <1>4 DEF Listen, Fail
<1>5. CASE Kill(p)
  BY <1>5 DEF Kill
<1>6. QED
  BY <1>1, <1>2, <1>3, <1>4, <1>5 DEF Bootstrap

LEMMA BootTypeStep == TypeOK /\ [Next]_vars => TypeOK'
<1> SUFFICES ASSUME TypeOK, [Next]_vars
             PROVE  TypeOK'
  OBVIOUS
<1>1. ASSUME NEW p \in Replica, Bootstrap(p) \/ Kill(p)
      PROVE  TypeOK'
  BY <1>1, BootTypeReplica
<1>2. ASSUME NEW s \in Seed, Edit(s)
      PROVE  TypeOK'
  BY <1>2 DEF Edit, TypeOK, RowState
<1>3. CASE Outage
  <2>1. outages' \in 0..MaxOutages
    BY <1>3, BootAssumption DEF Outage, TypeOK
  <2>2. databaseUp' = FALSE /\ UNCHANGED <<row, pc, next, kills>>
    BY <1>3 DEF Outage
  <2>3. QED
    BY <2>1, <2>2 DEF TypeOK
<1>4. CASE Restore
  BY <1>4 DEF Restore, TypeOK
<1>5. CASE UNCHANGED vars
  BY <1>5 DEF vars, TypeOK
<1>6. QED
  BY <1>1, <1>2, <1>3, <1>4, <1>5 DEF Next

\* Every variable of ApiBoot keeps its type.
THEOREM BootTypeCorrect == Spec => []TypeOK
BY BootTypeInit, BootTypeStep, PTL DEF Spec
-----------------------------------------------------------------------------
\* How far a replica has come: the seeds before its loop variable are there,
\* and all of them once the loop is done.
Seeded(p) ==
  /\ pc[p] \in {"upsert", "insert"} =>
       \A s \in Seed : s < next[p] => row[s] # "absent"
  /\ pc[p] \in {"listen", "listening"} =>
       \A s \in Seed : row[s] # "absent"

BootInv == TypeOK /\ \A p \in Replica : Seeded(p)

\* No step removes a row, so what a replica has seeded stays.
LEMMA RowsStay ==
  ASSUME TypeOK, [Next]_vars
  PROVE  \A s \in Seed : row[s] # "absent" => row'[s] # "absent"
<1> USE DEF TypeOK, RowState
<1>1. ASSUME NEW p \in Replica, Bootstrap(p) \/ Kill(p)
      PROVE  row' = row \/ \E s \in Seed : row' = [row EXCEPT ![s] = "seeded"]
  BY <1>1 DEF Bootstrap, Kill, Boot, Upsert, Insert, Listen, Fail
<1>2. ASSUME NEW s \in Seed, Edit(s)
      PROVE  row' = [row EXCEPT ![s] = "edited"]
  BY <1>2 DEF Edit
<1>3. CASE Outage \/ Restore \/ UNCHANGED vars
  BY <1>3 DEF Outage, Restore, vars
<1>4. QED
  BY <1>1, <1>2, <1>3 DEF Next

\* The step of the replica itself.
LEMMA SeededStep ==
  ASSUME TypeOK, NEW p \in Replica, Seeded(p), Bootstrap(p) \/ Kill(p)
  PROVE  Seeded(p)'
<1> USE BootAssumption DEF TypeOK, Seeded, Goto
<1>1. CASE Boot(p)
  BY <1>1 DEF Boot, Seed
<1>2. CASE Upsert(p)
  <2>1. CASE Fail(p)
    BY <1>2, <2>1 DEF Upsert, Fail
  <2>2. CASE row[next[p]] # "absent" /\ Advance(p) /\ UNCHANGED row
    BY <1>2, <2>2 DEF Upsert, Advance, Seed
  <2>3. CASE Goto(p, "insert") /\ UNCHANGED <<row, next>>
    BY <1>2, <2>3 DEF Upsert
  <2>4. QED
    BY <1>2, <2>1, <2>2, <2>3 DEF Upsert
<1>3. CASE Insert(p)
  <2>1. CASE Fail(p)
    BY <1>3, <2>1 DEF Insert, Fail
  <2>2. CASE row' = [row EXCEPT ![next[p]] = "seeded"] /\ Advance(p)
    BY <1>3, <2>2 DEF Insert, Advance, Seed
  <2>3. QED
    BY <1>3, <2>1, <2>2 DEF Insert
<1>4. CASE Listen(p)
  BY <1>4 DEF Listen, Fail
<1>5. CASE Kill(p)
  BY <1>5 DEF Kill
<1>6. QED
  BY <1>1, <1>2, <1>3, <1>4, <1>5 DEF Bootstrap

\* Any other step leaves the replica where it is.
LEMMA SeededOther ==
  ASSUME TypeOK, [Next]_vars, NEW p \in Replica, Seeded(p),
         ~(Bootstrap(p) \/ Kill(p))
  PROVE  Seeded(p)'
<1>1. pc'[p] = pc[p] /\ next'[p] = next[p]
  <2>1. ASSUME NEW q \in Replica, Bootstrap(q) \/ Kill(q)
        PROVE  pc'[p] = pc[p] /\ next'[p] = next[p]
    BY <2>1 DEF Bootstrap, Kill, Boot, Upsert, Insert, Listen, Fail, Advance, Goto,
                TypeOK
  <2>2. CASE (\E s \in Seed : Edit(s)) \/ Outage \/ Restore \/ UNCHANGED vars
    BY <2>2 DEF Edit, Outage, Restore, vars
  <2>3. QED
    BY <2>1, <2>2 DEF Next
<1>2. QED
  BY <1>1, RowsStay DEF Seeded

LEMMA BootInvariant == Spec => []BootInv
<1>1. Init => BootInv
  BY BootTypeInit DEF Init, BootInv, Seeded
<1>2. BootInv /\ [Next]_vars => BootInv'
  BY BootTypeStep, SeededStep, SeededOther DEF BootInv
<1>3. QED
  BY <1>1, <1>2, PTL DEF Spec

\* A replica that accepts requests finds every seeded row, however many
\* replicas seed at once and wherever they fail or are killed.
THEOREM SeededBeforeListening == Spec => []ListeningMeansSeeded
<1>1. BootInv => ListeningMeansSeeded
  BY DEF BootInv, Seeded, ListeningMeansSeeded
<1>2. QED
  BY <1>1, BootInvariant, PTL

\* No start or restart writes over what an operator has changed.
THEOREM EditsAreKept == Spec => EditsSurvive
<1> DEFINE Kept == \A s \in Seed : row[s] = "edited" => row'[s] = "edited"
<1>1. TypeOK /\ [Next]_vars => [Kept]_vars
  <2> SUFFICES ASSUME TypeOK, Next
               PROVE  Kept
    OBVIOUS
  <2>1. ASSUME NEW p \in Replica, Bootstrap(p) \/ Kill(p)
        PROVE  Kept
    BY <2>1 DEF Bootstrap, Kill, Boot, Upsert, Insert, Listen, Fail, TypeOK
  <2>2. ASSUME NEW s \in Seed, Edit(s)
        PROVE  Kept
    BY <2>2 DEF Edit, TypeOK
  <2>3. CASE Outage \/ Restore
    BY <2>3 DEF Outage, Restore
  <2>4. QED
    BY <2>1, <2>2, <2>3 DEF Next
<1>2. QED
  BY <1>1, BootTypeCorrect, PTL DEF Spec, EditsSurvive
=============================================================================
