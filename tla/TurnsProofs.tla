----------------------------- MODULE TurnsProofs -----------------------------
(***************************************************************************)
(* Theorems about ConversationTurns, for any number of racing posts and    *)
(* any context limit.                                                      *)
(***************************************************************************)
EXTENDS ConversationTurns, FiniteSetTheorems, SequenceTheorems,
        WellFoundedInduction, TLAPS

\* The largest element of a bounded set of numbers, and the top of such a set.
LEMMA LeastNumber ==
  ASSUME NEW S \in SUBSET Nat, S # {}
  PROVE  \E x \in S : \A y \in S : x <= y
<1>1. \E x \in S : \A y \in S : ~ (<<y, x>> \in OpToRel(<, Nat))
  BY NatLessThanWellFounded, WFMin
<1>2. PICK x \in S : \A y \in S : ~ (<<y, x>> \in OpToRel(<, Nat))
  BY <1>1
<1>3. \A y \in S : ~ (y < x)
  BY <1>2 DEF OpToRel
<1>4. QED
  BY <1>3

LEMMA GreatestNumber ==
  ASSUME NEW b \in Nat, NEW S \in SUBSET (0..b), S # {}
  PROVE  \E x \in S : \A y \in S : x >= y
<1> DEFINE T == {x \in 0..b : \A y \in S : y <= x}
<1>1. b \in T /\ T \in SUBSET Nat
  OBVIOUS
<1>2. PICK x \in T : \A z \in T : x <= z
  BY <1>1, LeastNumber
<1>3. CASE x \in S
  BY <1>2, <1>3
<1>4. CASE x \notin S
  <2>1. \A y \in S : y \in Nat
    OBVIOUS
  <2>2. PICK y \in S : TRUE
    OBVIOUS
  <2>3. x \in 0..b /\ \A z \in S : z \in Nat /\ z <= x /\ z # x
    BY <1>2, <1>4
  <2>4. x - 1 \in 0..b /\ \A z \in S : z <= x - 1
    BY <2>2, <2>3, <2>1
  <2>5. x - 1 \in T
    BY <2>4
  <2>6. x <= x - 1 /\ x \in Int
    BY <1>2, <2>3, <2>5
  <2>7. QED
    BY <2>6
<1>5. QED
  BY <1>3, <1>4

\* If a completed message is not in the context, the context is full and all of
\* it is later.
LEMMA ContextIsFull ==
  ASSUME NEW b \in Nat, CompletedSeqs \in SUBSET (0..b),
         NEW u \in CompletedSeqs, u \notin ContextWindow
  PROVE  /\ Cardinality(ContextWindow) = ContextLimit
         /\ \A n \in ContextWindow : n > u
<1> DEFINE C == CompletedSeqs
           W == ContextWindow
           L == ContextLimit
           Above(n) == {m \in C : m > n}
<1>0. /\ C \in SUBSET (0..b) /\ L \in Nat \ {0} /\ u \in C /\ u \notin W
      /\ W = {n \in C : Cardinality({m \in C : m > n}) < L}
  BY ContextLimitAssumption DEF ContextWindow
<1> HIDE DEF C, W, L
<1>1. W \in SUBSET C
  BY <1>0
<1>2. \A n \in C : n \in Nat
  BY <1>0
<1>3. IsFiniteSet(C) /\ IsFiniteSet(W)
  <2>1. IsFiniteSet(0..b)
    BY FS_Interval
  <2>2. IsFiniteSet(C)
    BY <1>0, <2>1, FS_Subset
  <2>3. W \in SUBSET C
    BY <1>0
  <2>4. QED
    BY <2>2, <2>3, FS_Subset
<1>4. \A n \in C : IsFiniteSet(Above(n)) /\ Cardinality(Above(n)) \in Nat
  <2>1. \A n \in C : Above(n) \in SUBSET C
    BY <1>0
  <2>2. QED
    BY <1>3, <2>1, FS_Subset, FS_CardinalityType
<1>5. \A n, p \in C : n <= p => Cardinality(Above(p)) <= Cardinality(Above(n))
  <2>1. \A n, p \in C : n <= p => Above(p) \in SUBSET Above(n)
    <3>1. \A n, p, m \in C : n <= p /\ m > p => m > n
      <4>1. \A n \in C : n \in Nat
        BY <1>0
      <4>2. QED
        BY <4>1
    <3>2. QED
      BY <3>1
  <2>2. QED
    BY <1>4, <2>1, FS_Subset
<1>6. \A n \in C : n \in W <=> Cardinality(Above(n)) < L
  BY <1>0
<1> HIDE DEF Above
<1>7. \A n \in W, p \in C : n <= p => p \in W
  BY <1>0, <1>1, <1>4, <1>5, <1>6
<1>8. \A n \in W : n > u
  BY <1>0, <1>1, <1>2, <1>7
\* The greatest element that is left out has all of W above it.
<1>9. L <= Cardinality(W)
  <2>1. C \ W \in SUBSET (0..b) /\ C \ W # {}
    BY <1>0
  <2>2. PICK p \in C \ W : \A y \in C \ W : p >= y
    BY <2>1, GreatestNumber
  <2>3. Above(p) \in SUBSET W
    <3>1. \A m \in C : m > p => m \in W
      BY <1>2, <2>2
    <3>2. QED
      BY <3>1 DEF Above
  <2>4. Cardinality(Above(p)) <= Cardinality(W)
    BY <1>3, <2>3, FS_Subset
  <2>5. ~ (Cardinality(Above(p)) < L)
    BY <1>6, <2>2
  <2>6. QED
    BY <1>0, <1>3, <1>4, <2>2, <2>4, <2>5, FS_CardinalityType
\* The least element of W has the rest of W above it.
<1>10. Cardinality(W) <= L
  <2>1. W # {}
    <3>1. Cardinality({}) = 0
      BY FS_EmptySet
    <3>2. SUFFICES ASSUME W = {} PROVE FALSE
      BY <1>0
    <3>3. L <= 0
      BY <1>9, <3>1, <3>2
    <3>4. QED
      BY <1>0, <3>3
  <2>2. W \in SUBSET C /\ \A n \in C : n \in Nat
    BY <1>1, <1>2
  <2>3. W \in SUBSET Nat
    BY <2>2
  <2>4. PICK n \in W : \A p \in W : n <= p
    BY <2>1, <2>3, LeastNumber
  <2>5. Above(n) = W \ {n}
    <3>1. \A m \in C : m > n <=> m \in W /\ m # n
      BY <1>7, <2>2, <2>4
    <3>2. QED
      BY <2>2, <3>1 DEF Above
  <2>6. Cardinality(W \ {n}) = Cardinality(W) - 1
    BY <1>3, <2>4, FS_RemoveElement
  <2>7. Cardinality(Above(n)) < L
    BY <1>1, <1>6, <2>4
  <2>8. QED
    BY <1>0, <1>3, <2>5, <2>6, <2>7, FS_CardinalityType
<1>11. QED
  <2>1. Cardinality(W) = L
    BY <1>0, <1>3, <1>9, <1>10, FS_CardinalityType
  <2>2. QED
    BY <1>8, <2>1 DEF W, L
-----------------------------------------------------------------------------
\* The table holds whole turns, numbered from 0 on.
Filled == \E k \in Nat : DOMAIN messages = 0..(2 * k - 1)

\* What a request that has not stored its turn, or has, knows about the table.
BeforeCommit(t) ==
  /\ turn[t].pc \notin {"loadContext", "running", "settled", "error"} =>
       \A n \in DOMAIN messages : messages[n].turn # t
  /\ turn[t].pc = "commit" =>
       /\ turn[t].userSeq % 2 = 0
       /\ 0..(turn[t].userSeq - 1) \subseteq DOMAIN messages
  /\ turn[t].pc = "conflict" => turn[t].userSeq \in DOMAIN messages

AfterCommit(t) ==
  turn[t].pc \in {"loadContext", "running", "settled"} =>
    /\ turn[t].userSeq % 2 = 0
    /\ turn[t].userSeq \in DOMAIN messages
    /\ messages[turn[t].userSeq].turn = t
    /\ messages[turn[t].userSeq].status = "completed"

RecentContext(t) ==
  turn[t].pc \in {"running", "settled"} =>
    \/ turn[t].userSeq \in turn[t].context
    \/ /\ Cardinality(turn[t].context) = ContextLimit
       /\ \A n \in turn[t].context : n > turn[t].userSeq

Stage(t) == BeforeCommit(t) /\ AfterCommit(t) /\ RecentContext(t)

TurnsInv ==
  /\ TypeOK /\ Filled /\ TurnsAdjacent
  /\ \A t \in Turn : Stage(t)

TurnRecord == [pc : Place, userSeq : Nat, context : SUBSET Nat]

LEMMA TurnsInit == Init => TurnsInv
<1> SUFFICES ASSUME Init
             PROVE  TurnsInv
  OBVIOUS
<1>1. DOMAIN messages = {}
  BY DEF Init
<1>2. turn \in [Turn -> TurnRecord] /\ \A t \in Turn : turn[t].pc = "idle"
  BY DEF Init, TurnRecord, Place
<1>3. TypeOK
  BY <1>1, <1>2 DEF TypeOK, Init, TurnRecord
<1>4. Filled
  <2>1. 0..(2 * 0 - 1) = {}
    OBVIOUS
  <2>2. QED
    BY <1>1, <2>1 DEF Filled
<1>5. TurnsAdjacent
  BY <1>1 DEF TurnsAdjacent
<1>6. \A t \in Turn : Stage(t)
  BY <1>1, <1>2 DEF Stage, BeforeCommit, AfterCommit, RecentContext
<1>7. QED
  BY <1>3, <1>4, <1>5, <1>6 DEF TurnsInv

\* The number a request reads is the number of rows.
LEMMA LastNumber ==
  ASSUME NEW k \in Nat, DOMAIN messages = 0..(2 * k - 1)
  PROVE  LastSeq + 1 = 2 * k
<1>1. CASE k = 0
  <2>1. DOMAIN messages = {}
    BY <1>1
  <2>2. QED
    BY <1>1, <2>1 DEF LastSeq
<1>2. CASE k > 0
  <2>1. /\ 2 * k - 1 \in DOMAIN messages
        /\ \A n \in DOMAIN messages : n \in Int /\ 2 * k - 1 >= n
    BY <1>2
  <2>2. /\ Max(DOMAIN messages) \in DOMAIN messages
        /\ \A n \in DOMAIN messages : Max(DOMAIN messages) >= n
    BY <2>1 DEF Max
  <2>3. Max(DOMAIN messages) = 2 * k - 1
    BY <2>1, <2>2
  <2>4. DOMAIN messages # {}
    BY <2>1
  <2>5. QED
    BY <2>3, <2>4 DEF LastSeq
<1>3. QED
  BY <1>1, <1>2

\* A step of one request that leaves the table alone.
LEMMA LocalStep ==
  ASSUME TurnsInv, NEW t \in Turn, NEW r \in TurnRecord,
         turn' = [turn EXCEPT ![t] = r], UNCHANGED messages,
         conversation' \in ConversationStatus \cup {"none"},
         Stage(t)'
  PROVE  TurnsInv'
<1>1. TypeOK'
  BY DEF TurnsInv, TypeOK, TurnRecord
<1>2. Filled' /\ TurnsAdjacent'
  BY DEF TurnsInv, Filled, TurnsAdjacent
<1>3. \A u \in Turn : u # t => turn'[u] = turn[u]
  BY DEF TurnsInv, TypeOK
<1>4. ASSUME NEW u \in Turn, u # t PROVE Stage(u)'
  BY <1>3, <1>4 DEF TurnsInv, Stage, BeforeCommit, AfterCommit, RecentContext
<1>5. QED
  BY <1>1, <1>2, <1>4 DEF TurnsInv

\* The three steps of a request that only read.
LEMMA ReadingStep ==
  ASSUME TurnsInv, NEW t \in Turn,
         CheckConversation(t) \/ ReadMax(t) \/ LoadContext(t)
  PROVE  TurnsInv'
<1>1. turn[t] \in TurnRecord /\ t \in DOMAIN turn
  BY DEF TurnsInv, TypeOK, TurnRecord
<1>2. conversation \in ConversationStatus \cup {"none"} /\ Stage(t)
  BY DEF TurnsInv, TypeOK
<1>3. CASE CheckConversation(t)
  <2>1. PICK p \in {"notFound", "archived", "readMax"} : turn' = [turn EXCEPT ![t].pc = p]
    BY <1>3 DEF CheckConversation
  <2> DEFINE r == [turn[t] EXCEPT !.pc = p]
  <2>2. r \in TurnRecord /\ r.pc = p
    BY <1>1 DEF TurnRecord, Place
  <2>3. turn' = [turn EXCEPT ![t] = r]
    BY <2>1
  <2> HIDE DEF r
  <2>4. turn'[t] = r
    BY <1>1, <2>3
  <2>5. Stage(t)'
    BY <1>2, <1>3, <2>2, <2>4
    DEF Stage, BeforeCommit, AfterCommit, RecentContext, CheckConversation
  <2>6. QED
    BY <1>2, <1>3, <2>2, <2>3, <2>5, LocalStep DEF CheckConversation
<1>4. CASE ReadMax(t)
  <2>1. PICK k \in Nat : DOMAIN messages = 0..(2 * k - 1)
    BY DEF TurnsInv, Filled
  <2> DEFINE r == [turn[t] EXCEPT !.pc = "commit", !.userSeq = 2 * k]
  <2>2. 2 * k \in Nat
    OBVIOUS
  <2>3. r \in TurnRecord /\ r.pc = "commit" /\ r.userSeq = 2 * k
    BY <1>1, <2>2 DEF TurnRecord, Place
  <2>4. turn' = [turn EXCEPT ![t] = r]
    BY <1>4, <2>1, LastNumber DEF ReadMax
  <2> HIDE DEF r
  <2>5. turn'[t] = r
    BY <1>1, <2>4
  <2>6. (2 * k) % 2 = 0 /\ 0..(2 * k - 1) \subseteq DOMAIN messages
    BY <2>1
  <2>7. Stage(t)'
    BY <1>2, <1>4, <2>3, <2>5, <2>6
    DEF Stage, BeforeCommit, AfterCommit, RecentContext, ReadMax
  <2>8. QED
    BY <1>2, <1>4, <2>3, <2>4, <2>7, LocalStep DEF ReadMax
<1>5. CASE LoadContext(t)
  <2> DEFINE r == [turn[t] EXCEPT !.pc = "running", !.context = ContextWindow]
             s == turn[t].userSeq
  <2>1. PICK k \in Nat : DOMAIN messages = 0..(2 * k - 1)
    BY DEF TurnsInv, Filled
  <2>2. /\ s \in DOMAIN messages /\ messages[s].status = "completed"
        /\ s % 2 = 0 /\ messages[s].turn = t
    BY <1>2, <1>5 DEF Stage, AfterCommit, LoadContext
  <2>3. ContextWindow \in SUBSET Nat
    BY DEF ContextWindow, CompletedSeqs, TurnsInv, TypeOK
  <2>4. /\ r \in TurnRecord
        /\ r.pc = "running" /\ r.context = ContextWindow /\ r.userSeq = s
    BY <1>1, <2>3 DEF TurnRecord, Place
  <2>5. turn' = [turn EXCEPT ![t] = r]
    BY <1>5 DEF LoadContext
  <2> HIDE DEF r
  <2>6. turn'[t] = r
    BY <1>1, <2>5
  <2>7. \/ s \in ContextWindow
        \/ /\ Cardinality(ContextWindow) = ContextLimit
           /\ \A n \in ContextWindow : n > s
    <3>1. CompletedSeqs \in SUBSET (0..(2 * k)) /\ s \in CompletedSeqs /\ 2 * k \in Nat
      BY <2>1, <2>2 DEF CompletedSeqs
    <3>2. SUFFICES ASSUME s \notin ContextWindow
                   PROVE  /\ Cardinality(ContextWindow) = ContextLimit
                          /\ \A n \in ContextWindow : n > s
      OBVIOUS
    <3>3. PICK b \in Nat : CompletedSeqs \in SUBSET (0..b)
      BY <3>1
    <3> HIDE DEF s
    <3>4. QED
      BY <3>1, <3>2, <3>3, ContextIsFull
  <2>8. Stage(t)'
    BY <1>5, <2>2, <2>4, <2>6, <2>7
    DEF Stage, BeforeCommit, AfterCommit, RecentContext, LoadContext
  <2>9. QED
    BY <1>2, <1>5, <2>4, <2>5, <2>8, LocalStep DEF LoadContext
<1>6. QED
  BY <1>3, <1>4, <1>5

\* The place a failing commit leaves a request at.
LEMMA RefusedStep ==
  ASSUME TurnsInv, NEW t \in Turn, turn[t].pc = "commit", NEW p \in {"conflict", "error"},
         turn' = [turn EXCEPT ![t].pc = p], UNCHANGED <<conversation, messages>>,
         p = "conflict" => turn[t].userSeq \in DOMAIN messages
  PROVE  TurnsInv'
<1>1. turn[t] \in TurnRecord /\ t \in DOMAIN turn
  BY DEF TurnsInv, TypeOK, TurnRecord
<1> DEFINE r == [turn[t] EXCEPT !.pc = p]
<1>2. r \in TurnRecord /\ r.pc = p /\ r.userSeq = turn[t].userSeq
  BY <1>1 DEF TurnRecord, Place
<1>3. turn' = [turn EXCEPT ![t] = r]
  OBVIOUS
<1> HIDE DEF r
<1>4. turn'[t] = r
  BY <1>1, <1>3
<1>5. Stage(t)'
  BY <1>2, <1>4 DEF TurnsInv, Stage, BeforeCommit, AfterCommit, RecentContext
<1>6. QED
  BY <1>2, <1>3, <1>5, LocalStep DEF TurnsInv, TypeOK
-----------------------------------------------------------------------------
\* The insert that passes the unique index appends a whole turn.
LEMMA InsertedTurn ==
  ASSUME TurnsInv, NEW t \in Turn, turn[t].pc = "commit",
         ~NumbersTaken(turn[t].userSeq),
         messages' = InsertTurn(t, turn[t].userSeq)
  PROVE  \E k \in Nat :
           /\ turn[t].userSeq = 2 * k
           /\ DOMAIN messages = 0..(2 * k - 1) /\ DOMAIN messages' = 0..(2 * k + 1)
           /\ \A n \in DOMAIN messages : messages'[n] = messages[n]
           /\ messages'[2 * k] = [role |-> "user", turn |-> t, status |-> "completed"]
           /\ messages'[2 * k + 1] =
                [role |-> "assistant", turn |-> t, status |-> "streaming"]
<1> DEFINE s == turn[t].userSeq
<1>1. PICK k \in Nat : DOMAIN messages = 0..(2 * k - 1)
  BY DEF TurnsInv, Filled
<1>2. s \in Nat /\ s % 2 = 0 /\ 0..(s - 1) \subseteq DOMAIN messages
  BY DEF TurnsInv, TypeOK, Stage, BeforeCommit
<1>3. s \notin DOMAIN messages
  BY DEF NumbersTaken
<1> HIDE DEF s
<1>4. s = 2 * k
  <2>1. s >= 2 * k
    BY <1>1, <1>2, <1>3
  <2>2. s > 2 * k => s - 1 \in DOMAIN messages /\ ~ (s - 1 <= 2 * k - 1)
    BY <1>1, <1>2
  <2>3. QED
    BY <1>1, <1>2, <2>1, <2>2
<1>5. DOMAIN messages \cup {2 * k, 2 * k + 1} = 0..(2 * k + 1)
  BY <1>1
<1>6. messages' = [n \in 0..(2 * k + 1) |->
         CASE n = 2 * k -> [role |-> "user", turn |-> t, status |-> "completed"]
           [] n = 2 * k + 1 -> [role |-> "assistant", turn |-> t, status |-> "streaming"]
           [] OTHER -> messages[n]]
  BY <1>4, <1>5 DEF InsertTurn, s
<1>7. /\ 2 * k \in 0..(2 * k + 1) /\ 2 * k + 1 \in 0..(2 * k + 1)
      /\ \A n \in DOMAIN messages :
           n \in 0..(2 * k + 1) /\ n # 2 * k /\ n # 2 * k + 1
  BY <1>1
<1>8. /\ DOMAIN messages' = 0..(2 * k + 1)
      /\ messages'[2 * k] = [role |-> "user", turn |-> t, status |-> "completed"]
      /\ messages'[2 * k + 1] =
           [role |-> "assistant", turn |-> t, status |-> "streaming"]
      /\ \A n \in DOMAIN messages : messages'[n] = messages[n]
  BY <1>6, <1>7
<1>9. QED
  BY <1>1, <1>4, <1>8 DEF s

LEMMA StoredStep ==
  ASSUME TurnsInv, NEW t \in Turn, turn[t].pc = "commit",
         ~NumbersTaken(turn[t].userSeq),
         messages' = InsertTurn(t, turn[t].userSeq),
         NEW p \in {"loadContext", "error"}, turn' = [turn EXCEPT ![t].pc = p],
         UNCHANGED conversation
  PROVE  TurnsInv'
<1>1. PICK k \in Nat :
           /\ turn[t].userSeq = 2 * k
           /\ DOMAIN messages = 0..(2 * k - 1) /\ DOMAIN messages' = 0..(2 * k + 1)
           /\ \A n \in DOMAIN messages : messages'[n] = messages[n]
           /\ messages'[2 * k] = [role |-> "user", turn |-> t, status |-> "completed"]
           /\ messages'[2 * k + 1] =
                [role |-> "assistant", turn |-> t, status |-> "streaming"]
  BY InsertedTurn
<1>2. \A n \in DOMAIN messages' :
        \/ n \in DOMAIN messages /\ messages'[n] = messages[n]
        \/ n = 2 * k \/ n = 2 * k + 1
  BY <1>1
<1>3. \A n \in DOMAIN messages' \ DOMAIN messages : messages'[n].turn = t
  <2>1. messages'[2 * k].turn = t /\ messages'[2 * k + 1].turn = t
    BY <1>1
  <2>2. QED
    BY <1>2, <2>1
<1>4. DOMAIN messages \subseteq DOMAIN messages' /\ 2 * k \in DOMAIN messages'
  BY <1>1
<1>5. /\ turn[t] \in TurnRecord
      /\ turn' \in [Turn -> TurnRecord]
      /\ turn'[t].pc = p /\ turn'[t].userSeq = 2 * k
      /\ \A u \in Turn : u # t => turn'[u] = turn[u]
  BY <1>1 DEF TurnsInv, TypeOK, TurnRecord, Place
<1>6. TypeOK'
  <2>1. DOMAIN messages' \subseteq Nat
    BY <1>1
  <2>2. \A n \in DOMAIN messages' : messages'[n] \in Row
    <3>1. messages'[2 * k] \in Row /\ messages'[2 * k + 1] \in Row
      BY <1>1 DEF Row, Settled
    <3>2. \A n \in DOMAIN messages : messages[n] \in Row
      BY DEF TurnsInv, TypeOK
    <3>3. QED
      BY <1>2, <3>1, <3>2
  <2>3. QED
    BY <1>5, <2>1, <2>2 DEF TurnsInv, TypeOK, TurnRecord
<1>7. Filled'
  <2>1. k + 1 \in Nat /\ 2 * (k + 1) - 1 = 2 * k + 1
    OBVIOUS
  <2>2. QED
    BY <1>1, <2>1 DEF Filled
<1>8. TurnsAdjacent'
  <2>1. (2 * k + 1) % 2 = 1
    OBVIOUS
  <2>2. 2 * k + 1 \in DOMAIN messages'
    BY <1>1
  <2>3. \A n \in DOMAIN messages : n % 2 = 0 =>
          /\ n + 1 \in DOMAIN messages'
          /\ messages'[n].role = "user"
          /\ messages'[n + 1].role = "assistant"
          /\ messages'[n + 1].turn = messages'[n].turn
    BY <1>1, <1>4 DEF TurnsInv, TurnsAdjacent
  <2>4. /\ messages'[2 * k].role = "user" /\ messages'[2 * k].turn = t
        /\ messages'[2 * k + 1].role = "assistant" /\ messages'[2 * k + 1].turn = t
    BY <1>1
  <2>5. \A n \in DOMAIN messages' : n % 2 = 0 => n \in DOMAIN messages \/ n = 2 * k
    BY <1>2, <2>1
  <2>6. \A n \in DOMAIN messages : messages'[n].turn = messages[n].turn
    BY <1>1
  <2>7. QED
    BY <2>2, <2>3, <2>4, <2>5, <2>6 DEF TurnsAdjacent
<1>9. Stage(t)'
  <2>1. (2 * k) % 2 = 0
    OBVIOUS
  <2>2. QED
    BY <1>1, <1>4, <1>5, <2>1 DEF Stage, BeforeCommit, AfterCommit, RecentContext
<1>10. ASSUME NEW u \in Turn, u # t PROVE Stage(u)'
  <2>1. Stage(u)
    BY DEF TurnsInv
  <2>2. BeforeCommit(u)'
    BY <1>1, <1>3, <1>4, <1>5, <1>10, <2>1 DEF Stage, BeforeCommit
  <2>3. AfterCommit(u)'
    BY <1>1, <1>4, <1>5, <1>10, <2>1 DEF Stage, AfterCommit
  <2>4. RecentContext(u)'
    BY <1>5, <1>10, <2>1 DEF Stage, RecentContext
  <2>5. QED
    BY <2>2, <2>3, <2>4 DEF Stage
<1>11. QED
  BY <1>6, <1>7, <1>8, <1>9, <1>10 DEF TurnsInv

LEMMA CommitStep == ASSUME TurnsInv, NEW t \in Turn, CommitTurn(t) PROVE TurnsInv'
<1>1. turn[t].pc = "commit" /\ UNCHANGED conversation
  BY DEF CommitTurn
<1>2. CASE NumbersTaken(turn[t].userSeq)
           /\ turn' = [turn EXCEPT ![t].pc = "conflict"] /\ UNCHANGED messages
  <2>1. PICK k \in Nat : DOMAIN messages = 0..(2 * k - 1)
    BY DEF TurnsInv, Filled
  <2>2. turn[t].userSeq \in Nat /\ turn[t].userSeq % 2 = 0
    BY <1>1 DEF TurnsInv, TypeOK, Stage, BeforeCommit
  <2>3. \/ turn[t].userSeq \in DOMAIN messages
        \/ turn[t].userSeq + 1 \in DOMAIN messages
    BY <1>2 DEF NumbersTaken
  <2>4. turn[t].userSeq \in DOMAIN messages
    BY <2>1, <2>2, <2>3
  <2>5. QED
    BY <1>1, <1>2, <2>4, RefusedStep
<1>3. CASE turn' = [turn EXCEPT ![t].pc = "error"] /\ UNCHANGED messages
  BY <1>1, <1>3, RefusedStep
<1>4. CASE /\ ~NumbersTaken(turn[t].userSeq)
           /\ messages' = InsertTurn(t, turn[t].userSeq)
           /\ turn' \in {[turn EXCEPT ![t].pc = "loadContext"],
                         [turn EXCEPT ![t].pc = "error"]}
  <2>1. PICK p \in {"loadContext", "error"} : turn' = [turn EXCEPT ![t].pc = p]
    BY <1>4
  <2>2. QED
    BY <1>1, <1>4, <2>1, StoredStep
<1>5. QED
  BY <1>2, <1>3, <1>4 DEF CommitTurn

\* The finalizer writes the answer's row, never a prompt.
LEMMA SettleStep == ASSUME TurnsInv, NEW t \in Turn, SettleAssistant(t) PROVE TurnsInv'
<1>1. /\ turn[t].pc = "running" /\ UNCHANGED conversation
      /\ turn' = [turn EXCEPT ![t].pc = "settled"]
  BY DEF SettleAssistant
<1>2. /\ turn[t].userSeq \in Nat /\ turn[t].userSeq % 2 = 0
      /\ turn[t].userSeq \in DOMAIN messages
  BY <1>1 DEF TurnsInv, TypeOK, Stage, AfterCommit
<1>3. PICK v \in Settled : messages' = [messages EXCEPT ![turn[t].userSeq + 1].status = v]
  BY DEF SettleAssistant
<1>4. /\ DOMAIN messages' = DOMAIN messages
      /\ \A n \in DOMAIN messages :
           /\ messages'[n] \in Row
           /\ messages'[n].role = messages[n].role
           /\ messages'[n].turn = messages[n].turn
           /\ n # turn[t].userSeq + 1 => messages'[n] = messages[n]
  <2>1. ASSUME NEW n \in DOMAIN messages, n = turn[t].userSeq + 1
        PROVE  /\ messages'[n] = [messages[n] EXCEPT !.status = v]
    BY <1>3, <2>1
  <2>2. ASSUME NEW n \in DOMAIN messages, n # turn[t].userSeq + 1
        PROVE  messages'[n] = messages[n]
    BY <1>3, <2>2
  <2>3. \A n \in DOMAIN messages : messages[n] \in Row
    BY DEF TurnsInv, TypeOK
  <2>4. ASSUME NEW r \in Row PROVE
          /\ [r EXCEPT !.status = v] \in Row
          /\ [r EXCEPT !.status = v].role = r.role
          /\ [r EXCEPT !.status = v].turn = r.turn
    BY DEF Row
  <2>5. DOMAIN messages' = DOMAIN messages
    BY <1>3
  <2>6. QED
    BY <2>1, <2>2, <2>3, <2>4, <2>5
<1>5. /\ turn' \in [Turn -> TurnRecord]
      /\ turn'[t].pc = "settled" /\ turn'[t].userSeq = turn[t].userSeq
      /\ turn'[t].context = turn[t].context
      /\ \A u \in Turn : u # t => turn'[u] = turn[u]
  <2>1. turn \in [Turn -> TurnRecord] /\ turn[t] \in TurnRecord
    BY DEF TurnsInv, TypeOK, TurnRecord
  <2>2. [turn[t] EXCEPT !.pc = "settled"] \in TurnRecord
    BY <2>1 DEF TurnRecord, Place
  <2>3. QED
    BY <1>1, <2>1, <2>2 DEF TurnRecord
<1>6. \A n \in DOMAIN messages : n % 2 = 0 => messages'[n] = messages[n]
  <2>1. (turn[t].userSeq + 1) % 2 = 1
    BY <1>2
  <2>2. QED
    BY <1>4, <2>1
<1>7. TypeOK'
  BY <1>1, <1>4, <1>5 DEF TurnsInv, TypeOK, TurnRecord
<1>8. Filled' /\ TurnsAdjacent'
  <2>1. Filled'
    BY <1>4 DEF TurnsInv, Filled
  <2>2. ASSUME NEW n \in DOMAIN messages, n % 2 = 0
        PROVE  /\ n + 1 \in DOMAIN messages'
               /\ messages'[n].role = "user"
               /\ messages'[n + 1].role = "assistant"
               /\ messages'[n + 1].turn = messages'[n].turn
    <3>1. /\ n + 1 \in DOMAIN messages
          /\ messages[n].role = "user"
          /\ messages[n + 1].role = "assistant"
          /\ messages[n + 1].turn = messages[n].turn
      BY <2>2 DEF TurnsInv, TurnsAdjacent
    <3>2. QED
      BY <1>4, <3>1
  <2>3. QED
    BY <1>4, <2>1, <2>2 DEF TurnsAdjacent
<1>9. ASSUME NEW u \in Turn PROVE Stage(u)'
  <2>1. Stage(u)
    BY DEF TurnsInv
  <2>2. BeforeCommit(u)'
    BY <1>1, <1>4, <1>5, <2>1 DEF Stage, BeforeCommit
  <2>3. AfterCommit(u)'
    BY <1>1, <1>4, <1>5, <1>6, <2>1 DEF Stage, AfterCommit
  <2>4. RecentContext(u)'
    BY <1>1, <1>5, <2>1 DEF Stage, RecentContext
  <2>5. QED
    BY <2>2, <2>3, <2>4 DEF Stage
<1>10. QED
  BY <1>7, <1>8, <1>9 DEF TurnsInv

LEMMA TurnsStep == TurnsInv /\ [Next]_vars => TurnsInv'
<1> SUFFICES ASSUME TurnsInv, [Next]_vars
             PROVE  TurnsInv'
  OBVIOUS
<1>1. CASE \/ UNCHANGED vars \/ CreateConversation
           \/ \E s \in ConversationStatus : UpdateConversation(s)
  <2>1. /\ UNCHANGED <<messages, turn>>
        /\ conversation' \in ConversationStatus \cup {"none"}
    BY <1>1 DEF vars, CreateConversation, UpdateConversation, TurnsInv, TypeOK,
                ConversationStatus
  <2>2. QED
    BY <2>1 DEF TurnsInv, TypeOK, Filled, TurnsAdjacent, Stage, BeforeCommit,
                AfterCommit, RecentContext
<1>2. ASSUME NEW t \in Turn,
             CheckConversation(t) \/ ReadMax(t) \/ CommitTurn(t)
             \/ LoadContext(t) \/ SettleAssistant(t)
      PROVE  TurnsInv'
  BY <1>2, ReadingStep, CommitStep, SettleStep
<1>3. QED
  BY <1>1, <1>2 DEF Next

LEMMA TurnsInvariant == Spec => []TurnsInv
BY TurnsInit, TurnsStep, PTL DEF Spec
-----------------------------------------------------------------------------
\* Every variable of ConversationTurns keeps its type.
THEOREM TurnsTypeCorrect == Spec => []TypeOK
<1>1. TurnsInv => TypeOK
  BY DEF TurnsInv
<1>2. QED
  BY <1>1, TurnsInvariant, PTL

LEMMA RowCount ==
  ASSUME NEW k \in Nat, NEW D, D = 0..(2 * k - 1)
  PROVE  Cardinality(D) = 2 * k /\ Cardinality(D) \div 2 = k
<1>1. Cardinality(0..(2 * k - 1)) = 2 * k
  <2>1. CASE k = 0
    BY <2>1, FS_Interval
  <2>2. CASE k > 0
    BY <2>2, FS_Interval
  <2>3. QED
    BY <2>1, <2>2
<1>2. QED
  BY <1>1

\* The numbers of a conversation have no gap, however many posts race.
THEOREM NumbersAreContiguous == Spec => []SequenceContiguous
<1>1. TurnsInv => SequenceContiguous
  <2>1. SUFFICES ASSUME TurnsInv
                 PROVE  SequenceContiguous
    OBVIOUS
  <2>2. PICK k \in Nat : DOMAIN messages = 0..(2 * k - 1)
    BY <2>1 DEF TurnsInv, Filled
  <2>3. QED
    BY <2>2, RowCount DEF SequenceContiguous
<1>2. QED
  BY <1>1, TurnsInvariant, PTL

\* Every prompt is followed by its own answer.
THEOREM TurnsStayAdjacent == Spec => []TurnsAdjacent
<1>1. TurnsInv => TurnsAdjacent
  BY DEF TurnsInv
<1>2. QED
  BY <1>1, TurnsInvariant, PTL

\* Whoever loses its number loses it to another turn.
THEOREM ConflictsHaveWinners == Spec => []ConflictHasWinner
<1>1. TurnsInv => ConflictHasWinner
  BY DEF TurnsInv, Stage, BeforeCommit, ConflictHasWinner
<1>2. QED
  BY <1>1, TurnsInvariant, PTL

\* The context has the own prompt, or is full of later messages.
THEOREM ContextIsRecent == Spec => []ContextKeepsOwnPrompt
<1>1. TurnsInv => ContextKeepsOwnPrompt
  BY DEF TurnsInv, Stage, RecentContext, ContextKeepsOwnPrompt
<1>2. QED
  BY <1>1, TurnsInvariant, PTL
-----------------------------------------------------------------------------
\* The ledger of turns that a table stands for.
LedgerOf(k) == [n \in 1..k |-> messages[2 * (n - 1)].turn]

Mapped == [k \in 1..(Cardinality(DOMAIN messages) \div 2) |->
             messages[2 * (k - 1)].turn]

LEMMA MappedLedger ==
  ASSUME NEW k \in Nat, DOMAIN messages = 0..(2 * k - 1)
  PROVE  Mapped = LedgerOf(k)
BY RowCount DEF Mapped, LedgerOf

\* A step that leaves the numbers and their turns alone leaves the ledger alone.
LEMMA SameLedger ==
  ASSUME TurnsInv, DOMAIN messages' = DOMAIN messages,
         \A n \in DOMAIN messages : messages'[n].turn = messages[n].turn
  PROVE  Mapped' = Mapped
<1>1. PICK k \in Nat : DOMAIN messages = 0..(2 * k - 1)
  BY DEF TurnsInv, Filled
<1>2. Mapped = LedgerOf(k)
  BY <1>1, MappedLedger
<1>3. Mapped' = LedgerOf(k)'
  BY <1>1, RowCount DEF Mapped, LedgerOf
<1>4. \A n \in 1..k : 2 * (n - 1) \in DOMAIN messages
  BY <1>1
<1>5. LedgerOf(k)' = LedgerOf(k)
  BY <1>4 DEF LedgerOf
<1>6. QED
  BY <1>2, <1>3, <1>5

\* Storing a turn appends it.
LEMMA StoredLedger ==
  ASSUME TurnsInv, NEW t \in Turn, turn[t].pc = "commit",
         ~NumbersTaken(turn[t].userSeq),
         messages' = InsertTurn(t, turn[t].userSeq)
  PROVE  Ledger!AppendTurn(t)
<1>1. PICK k \in Nat :
           /\ turn[t].userSeq = 2 * k
           /\ DOMAIN messages = 0..(2 * k - 1) /\ DOMAIN messages' = 0..(2 * k + 1)
           /\ \A n \in DOMAIN messages : messages'[n] = messages[n]
           /\ messages'[2 * k] = [role |-> "user", turn |-> t, status |-> "completed"]
           /\ messages'[2 * k + 1] =
                [role |-> "assistant", turn |-> t, status |-> "streaming"]
  BY InsertedTurn
<1>2. Mapped = LedgerOf(k)
  BY <1>1, MappedLedger
<1>3. Mapped' = LedgerOf(k + 1)'
  <2>1. k + 1 \in Nat /\ 2 * (k + 1) - 1 = 2 * k + 1
    OBVIOUS
  <2>2. Cardinality(DOMAIN messages') \div 2 = k + 1
    BY <1>1, <2>1, RowCount
  <2>3. QED
    BY <2>2 DEF Mapped, LedgerOf
<1>4. \A n \in 1..k : 2 * (n - 1) \in DOMAIN messages
  BY <1>1
<1>5. \A n \in 1..k : LedgerOf(k)[n] # t /\ LedgerOf(k)[n] \in Turn
  <2>1. \A n \in DOMAIN messages : messages[n].turn # t /\ messages[n].turn \in Turn
    BY DEF TurnsInv, TypeOK, Row, Stage, BeforeCommit
  <2>2. QED
    BY <1>4, <2>1 DEF LedgerOf
<1>6. LedgerOf(k) \in Seq(Turn) /\ Len(LedgerOf(k)) = k /\ DOMAIN LedgerOf(k) = 1..k
  BY <1>5 DEF LedgerOf
<1>7. LedgerOf(k + 1)' = Append(LedgerOf(k), t)
  <2>1. /\ Append(LedgerOf(k), t) \in Seq(Turn)
        /\ Len(Append(LedgerOf(k), t)) = k + 1
        /\ \A n \in 1..(k + 1) :
             Append(LedgerOf(k), t)[n] = IF n = k + 1 THEN t ELSE LedgerOf(k)[n]
    BY <1>6, AppendProperties
  <2>2. messages'[2 * ((k + 1) - 1)].turn = t
    BY <1>1
  <2>3. \A n \in 1..k : messages'[2 * (n - 1)].turn = LedgerOf(k)[n]
    BY <1>1, <1>4 DEF LedgerOf
  <2>4. LedgerOf(k + 1)' = [n \in 1..(k + 1) |-> messages'[2 * (n - 1)].turn]
    BY DEF LedgerOf
  <2>5. \A n \in 1..(k + 1) : n \in 1..k \/ n = k + 1
    OBVIOUS
  <2>6. \A n \in 1..k : n # k + 1
    OBVIOUS
  <2>7. \A n \in 1..(k + 1) :
          messages'[2 * (n - 1)].turn = IF n = k + 1 THEN t ELSE LedgerOf(k)[n]
    BY <2>2, <2>3, <2>5, <2>6
  <2>8. /\ LedgerOf(k + 1)' \in Seq(Turn) /\ Len(LedgerOf(k + 1)') = k + 1
        /\ \A n \in 1..(k + 1) :
             LedgerOf(k + 1)'[n] = IF n = k + 1 THEN t ELSE LedgerOf(k)[n]
    BY <1>5, <2>4, <2>5, <2>7
  <2>9. QED
    BY <2>1, <2>8, SeqEqual
<1>8. Mapped' = Append(Mapped, t) /\ \A n \in DOMAIN Mapped : Mapped[n] # t
  BY <1>2, <1>3, <1>5, <1>6, <1>7
<1>9. QED
  BY <1>8 DEF Mapped, Ledger!AppendTurn

\* The racing posts implement an append-only list to which each turn is added
\* at most once.
THEOREM TurnsImplementLedger == Spec => ImplementsLedger
<1>1. Init => Ledger!LedgerInit
  <2>1. SUFFICES ASSUME Init
                 PROVE  Mapped = <<>>
    BY DEF Mapped, Ledger!LedgerInit
  <2>2. DOMAIN messages = 0..(2 * 0 - 1)
    <3>1. DOMAIN messages = {}
      BY <2>1 DEF Init
    <3>2. 0..(2 * 0 - 1) = {}
      OBVIOUS
    <3>3. QED
      BY <3>1, <3>2
  <2>3. QED
    BY <2>2, MappedLedger DEF LedgerOf
<1>2. TurnsInv /\ [Next]_vars => [Ledger!LedgerNext]_Mapped
  <2>1. SUFFICES ASSUME TurnsInv, [Next]_vars
                 PROVE  Ledger!LedgerNext \/ Mapped' = Mapped
    OBVIOUS
  <2>2. CASE UNCHANGED messages
    BY <2>1, <2>2, SameLedger
  <2>3. ASSUME NEW t \in Turn, SettleAssistant(t) PROVE Mapped' = Mapped
    <3>1. PICK v \in Settled :
            messages' = [messages EXCEPT ![turn[t].userSeq + 1].status = v]
      BY <2>3 DEF SettleAssistant
    <3>2. \A n \in DOMAIN messages : messages[n] \in Row
      BY <2>1 DEF TurnsInv, TypeOK
    <3>3. DOMAIN messages' = DOMAIN messages
      BY <3>1
    <3>4. ASSUME NEW n \in DOMAIN messages
          PROVE  messages'[n].turn = messages[n].turn
      BY <3>1, <3>2 DEF Row
    <3>5. QED
      BY <2>1, <3>3, <3>4, SameLedger
  <2>4. ASSUME NEW t \in Turn, CommitTurn(t), ~UNCHANGED messages
        PROVE  Ledger!LedgerNext
    BY <2>1, <2>4, StoredLedger DEF CommitTurn, Ledger!LedgerNext
  <2>5. QED
    BY <2>1, <2>2, <2>3, <2>4
    DEF Next, vars, CreateConversation, UpdateConversation, CheckConversation,
        ReadMax, LoadContext
<1>3. QED
  BY <1>1, <1>2, TurnsInvariant, PTL
  DEF Spec, ImplementsLedger, Ledger!LedgerSpec, Mapped
=============================================================================
