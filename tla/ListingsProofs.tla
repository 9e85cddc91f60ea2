--------------------------- MODULE ListingsProofs ---------------------------
(***************************************************************************)
(* Theorems about Listings, for any rows, any page size and any number of  *)
(* writes that race the walk: its types, ShownOnce, PagesDescend,          *)
(* NothingSkipped and SummaryCovers, from an invariant that relates what   *)
(* the pages have shown to the table as it is now and to the cursor.       *)
(***************************************************************************)
EXTENDS Listings, TLAPS

\* What the pages show is sorted and ends with the cursor.
CursorAfter ==
  /\ walk.from = {} => Shown = {}
  /\ \A p \in Shown, c \in walk.from : p = c \/ Before(p, c)

\* A shown row is still there, at the key it was shown with or at a higher one
\* unless its key was lowered; an inference request keeps its key.
ShownStored ==
  \A p \in Shown :
    /\ p.key # 0
    /\ p.row \in walk.lowered \/ table[p.row].key >= p.key
    /\ list = "requests" => table[p.row].key = p.key

\* What matched at first and has not been moved is shown or still ahead.
ShownOrAhead ==
  \A r \in walk.first \ walk.moved :
    /\ Matches(walk.filter, table[r])
    /\ PositionOf(r) \in Shown \/ \A c \in walk.from : Before(c, PositionOf(r))

WalkInv ==
  walk.phase = "walking" => CursorAfter /\ ShownStored /\ ShownOrAhead

\* What the totals counted is still in the range of the summary.
SummaryInv ==
  /\ summary.pc # "idle" => list = "requests"
  /\ summary.pc = "counted" => summary.counted \subseteq Since(summary.cutoff)

ListInv ==
  TypeOK /\ WalkInv /\ SummaryInv
  /\ ShownOnce /\ PagesDescend /\ NothingSkipped /\ SummaryCovers
-----------------------------------------------------------------------------

LEMMA PositionFields ==
  ASSUME NEW p \in Position
  PROVE  p.key \in Nat /\ p.row \in Nat
<1>1. p.key \in 0..MaxTime /\ p.row \in Row
  BY DEF Position, Time
<1>2. p.key \in Nat
  BY <1>1
<1>3. p.row \in Nat
  BY <1>1, ListAssumption
<1>. QED BY <1>2, <1>3

\* The order of the lists, on positions.
LEMMA BeforeTransitive ==
  ASSUME NEW p \in Position, NEW c \in Position, NEW q \in Position,
         Before(p, c), Before(c, q)
  PROVE  Before(p, q)
<1>1. \A x \in Position : x.key \in Nat /\ x.row \in Nat
  BY PositionFields
<1>. QED BY <1>1 DEF Before

LEMMA BeforeSameRow ==
  ASSUME NEW p \in Position, NEW q \in Position, Before(p, q), p.row = q.row
  PROVE  ~(q.key >= p.key)
<1>1. p.key \in Nat /\ q.key \in Nat /\ p.row \in Nat
  BY PositionFields
<1>. QED BY <1>1 DEF Before

LEMMA PositionType ==
  ASSUME TypeOK, NEW r \in Row
  PROVE  /\ PositionOf(r) \in Position
         /\ PositionOf(r).row = r /\ PositionOf(r).key = table[r].key
         /\ table[r].key \in Time
BY DEF TypeOK, StoredRow, PositionOf, Position

LEMMA ListInit == Init => ListInv
<1>. SUFFICES ASSUME Init PROVE ListInv
  OBVIOUS
<1>1. /\ list \in Lists /\ table = [r \in Row |-> Absent] /\ clock = 1
      /\ writing = {} /\ writes = 0 /\ walk = NoWalk /\ summary = NoSummary
  BY DEF Init
<1>2. 0 \in Time /\ 1 \in Time \ {0} /\ 0 \in 0..MaxWrites
  BY ListAssumption DEF Time
<1>3. table \in [Row -> StoredRow]
  BY <1>1, <1>2 DEF Absent, StoredRow, Status
<1>4. {} \in SUBSET Position /\ {} \in SUBSET Row /\ "all" \in Filter
  BY DEF Filter
<1>5. walk \in WalkRecord
  BY <1>1, <1>4 DEF NoWalk, WalkRecord
<1>6. summary \in SummaryRecord
  BY <1>1, <1>2, <1>4 DEF NoSummary, SummaryRecord
<1>7. TypeOK
  BY <1>1, <1>2, <1>3, <1>5, <1>6 DEF TypeOK
<1>8. walk.phase = "idle" /\ walk.page = {} /\ walk.earlier = {} /\ summary.pc = "idle"
  BY <1>1 DEF NoWalk, NoSummary
<1>. QED
  BY <1>7, <1>8 DEF ListInv, WalkInv, SummaryInv, ShownOnce, PagesDescend,
                    NothingSkipped, SummaryCovers, Shown

\* What the invariant says is about the list, the table, the walk and the
\* summary.
LEMMA ListKept ==
  ASSUME ListInv, TypeOK', UNCHANGED <<list, table, walk, summary>>
  PROVE  ListInv'
BY DEF ListInv, WalkInv, CursorAfter, ShownStored, ShownOrAhead, SummaryInv, Since,
       Present, PositionOf, Shown, ShownOnce, PagesDescend, NothingSkipped,
       SummaryCovers

LEMMA TickInv == ASSUME ListInv, Tick PROVE ListInv'
<1>1. clock' \in Time \ {0}
  BY ListAssumption DEF ListInv, TypeOK, Tick, Time
<1>2. TypeOK'
  BY <1>1 DEF ListInv, TypeOK, Tick
<1>. QED BY <1>2, ListKept DEF Tick

LEMMA WriteInv == ASSUME ListInv, NEW r \in Row, Write(r) PROVE ListInv'
<1>1. PICK s \in Status \cup {"keep"} : StartWrite(r, s)
  <2>1. "open" \in Status \cup {"keep"} /\ "closed" \in Status \cup {"keep"}
    BY DEF Status
  <2>. QED BY <2>1 DEF Write, Create, StartInference, Settle, Update
<1>2. /\ writes < MaxWrites /\ writes' = writes + 1
      /\ writing' = writing \cup {[row |-> r, time |-> clock, status |-> s]}
      /\ UNCHANGED <<list, table, clock, walk, summary>>
  BY <1>1 DEF StartWrite
<1>3. writes' \in 0..MaxWrites
  BY <1>2, ListAssumption DEF ListInv, TypeOK
<1>4. [row |-> r, time |-> clock, status |-> s] \in WriteRecord
  BY DEF ListInv, TypeOK, WriteRecord
<1>5. TypeOK'
  BY <1>2, <1>3, <1>4 DEF ListInv, TypeOK
<1>. QED BY <1>2, <1>5, ListKept

\* A write takes effect: the row of an inference request keeps its key, and the
\* walk notes what moves.
LEMMA CommitInv == ASSUME ListInv, Commit PROVE ListInv'
<1>1. PICK w \in writing :
        LET row == [key |-> KeyAfter(w.row, w.time),
                    status |-> StatusAfter(w.row, w.status)]
            moves == row.key # table[w.row].key \/ ~Matches(walk.filter, row)
            lowers == row.key < table[w.row].key
        IN /\ table' = [table EXCEPT ![w.row] = row]
           /\ walk' = IF walk.phase # "walking" THEN walk
                      ELSE [walk EXCEPT
                        !.moved = IF moves THEN @ \cup {w.row} ELSE @,
                        !.lowered = IF lowers THEN @ \cup {w.row} ELSE @]
           /\ writing' = writing \ {w}
           /\ UNCHANGED <<list, clock, writes, summary>>
  BY DEF Commit
<1> DEFINE k == KeyAfter(w.row, w.time)
           row == [key |-> k, status |-> StatusAfter(w.row, w.status)]
           moves == k # table[w.row].key \/ ~Matches(walk.filter, row)
           lowers == k < table[w.row].key
           M == IF moves THEN walk.moved \cup {w.row} ELSE walk.moved
           L == IF lowers THEN walk.lowered \cup {w.row} ELSE walk.lowered
<1>2. /\ table' = [table EXCEPT ![w.row] = row]
      /\ writing' = writing \ {w}
      /\ UNCHANGED <<list, clock, writes, summary>>
      /\ walk.phase # "walking" => walk' = walk
      /\ walk.phase = "walking" => walk' = [walk EXCEPT !.moved = M, !.lowered = L]
  BY <1>1
<1>3. /\ w \in WriteRecord /\ table \in [Row -> StoredRow] /\ walk \in WalkRecord
      /\ TypeOK
  BY DEF ListInv, TypeOK
<1>4. w.row \in Row /\ w.time \in Time /\ w.status \in Status \cup {"keep"}
  BY <1>3 DEF WriteRecord
<1>5. table[w.row].key \in Time /\ table[w.row].status \in Status
  BY <1>3, <1>4 DEF StoredRow
<1>6. k \in Time /\ StatusAfter(w.row, w.status) \in Status
  BY <1>4, <1>5 DEF KeyAfter, StatusAfter
<1>7. row.key = k /\ row \in StoredRow
  BY <1>6 DEF StoredRow
<1>8. list = "requests" /\ Present(w.row) => k = table[w.row].key
  BY DEF KeyAfter
<1> HIDE DEF k, row
<1>9. /\ table' \in [Row -> StoredRow] /\ table'[w.row] = row
      /\ \A r \in Row : r # w.row => table'[r] = table[r]
  BY <1>2, <1>3, <1>4, <1>7
<1>10. M \in SUBSET Row /\ L \in SUBSET Row
  BY <1>3, <1>4 DEF WalkRecord
<1>11. walk.phase = "walking" =>
         walk' = [phase |-> walk.phase, filter |-> walk.filter, from |-> walk.from,
                  page |-> walk.page, earlier |-> walk.earlier,
                  first |-> walk.first, moved |-> M, lowered |-> L]
  BY <1>2, <1>3 DEF WalkRecord
<1>12. walk' \in WalkRecord
  BY <1>2, <1>3, <1>10, <1>11 DEF WalkRecord
<1>13. TypeOK'
  BY <1>2, <1>9, <1>12 DEF ListInv, TypeOK
<1>14. /\ walk'.phase = walk.phase /\ walk'.from = walk.from /\ walk'.page = walk.page
       /\ walk'.earlier = walk.earlier /\ walk'.first = walk.first
       /\ walk'.filter = walk.filter /\ Shown' = Shown
       /\ walk.lowered \subseteq walk'.lowered /\ walk.moved \subseteq walk'.moved
  <2>1. CASE walk.phase # "walking"
    BY <1>2, <2>1 DEF Shown
  <2>2. CASE walk.phase = "walking"
    BY <1>11, <2>2 DEF Shown
  <2>. QED BY <2>1, <2>2
<1>15. ShownOnce' /\ PagesDescend' /\ NothingSkipped' /\ SummaryCovers'
  BY <1>2, <1>14 DEF ListInv, ShownOnce, PagesDescend, NothingSkipped, SummaryCovers
<1>16. SummaryInv'
  <2>1. ASSUME summary.pc = "counted", NEW r \in summary.counted
        PROVE  r \in Since(summary.cutoff)'
    <3>1. list = "requests" /\ r \in Row /\ Present(r) /\ table[r].key >= summary.cutoff
      BY <2>1 DEF ListInv, SummaryInv, Since
    <3>2. table'[r].key = table[r].key
      BY <1>7, <1>8, <1>9, <3>1
    <3>. QED BY <1>2, <3>1, <3>2 DEF Since, Present
  <2>. QED BY <1>2, <2>1 DEF ListInv, SummaryInv
<1>17. ASSUME walk.phase = "walking"
       PROVE  CursorAfter' /\ ShownStored' /\ ShownOrAhead'
  <2>1. CursorAfter /\ ShownStored /\ ShownOrAhead
    BY <1>17 DEF ListInv, WalkInv
  <2>2. CursorAfter'
    BY <1>14, <2>1 DEF CursorAfter
  <2>3. walk'.moved = M /\ walk'.lowered = L
    BY <1>11, <1>17
  <2>4. ShownStored'
    <3>1. ASSUME NEW p \in Shown
          PROVE  /\ p.key # 0
                 /\ p.row \in walk'.lowered \/ table'[p.row].key >= p.key
                 /\ list = "requests" => table'[p.row].key = p.key
      <4>1. p \in Position
        BY <1>3, <3>1 DEF WalkRecord, Shown
      <4>2. p.row \in Row /\ p.key \in Time
        BY <4>1 DEF Position
      <4>3. /\ p.key # 0
            /\ p.row \in walk.lowered \/ table[p.row].key >= p.key
            /\ list = "requests" => table[p.row].key = p.key
        BY <2>1, <3>1 DEF ShownStored
      <4>4. CASE p.row # w.row
        BY <1>9, <1>14, <4>2, <4>3, <4>4
      <4>5. CASE p.row = w.row
        <5>1. list = "requests" => k = p.key
          BY <1>8, <4>3, <4>5 DEF Present
        <5>2. table'[p.row].key = k
          BY <1>7, <1>9, <4>5
        <5>3. k < table[p.row].key => p.row \in walk'.lowered
          BY <2>3, <4>5
        <5>4. k >= table[p.row].key /\ table[p.row].key >= p.key => k >= p.key
          BY <1>5, <1>6, <4>2, <4>5 DEF Time
        <5>5. k < table[p.row].key \/ k >= table[p.row].key
          BY <1>5, <1>6, <4>5 DEF Time
        <5>6. p.row \in walk'.lowered \/ k >= p.key
          BY <1>14, <4>3, <5>3, <5>4, <5>5
        <5>. QED BY <4>3, <5>1, <5>2, <5>6
      <4>. QED BY <4>4, <4>5
    <3>. QED BY <1>2, <1>14, <3>1 DEF ShownStored
  <2>5. ShownOrAhead'
    <3>1. ASSUME NEW r \in walk.first, r \notin M
          PROVE  /\ Matches(walk.filter, table'[r])
                 /\ PositionOf(r)' = PositionOf(r)
      <4>1. r \in Row /\ r \notin walk.moved
        BY <1>3, <3>1 DEF WalkRecord
      <4>2. CASE r # w.row
        BY <1>9, <2>1, <4>1, <4>2 DEF ShownOrAhead, PositionOf
      <4>3. CASE r = w.row
        <5>1. ~moves
          BY <3>1, <4>3
        <5>2. k = table[r].key /\ Matches(walk.filter, row)
          BY <4>3, <5>1
        <5>. QED BY <1>7, <1>9, <4>3, <5>2 DEF PositionOf
      <4>. QED BY <4>2, <4>3
    <3>2. ASSUME NEW r \in walk.first, r \notin M
          PROVE  PositionOf(r) \in Shown \/ \A c \in walk.from : Before(c, PositionOf(r))
      BY <2>1, <3>2 DEF ShownOrAhead
    <3>. QED BY <1>14, <2>3, <3>1, <3>2 DEF ShownOrAhead
  <2>. QED BY <2>2, <2>4, <2>5
<1>18. WalkInv'
  BY <1>14, <1>17 DEF WalkInv
<1>. QED BY <1>13, <1>15, <1>16, <1>18 DEF ListInv

LEMMA StartWalkInv ==
  ASSUME ListInv, NEW filter \in Filter, StartWalk(filter) PROVE ListInv'
<1> DEFINE F == Matching(filter)
<1>1. /\ walk' = [NoWalk EXCEPT !.phase = "walking", !.filter = filter, !.first = F]
      /\ UNCHANGED <<list, table, clock, writing, writes, summary>>
  BY DEF StartWalk
<1>2. F \subseteq Row /\ \A r \in F : Matches(filter, table[r])
  BY DEF Matching
<1> HIDE DEF F
<1>3. walk' = [phase |-> "walking", filter |-> filter, from |-> {}, page |-> {},
               earlier |-> {}, first |-> F, moved |-> {}, lowered |-> {}]
  BY <1>1 DEF NoWalk
<1>4. /\ walk'.phase = "walking" /\ walk'.filter = filter /\ walk'.from = {}
      /\ walk'.page = {} /\ walk'.earlier = {} /\ walk'.first = F
  BY <1>3
<1>5. {} \in SUBSET Position /\ {} \in SUBSET Row
  OBVIOUS
<1>6. walk' \in WalkRecord
  BY <1>2, <1>3, <1>5 DEF WalkRecord
<1>7. TypeOK'
  BY <1>1, <1>6 DEF ListInv, TypeOK
<1>8. Shown' = {}
  BY <1>4 DEF Shown
<1>9. WalkInv'
  BY <1>1, <1>2, <1>4, <1>8 DEF WalkInv, CursorAfter, ShownStored, ShownOrAhead
<1>10. SummaryInv' /\ SummaryCovers'
  BY <1>1 DEF ListInv, SummaryInv, SummaryCovers, Since, Present
<1>11. ShownOnce' /\ PagesDescend' /\ NothingSkipped'
  BY <1>4, <1>8 DEF ShownOnce, PagesDescend, NothingSkipped
<1>. QED BY <1>7, <1>9, <1>10, <1>11 DEF ListInv

\* A page is turned: all of it comes after what was shown before.
LEMMA NextPageInv == ASSUME ListInv, NextPage PROVE ListInv'
<1>1. /\ walk.phase = "walking"
      /\ UNCHANGED <<list, table, clock, writing, writes, summary>>
  BY DEF NextPage
<1>2. PICK page \in SUBSET Candidates :
        /\ IsPage(page, Candidates)
        /\ \/ /\ page = Candidates
              /\ walk' = [Turned(page) EXCEPT !.phase = "ended"]
           \/ /\ page # Candidates
              /\ \E r \in page :
                   /\ IsLast(r, page)
                   /\ walk' = [Turned(page) EXCEPT !.from = {PositionOf(r)}]
  BY DEF NextPage
<1> DEFINE N == {PositionOf(r) : r \in page}
           E == walk.earlier \cup walk.page
<1>3. TypeOK /\ walk \in WalkRecord /\ CursorAfter /\ ShownStored /\ ShownOrAhead
  BY <1>1 DEF ListInv, TypeOK, WalkInv
<1>4. /\ Shown \subseteq Position /\ E \subseteq Position /\ E = Shown
      /\ walk.from \subseteq Position /\ walk.first \subseteq Row
  BY <1>3 DEF WalkRecord, Shown
<1>5. /\ Candidates \subseteq Row /\ page \subseteq Row
      /\ \A r \in Candidates : /\ Matches(walk.filter, table[r])
                               /\ \A c \in walk.from : Before(c, PositionOf(r))
      /\ \A r \in Row :
           Matches(walk.filter, table[r]) /\ (\A c \in walk.from : Before(c, PositionOf(r)))
             => r \in Candidates
  BY DEF Candidates, Matching, AfterCursor
<1>6. N \subseteq Position /\ \A q \in N : \E r \in page : q = PositionOf(r)
  BY <1>3, <1>5, PositionType
<1>7. Turned(page) = [walk EXCEPT !.earlier = E, !.page = N]
  BY DEF Turned
<1> HIDE DEF N, E
<1>7a. Turned(page) =
        [phase |-> walk.phase, filter |-> walk.filter, from |-> walk.from, page |-> N,
         earlier |-> E, first |-> walk.first, moved |-> walk.moved,
         lowered |-> walk.lowered]
  BY <1>3, <1>7 DEF WalkRecord
<1>8. ASSUME NEW p \in Shown, NEW r \in Candidates PROVE Before(p, PositionOf(r))
  <2>1. PICK c \in walk.from : p = c \/ Before(p, c)
    BY <1>3 DEF CursorAfter
  <2>2. Before(c, PositionOf(r))
    BY <1>5
  <2>3. p \in Position /\ c \in Position /\ PositionOf(r) \in Position
    BY <1>3, <1>4, <1>5, PositionType
  <2>. QED BY <2>1, <2>2, <2>3, BeforeTransitive
<1>9. /\ walk'.page = N /\ walk'.earlier = E /\ walk'.first = walk.first
      /\ walk'.moved = walk.moved /\ walk'.lowered = walk.lowered
      /\ walk'.filter = walk.filter /\ Shown' = Shown \cup N
      /\ walk'.phase \in {"walking", "ended"} /\ walk' \in WalkRecord
      /\ walk'.phase = "ended" => page = Candidates
      /\ walk'.phase = "walking" =>
           \E l \in page : IsLast(l, page) /\ walk'.from = {PositionOf(l)}
  <2>1. CASE page = Candidates /\ walk' = [Turned(page) EXCEPT !.phase = "ended"]
    <3>1. walk' = [phase |-> "ended", filter |-> walk.filter, from |-> walk.from,
                   page |-> N, earlier |-> E, first |-> walk.first,
                   moved |-> walk.moved, lowered |-> walk.lowered]
      BY <1>7a, <2>1
    <3>2. walk' \in WalkRecord
      BY <1>3, <1>4, <1>6, <3>1 DEF WalkRecord
    <3>. QED BY <1>4, <2>1, <3>1, <3>2 DEF Shown
  <2>2. CASE \E r \in page : /\ IsLast(r, page)
                             /\ walk' = [Turned(page) EXCEPT !.from = {PositionOf(r)}]
    <3>1. PICK l \in page : /\ IsLast(l, page)
                            /\ walk' = [Turned(page) EXCEPT !.from = {PositionOf(l)}]
      BY <2>2
    <3>2. walk' = [phase |-> "walking", filter |-> walk.filter,
                   from |-> {PositionOf(l)}, page |-> N, earlier |-> E,
                   first |-> walk.first, moved |-> walk.moved,
                   lowered |-> walk.lowered]
      BY <1>1, <1>7a, <3>1
    <3>3. {PositionOf(l)} \in SUBSET Position
      BY <1>3, <1>5, PositionType
    <3>4. walk' \in WalkRecord
      BY <1>3, <1>4, <1>6, <3>2, <3>3 DEF WalkRecord
    <3>. QED BY <1>4, <3>1, <3>2, <3>4 DEF Shown
  <2>. QED BY <1>2, <2>1, <2>2
<1>10. TypeOK'
  BY <1>1, <1>9 DEF ListInv, TypeOK
<1>11. PagesDescend'
  BY <1>4, <1>6, <1>8, <1>9 DEF PagesDescend
<1>12. ASSUME NEW p \in Shown, NEW q \in N, p.row = q.row
       PROVE  list = "conversations" /\ p.row \in walk.lowered
  <2>1. PICK r \in page : q = PositionOf(r)
    BY <1>6
  <2>2. Before(p, q) /\ p \in Position /\ q \in Position
    BY <1>4, <1>6, <1>8, <2>1
  <2>3. ~(q.key >= p.key)
    BY <1>12, <2>2, BeforeSameRow
  <2>4. q.key = table[p.row].key
    BY <1>3, <1>5, <1>12, <2>1, PositionType
  <2>5. q.key = p.key => q.key >= p.key
    BY <2>2, PositionFields
  <2>6. p.row \in walk.lowered /\ list # "requests"
    BY <1>3, <2>3, <2>4, <2>5 DEF ShownStored
  <2>. QED BY <1>3, <2>6, ListAssumption DEF TypeOK
<1>13. ShownOnce'
  <2>1. ASSUME NEW p \in Shown, NEW q \in Shown, p.row = q.row
        PROVE  p = q \/ (list = "conversations" /\ p.row \in walk.lowered)
    BY <2>1 DEF ListInv, ShownOnce
  <2>2. ASSUME NEW p \in N, NEW q \in N, p.row = q.row PROVE p = q
    <3>1. PICK r \in page, s \in page : p = PositionOf(r) /\ q = PositionOf(s)
      BY <1>6
    <3>2. p.row = r /\ q.row = s
      BY <1>3, <1>5, <3>1, PositionType
    <3>. QED BY <2>2, <3>1, <3>2
  <2>3. ASSUME NEW p \in Shown \cup N, NEW q \in Shown \cup N, p.row = q.row
        PROVE  p = q \/ (list = "conversations" /\ p.row \in walk.lowered)
    <3>1. CASE p \in Shown /\ q \in Shown
      BY <2>1, <2>3, <3>1
    <3>2. CASE p \in N /\ q \in N
      BY <2>2, <2>3, <3>2
    <3>3. CASE p \in Shown /\ q \in N
      BY <1>12, <2>3, <3>3
    <3>4. CASE p \in N /\ q \in Shown
      <4>1. q.row \in walk.lowered /\ list = "conversations"
        BY <1>12, <2>3, <3>4
      <4>. QED BY <2>3, <4>1
    <3>. QED BY <3>1, <3>2, <3>3, <3>4
  <2>. QED BY <1>1, <1>9, <2>3 DEF ShownOnce
<1>14. ASSUME NEW r \in page PROVE PositionOf(r) \in N
  BY DEF N
<1>15. ASSUME NEW r \in walk.first \ walk.moved
       PROVE  /\ Matches(walk.filter, table[r])
              /\ PositionOf(r) \in Shown \/ r \in Candidates
  BY <1>3, <1>4, <1>5 DEF ShownOrAhead
<1>16. NothingSkipped'
  <2>1. ASSUME walk'.phase = "ended", NEW r \in walk.first, r \notin walk.moved
        PROVE  \E p \in Shown \cup N : p.row = r
    <3>1. PositionOf(r) \in Shown \cup N
      BY <1>9, <1>14, <1>15, <2>1
    <3>2. PositionOf(r).row = r
      BY <1>3, <1>4, PositionType
    <3>. QED BY <3>1, <3>2
  <2>. QED BY <1>9, <2>1 DEF NothingSkipped
<1>17. ASSUME walk'.phase = "walking" PROVE CursorAfter' /\ ShownStored' /\ ShownOrAhead'
  <2>1. PICK l \in page : IsLast(l, page) /\ walk'.from = {PositionOf(l)}
    BY <1>9, <1>17
  <2>2. CursorAfter'
    <3>1. ASSUME NEW p \in Shown \cup N
          PROVE  p = PositionOf(l) \/ Before(p, PositionOf(l))
      <4>1. CASE p \in Shown
        BY <1>8, <4>1
      <4>2. CASE p \in N
        BY <1>6, <2>1, <4>2 DEF IsLast
      <4>. QED BY <4>1, <4>2
    <3>. QED BY <1>9, <2>1, <3>1 DEF CursorAfter
  <2>3. ShownStored'
    <3>1. ASSUME NEW p \in N PROVE p.key # 0 /\ table[p.row].key = p.key /\ p \in Position
      <4>1. PICK r \in page : p = PositionOf(r)
        BY <1>6
      <4>2. p.row = r /\ p.key = table[r].key /\ p \in Position
        BY <1>3, <1>5, <4>1, PositionType
      <4>3. table[r].key # 0
        BY <1>5 DEF Matches
      <4>. QED BY <4>2, <4>3
    <3>2. ASSUME NEW p \in N PROVE table[p.row].key >= p.key
      BY <3>1, PositionFields
    <3>. QED BY <1>1, <1>3, <1>9, <3>1, <3>2 DEF ShownStored
  <2>4. ShownOrAhead'
    <3>1. ASSUME NEW r \in walk.first \ walk.moved
          PROVE  PositionOf(r) \in Shown \cup N \/ Before(PositionOf(l), PositionOf(r))
      <4>1. CASE PositionOf(r) \in Shown \/ r \in page
        BY <1>14, <4>1
      <4>2. CASE r \in Candidates \ page
        BY <1>2, <2>1, <4>2 DEF IsPage
      <4>. QED BY <1>15, <4>1, <4>2
    <3>2. \A r \in Row : PositionOf(r)' = PositionOf(r)
      BY <1>1 DEF PositionOf
    <3>. QED BY <1>1, <1>4, <1>9, <1>15, <2>1, <3>1, <3>2 DEF ShownOrAhead
  <2>. QED BY <2>2, <2>3, <2>4
<1>18. WalkInv'
  BY <1>17 DEF WalkInv
<1>19. SummaryInv' /\ SummaryCovers'
  BY <1>1 DEF ListInv, SummaryInv, SummaryCovers, Since, Present
<1>. QED BY <1>10, <1>11, <1>13, <1>16, <1>18, <1>19 DEF ListInv

\* The summary's steps leave the walk alone.
LEMMA WalkUntouched ==
  ASSUME ListInv, UNCHANGED <<list, table, walk>>
  PROVE  WalkInv' /\ ShownOnce' /\ PagesDescend' /\ NothingSkipped'
BY DEF ListInv, WalkInv, CursorAfter, ShownStored, ShownOrAhead, PositionOf, Shown,
       ShownOnce, PagesDescend, NothingSkipped

LEMMA CountRequestsInv == ASSUME ListInv, CountRequests PROVE ListInv'
<1> DEFINE C == Since(clock)
<1>1. /\ list = "requests" /\ UNCHANGED <<list, table, clock, writing, writes, walk>>
      /\ summary' = [summary EXCEPT !.pc = "counted", !.cutoff = clock, !.counted = C]
      /\ summary \in SummaryRecord /\ clock \in Time /\ C \in SUBSET Row
  BY DEF CountRequests, ListInv, TypeOK, Since
<1> HIDE DEF C
<1>2. summary' = [pc |-> "counted", cutoff |-> clock, counted |-> C,
                  grouped |-> summary.grouped]
  BY <1>1 DEF SummaryRecord
<1>3. summary'.pc = "counted" /\ summary'.cutoff = clock /\ summary'.counted = C
  BY <1>2
<1>4. summary' \in SummaryRecord
  BY <1>1, <1>2 DEF SummaryRecord
<1>5. TypeOK'
  BY <1>1, <1>4 DEF ListInv, TypeOK
<1>6. C = Since(summary.cutoff)'
  BY <1>1, <1>3 DEF C, Since, Present
<1>7. SummaryInv' /\ SummaryCovers'
  BY <1>1, <1>3, <1>6 DEF SummaryInv, SummaryCovers
<1>. QED BY <1>1, <1>5, <1>7, WalkUntouched DEF ListInv

LEMMA GroupRequestsInv == ASSUME ListInv, GroupRequests PROVE ListInv'
<1> DEFINE G == Since(summary.cutoff)
<1>1. /\ summary.pc = "counted" /\ UNCHANGED <<list, table, clock, writing, writes, walk>>
      /\ summary' = [summary EXCEPT !.pc = "ended", !.grouped = G]
      /\ summary \in SummaryRecord /\ G \in SUBSET Row
      /\ summary.counted \subseteq G /\ list = "requests"
  BY DEF GroupRequests, ListInv, TypeOK, SummaryInv, Since
<1> HIDE DEF G
<1>2. summary' = [pc |-> "ended", cutoff |-> summary.cutoff,
                  counted |-> summary.counted, grouped |-> G]
  BY <1>1 DEF SummaryRecord
<1>3. summary'.pc = "ended" /\ summary'.counted = summary.counted /\ summary'.grouped = G
  BY <1>2
<1>4. summary' \in SummaryRecord
  BY <1>1, <1>2 DEF SummaryRecord
<1>5. TypeOK'
  BY <1>1, <1>4 DEF ListInv, TypeOK
<1>6. SummaryInv' /\ SummaryCovers'
  BY <1>1, <1>3 DEF SummaryInv, SummaryCovers
<1>. QED BY <1>1, <1>5, <1>6, WalkUntouched DEF ListInv

LEMMA ListStep == ListInv /\ [Next]_vars => ListInv'
<1>. SUFFICES ASSUME ListInv, [Next]_vars PROVE ListInv'
  OBVIOUS
<1>1. CASE UNCHANGED vars
  <2>1. TypeOK'
    BY <1>1 DEF ListInv, TypeOK, vars
  <2>. QED BY <1>1, <2>1, ListKept DEF vars
<1>. QED
  BY <1>1, TickInv, WriteInv, CommitInv, StartWalkInv, NextPageInv, CountRequestsInv,
     GroupRequestsInv
  DEF Next

LEMMA ListInvariant == Spec => []ListInv
BY ListInit, ListStep, PTL DEF Spec
-----------------------------------------------------------------------------
\* Every variable keeps its type.
THEOREM ListingTypeCorrect == Spec => []TypeOK
BY ListInvariant, PTL DEF ListInv

\* A walk shows no row twice, whatever is written while it goes on, except a
\* conversation whose updatedAt went backwards under it.
THEOREM RowsShownOnce == Spec => []ShownOnce
BY ListInvariant, PTL DEF ListInv

\* Every page comes after the pages before it, so that a client may append it.
THEOREM PagesAppend == Spec => []PagesDescend
BY ListInvariant, PTL DEF ListInv

\* A finished walk has shown every row that matched from the first page on and
\* was not moved, for any page size.
THEOREM NoRowSkipped == Spec => []NothingSkipped
BY ListInvariant, PTL DEF ListInv

\* The breakdown by provider covers what the totals count.
THEOREM BreakdownCovers == Spec => []SummaryCovers
BY ListInvariant, PTL DEF ListInv
=============================================================================
