------------------------------ MODULE Listings ------------------------------
(***************************************************************************)
(* The two cursor-paginated lists of the API, walked page by page while    *)
(* other requests write: the conversations, newest update first, and the   *)
(* inference requests of the dashboard, newest start first.  Also the      *)
(* dashboard's summary, which is two queries.                              *)
(*                                                                         *)
(* A row's id is its rank in the id order; its key is the timestamp the    *)
(* list is sorted on.  The key of a conversation is updatedAt, which every *)
(* write sets; the key of an inference request is set once.  Either is     *)
(* read off a process's clock before the write reaches the database.       *)
(***************************************************************************)
EXTENDS Integers, FiniteSets

CONSTANTS
  Row,       \* ids
  Limit,     \* rows of a page
  MaxTime,   \* bound: ticks of the clock
  Lists,     \* the lists considered, of {"conversations", "requests"}
  MaxWrites  \* bound: writes in all

ASSUME ListAssumption ==
  /\ Row \subseteq Nat /\ IsFiniteSet(Row)
  /\ Limit \in Nat \ {0} /\ MaxWrites \in Nat
  /\ MaxTime \in Nat \ {0}
  /\ Lists \subseteq {"conversations", "requests"}

VARIABLES
  list,      \* which list this is
  table,     \* the rows: key (0: no such row) and status
  clock,
  writing,   \* writes on their way to the database, with their timestamps
  writes,    \* writes so far
  walk,      \* a client's walk through the pages
  summary    \* a request for the dashboard's summary

vars == <<list, table, clock, writing, writes, walk, summary>>

\* The statuses a filter tells apart: an archived conversation and a settled
\* inference request are closed.  "all" filters nothing, "keep" writes none.
Status == {"open", "closed"}
Filter == Status \cup {"all"}
Time == 0..MaxTime
StoredRow == [key : Time, status : Status]
Position == [key : Time, row : Row]

Absent == [key |-> 0, status |-> "open"]
Present(r) == table[r].key # 0
PositionOf(r) == [key |-> table[r].key, row |-> r]

\* orderBy key desc, id desc: p is listed before q.
Before(p, q) == p.key > q.key \/ (p.key = q.key /\ p.row > q.row)

NoWalk == [phase |-> "idle", filter |-> "all", from |-> {}, page |-> {},
           earlier |-> {}, first |-> {}, moved |-> {}, lowered |-> {}]
NoSummary == [pc |-> "idle", cutoff |-> 0, counted |-> {}, grouped |-> {}]

Init ==
  /\ list \in Lists
  /\ table = [r \in Row |-> Absent]
  /\ clock = 1
  /\ writing = {} /\ writes = 0
  /\ walk = NoWalk /\ summary = NoSummary
-----------------------------------------------------------------------------
\* Writes.

\* Wall clocks tick; two writes may well fall in one millisecond.
Tick ==
  /\ clock < MaxTime
  /\ clock' = clock + 1
  /\ UNCHANGED <<list, table, writing, writes, walk, summary>>

StartWrite(r, status) ==
  /\ writes < MaxWrites /\ writes' = writes + 1
  /\ writing' = writing \cup {[row |-> r, time |-> clock, status |-> status]}
  /\ UNCHANGED <<list, table, clock, walk, summary>>

Fresh(r) == ~Present(r) /\ \A w \in writing : w.row # r

\* POST of a conversation.
Create(r) ==
  /\ list = "conversations" /\ Fresh(r)
  /\ StartWrite(r, "open")

\* A turn that starts an inference; the clock is read before the insert.
StartInference(r) ==
  /\ list = "requests" /\ Fresh(r)
  /\ StartWrite(r, "open")

\* PATCH of a conversation, and the turns that touch it without a status.
Update(r, status) ==
  /\ list = "conversations" /\ Present(r)
  /\ StartWrite(r, status)

\* The finalizers settle an inference request.
Settle(r) ==
  /\ list = "requests" /\ Present(r) /\ table[r].status = "open"
  /\ StartWrite(r, "closed")

\* Seeded fault: settling a request stamps it anew.
KeyAfterAlwaysNew(r, time) == time

\* The key a write leaves: updatedAt is set anew, requestStartedAt is kept.
KeyAfter(r, time) ==
  IF list = "requests" /\ Present(r) THEN table[r].key ELSE time

StatusAfter(r, status) == IF status = "keep" THEN table[r].status ELSE status

Matches(filter, row) == row.key # 0 /\ filter \in {"all", row.status}

\* The write takes effect; while a client walks, ghosts note the rows it moves.
Commit ==
  \E w \in writing :
    LET row == [key |-> KeyAfter(w.row, w.time),
                status |-> StatusAfter(w.row, w.status)]
        moves == row.key # table[w.row].key \/ ~Matches(walk.filter, row)
        lowers == row.key < table[w.row].key
    IN /\ table' = [table EXCEPT ![w.row] = row]
       /\ walk' = IF walk.phase # "walking" THEN walk
                  ELSE [walk EXCEPT
                    !.moved = IF moves THEN @ \cup {w.row} ELSE @,
                    !.lowered = IF lowers THEN @ \cup {w.row} ELSE @]
       /\ writing' = writing \ {w}
       /\ UNCHANGED <<list, clock, writes, summary>>
-----------------------------------------------------------------------------
\* Reads.

Matching(filter) == {r \in Row : Matches(filter, table[r])}

StartWalk(filter) ==
  /\ walk.phase = "idle"
  /\ walk' = [NoWalk EXCEPT !.phase = "walking", !.filter = filter,
                            !.first = Matching(filter)]
  /\ UNCHANGED <<list, table, clock, writing, writes, summary>>

\* Seeded fault: the cursor leaves out the id.
AfterCursorKey(c, p) == c.key > p.key

\* The OR of the where clause: what comes after the cursor.
AfterCursor(c, p) == Before(c, p)

\* A walk's next query: where, orderBy and take.  No cursor: the first page.
Candidates ==
  {r \in Matching(walk.filter) : \A c \in walk.from : AfterCursor(c, PositionOf(r))}

IsPage(page, rows) ==
  /\ Cardinality(page) <= Limit
  /\ page # rows => Cardinality(page) = Limit
  /\ \A r \in page, q \in rows \ page : Before(PositionOf(r), PositionOf(q))

IsLast(r, page) ==
  \A q \in page : q = r \/ Before(PositionOf(q), PositionOf(r))

Turned(page) ==
  [walk EXCEPT !.earlier = @ \cup walk.page,
               !.page = {PositionOf(r) : r \in page}]

\* One request for a page; one row more than it holds tells if there are more.
\* The new cursor is the position of its last row.
NextPage ==
  /\ walk.phase = "walking"
  /\ \E page \in SUBSET Candidates :
       /\ IsPage(page, Candidates)
       /\ \/ /\ page = Candidates
             /\ walk' = [Turned(page) EXCEPT !.phase = "ended"]
          \/ /\ page # Candidates
             /\ \E r \in page :
                  /\ IsLast(r, page)
                  /\ walk' = [Turned(page) EXCEPT !.from = {PositionOf(r)}]
  /\ UNCHANGED <<list, table, clock, writing, writes, summary>>

\* The range of the dashboard's summary is less than a tick of the clock.
Since(cutoff) == {r \in Row : Present(r) /\ table[r].key >= cutoff}

CountRequests ==
  /\ list = "requests" /\ summary.pc = "idle"
  /\ summary' = [summary EXCEPT !.pc = "counted", !.cutoff = clock,
                                !.counted = Since(clock)]
  /\ UNCHANGED <<list, table, clock, writing, writes, walk>>

\* Seeded fault: each of the two queries computes a cutoff of its own.
GroupRequestsAnew ==
  /\ summary.pc = "counted"
  /\ summary' = [summary EXCEPT !.pc = "ended", !.grouped = Since(clock)]
  /\ UNCHANGED <<list, table, clock, writing, writes, walk>>

GroupRequests ==
  /\ summary.pc = "counted"
  /\ summary' = [summary EXCEPT !.pc = "ended", !.grouped = Since(summary.cutoff)]
  /\ UNCHANGED <<list, table, clock, writing, writes, walk>>

Write(r) ==
  Create(r) \/ StartInference(r) \/ Settle(r) \/ \E s \in Status \cup {"keep"} : Update(r, s)

Next ==
  \/ Tick \/ (\E r \in Row : Write(r)) \/ Commit
  \/ \E filter \in Filter : StartWalk(filter)
  \/ NextPage \/ CountRequests \/ GroupRequests

Spec == Init /\ [][Next]_vars

-----------------------------------------------------------------------------
\* Properties.

WriteRecord == [row : Row, time : Time, status : Status \cup {"keep"}]
WalkRecord ==
  [phase : {"idle", "walking", "ended"}, filter : Filter,
   from : SUBSET Position, page : SUBSET Position, earlier : SUBSET Position,
   first : SUBSET Row, moved : SUBSET Row, lowered : SUBSET Row]
SummaryRecord ==
  [pc : {"idle", "counted", "ended"}, cutoff : Time,
   counted : SUBSET Row, grouped : SUBSET Row]

TypeOK ==
  /\ list \in Lists
  /\ table \in [Row -> StoredRow]
  /\ clock \in Time \ {0}
  /\ writing \subseteq WriteRecord /\ writes \in 0..MaxWrites
  /\ walk \in WalkRecord
  /\ summary \in SummaryRecord

Shown == walk.earlier \cup walk.page

\* A page comes after every page before it: no position is shown twice, and a
\* client may append the pages to one sorted list.
PagesDescend == \A p \in walk.page, q \in walk.earlier : Before(q, p)

\* A row is shown twice only if its updatedAt went backwards during the walk:
\* a write was overtaken by one that read its clock later.  An inference
\* request, whose key is never written again, is shown once.
ShownOnce ==
  \A p, q \in Shown :
    p.row = q.row => p = q \/ (list = "conversations" /\ p.row \in walk.lowered)

\* A finished walk has shown every row that matched when it began and has
\* neither changed its key nor left the filter since; of the inference
\* requests without a filter, all of them.
NothingSkipped ==
  walk.phase = "ended" =>
    \A r \in walk.first : \/ r \in walk.moved
                          \/ \E p \in Shown : p.row = r

\* The breakdown by provider covers every request the totals count, though
\* requests start between the two queries.
SummaryCovers == summary.pc = "ended" => summary.counted \subseteq summary.grouped

=============================================================================
