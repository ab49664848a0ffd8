----------------------------- MODULE RunHistory -----------------------------
(***************************************************************************)
(* The paged lists of the admin UI: the jobs of a namespace, the runs of the *)
(* last hours, and the older executions list.  A page is an OFFSET into rows *)
(* ordered newest first, and between two pages rows are inserted, settle     *)
(* into another status, age out of the window or are deleted with their job. *)
(* Jobs and runs count and read in one REPEATABLE READ transaction and break *)
(* ties of created_at by id; the executions list is one statement, ordered   *)
(* by created_at alone, so rows of one scheduler tick come in any order.     *)
(***************************************************************************)
EXTENDS Integers, Sequences, FiniteSets

CONSTANTS
    RowId,      \* ids of rows, integers: random in the code, compared by ORDER BY
    PageSize,   \* rows of a page (25)
    Window,     \* the runs window (24 hours or 7 days)
    MaxTime,    \* bound on created_at
    MaxLeft     \* bound on the rows that leave a list during one walk

ASSUME HistoryAssumption ==
    IsFiniteSet(RowId) /\ RowId \subseteq Int /\ PageSize \in Nat \ {0} /\ Window \in Nat

VARIABLES
    rows,    \* id -> created_at and whether the list's filter selects the row
    time,
    view,    \* the reader: the page asked for and what was answered
    walk     \* ghost: of a reader following "next" from page 1, the rows of the start not yet
             \* seen, and how many rows have left the list

historyVars == <<rows, time, view, walk>>

Lists == {"jobs", "runs", "executions"}
NoView == [list |-> "jobs", at |-> "idle", page |-> 1, now |-> 0, total |-> 0,
           snap |-> << >>, shown |-> << >>, more |-> FALSE]
NoWalk == [on |-> FALSE, owed |-> {}, left |-> 0]

HistoryInit ==
    /\ rows = << >> /\ time = 0
    /\ view = NoView /\ walk = NoWalk

\* The rows a list shows: its filter, and for runs e.created_at >= since and <= until.
Listed(list, table, now) ==
    {i \in DOMAIN table :
        /\ table[i].match
        /\ list = "runs" => table[i].at \in (now - Window)..now}

\* The rows whose place in the order is certain: all, but where ties are broken in any way.
Placed(list, table) ==
    {i \in DOMAIN table :
        list = "executions" => \A j \in DOMAIN table \ {i} : table[j].at # table[i].at}

(***************************************************************************)
(* What the rest of the system does to the rows.  A row may commit a little *)
(* after the instant it carries.                                            *)
(***************************************************************************)

InsertRow ==
    \E i \in RowId \ DOMAIN rows, late \in {0, 1}, match \in BOOLEAN :
        /\ time - late >= 0
        /\ rows' = [j \in DOMAIN rows \cup {i} |->
                        IF j = i THEN [at |-> time - late, match |-> match] ELSE rows[j]]
        /\ walk' = [walk EXCEPT !.owed = @ \cap Placed(view.list, rows')]
        /\ UNCHANGED <<time, view>>

\* A status or an enabled flag changes, so the filter selects the row no more, or now does.
SettleRow(i) ==
    /\ rows' = [rows EXCEPT ![i].match = ~@]
    /\ rows[i].match => walk.left < MaxLeft
    /\ walk' = [walk EXCEPT !.left = IF walk.on /\ rows[i].match THEN @ + 1 ELSE @]
    /\ UNCHANGED <<time, view>>

DeleteRow(i) ==
    /\ rows' = [j \in DOMAIN rows \ {i} |-> rows[j]]
    /\ rows[i].match => walk.left < MaxLeft
    /\ walk' = [walk EXCEPT !.owed = @ \ {i},
                            !.left = IF walk.on /\ rows[i].match THEN @ + 1 ELSE @]
    /\ UNCHANGED <<time, view>>

TimePasses == time < MaxTime /\ time' = time + 1 /\ UNCHANGED <<rows, view, walk>>

(***************************************************************************)
(* The reader.                                                              *)
(***************************************************************************)

\* controlPage, positivePage and runsQuery: the page and the instant of the request.
Request(list, page) ==
    view' = [NoView EXCEPT !.list = list, !.at = "asked", !.page = page, !.now = time]

AskPage(list, page) ==
    /\ view.at \in {"idle", "shown"}
    /\ Request(list, page)
    /\ walk' = [on |-> page = 1, owed |-> {}, left |-> 0]
    /\ UNCHANGED <<rows, time>>

\* The reader follows the link to the next page.
FollowNext ==
    /\ view.at = "shown" /\ view.more
    /\ Request(view.list, view.page + 1)
    /\ UNCHANGED <<rows, time, walk>>

\* The first query of the transaction fixes its snapshot and counts the rows; the
\* executions list counts nothing and its one statement is a snapshot of its own.
CountRows ==
    /\ view.at = "asked"
    /\ view' = [view EXCEPT !.at = "counted", !.snap = rows,
                            !.total = IF view.list = "executions" THEN 0
                                      ELSE Cardinality(Listed(view.list, rows, view.now))]
    /\ walk' = IF walk.on /\ view.page = 1
               THEN [walk EXCEPT !.left = 0, !.owed =
                        Listed(view.list, rows, view.now) \cap Placed(view.list, rows)]
               ELSE walk
    /\ UNCHANGED <<rows, time>>

\* Mutant: the second query reads what is committed by then.
RowsOfNow == rows

\* The table the second query reads: the snapshot the count was taken in.
PageTable == view.snap

\* Mutant: no list breaks ties.
ByCreation(list, table, i, j) == table[i].at > table[j].at

\* ORDER BY created_at DESC, id DESC; the executions list leaves ties in any order.
NewerFirst(list, table, i, j) ==
    \/ table[i].at > table[j].at
    \/ list # "executions" /\ table[i].at = table[j].at /\ i > j

\* The orders in which a statement may return the rows S.
Orders(list, table, S) ==
    {s \in [1..Cardinality(S) -> S] :
        /\ \A a, b \in DOMAIN s : a # b => s[a] # s[b]
        /\ \A a, b \in DOMAIN s : a < b => ~NewerFirst(list, table, s[b], s[a])}

Fewer(a, b) == IF a < b THEN a ELSE b

\* The rows of a page, without the row that was read only to learn of a next page.
PageRows(s, skip) == [n \in 1..Fewer(PageSize, Len(s) - skip) |-> s[skip + n]]

\* fleetPageLinks: the ends, the page and two neighbours on either side.
PageCount(total) == IF total = 0 THEN 1 ELSE (total + PageSize - 1) \div PageSize
PageLinks(page, total) ==
    {n \in {1, PageCount(total)} \cup (page - 2)..(page + 2) : n \in 1..PageCount(total)}

\* A page past the end sends the reader to the last page.
PastTheEnd ==
    view.list # "executions" /\ view.page > 1 /\ (view.page - 1) * PageSize >= view.total

RedirectToLast ==
    /\ view.at = "counted" /\ PastTheEnd
    /\ Request(view.list, PageCount(view.total))
    /\ UNCHANGED <<rows, time, walk>>

\* LIMIT PageSize + 1 OFFSET (page - 1) * PageSize.
ShowPage ==
    /\ view.at = "counted" /\ ~PastTheEnd
    /\ \E s \in Orders(view.list, PageTable, Listed(view.list, PageTable, view.now)) :
        LET skip == (view.page - 1) * PageSize
            shown == PageRows(s, skip)
        IN /\ view' = [view EXCEPT !.at = "shown", !.snap = << >>, !.shown = shown,
                                   !.more = Len(s) - skip >= PageSize + 1]
           /\ walk' = [walk EXCEPT !.owed = @ \ {shown[n] : n \in DOMAIN shown}]
    /\ UNCHANGED <<rows, time>>

HistoryNext ==
    \/ InsertRow \/ TimePasses
    \/ \E i \in DOMAIN rows : SettleRow(i) \/ DeleteRow(i)
    \/ \E list \in Lists, page \in 1..(Cardinality(RowId) + 1) : AskPage(list, page)
    \/ FollowNext \/ CountRows \/ RedirectToLast \/ ShowPage

HistorySpec == HistoryInit /\ [][HistoryNext]_historyVars

(***************************************************************************)
(* Properties.                                                              *)
(***************************************************************************)

\* The rows, the reader's page and the walk have the shapes the code gives them.
HistoryTypeOK ==
    /\ DOMAIN rows \subseteq RowId /\ time \in 0..MaxTime
    /\ \A i \in DOMAIN rows : rows[i].at \in 0..time /\ rows[i].match \in BOOLEAN
    /\ view.list \in Lists /\ view.at \in {"idle", "asked", "counted", "shown"}
    /\ view.page \in 1..(Cardinality(RowId) + 1) /\ view.now \in 0..time
    /\ Len(view.shown) <= PageSize /\ view.more \in BOOLEAN
    /\ walk.on \in BOOLEAN /\ walk.owed \subseteq RowId /\ walk.left \in 0..MaxLeft

\* A rendered page of jobs or runs agrees with the total printed over it: it exists, holds
\* the rows that total leaves for it, offers a next page exactly when there is one, and its
\* page links contain both ends and the neighbours.  The total and the rows come from two
\* queries, with inserts and deletions between them (Fleet and Runs, jobsPage, runsPage).
PageAgrees ==
    view.at = "shown" /\ view.list # "executions" =>
        LET last == PageCount(view.total) IN
        /\ view.page <= last
        /\ view.more <=> view.page < last
        /\ Len(view.shown) = Fewer(PageSize, view.total - (view.page - 1) * PageSize)
        /\ {1, view.page, last} \cup ({view.page - 1, view.page + 1} \cap 1..last)
               \subseteq PageLinks(view.page, view.total)

\* A reader who follows "next" from the first page to the last has seen every row that was
\* there at the start and still is, save one for each row that left the list meanwhile: new
\* rows and ageing hide nothing.  On the executions list, which orders by created_at alone,
\* this is so only of rows that shared their created_at with no other.
NothingHidden ==
    walk.on /\ view.at = "shown" /\ ~view.more =>
        Cardinality(walk.owed \cap Listed(view.list, rows, view.now)) <= walk.left
=============================================================================
