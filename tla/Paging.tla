------------------------------- MODULE Paging -------------------------------
(***************************************************************************)
(* A client walks through the pages of a list (src/src/dto.ts and the      *)
(* lists of the query repositories) while items are created, hidden, shown *)
(* and deleted.  A list is ordered by its date, newest first, and cut by   *)
(* LIMIT and OFFSET; page, count and views are statements of their own.    *)
(***************************************************************************)
EXTENDS Integers, FiniteSets

CONSTANTS
    MaxItem,   \* bound on the ids: a later item has a greater id
    MaxRows,   \* bound on the joined rows of an item
    PageSize,  \* of the client's queries
    MaxChange  \* bound on the writes during a walk

PagingConstants ==
    /\ MaxItem \in Nat \ {0} /\ MaxRows \in Nat \ {0}
    /\ PageSize \in Nat \ {0} /\ MaxChange \in Nat

VARIABLES
    items,    \* by id: shown, hidden (isBanned), deleted, or not yet there
    rows,     \* how many rows the join has for each item
    lastItem, \* last id of the table
    changes,  \* writes since the walk began
    walk      \* the client: its page, what it waits for, and all items it has been sent

vars == <<items, rows, lastItem, changes, walk>>

ItemId == 1..MaxItem
Shown == {i \in ItemId : items[i] = "shown"}

\* byId: ids of a page, their count, then their views (posts, comments, games).  joined:
\* rows of a page, joined with photos and subscribers, several of one item, then a count of
\* items (blogs; with one row for each item: questions, banned users).  counted: the count
\* first, then the rows of a page (users).
Lists == {"byId", "joined", "counted"}
Walk == [list: Lists, pc: {"page", "count", "answer", "done"},
         page: 1..(MaxItem * MaxRows + 1),
         found: SUBSET ItemId, total: 0..MaxItem, seen: SUBSET ItemId]
FirstStep(list) == IF list = "counted" THEN "count" ELSE "page"

TypeOK ==
    /\ items \in [ItemId -> {"none", "shown", "hidden", "deleted"}]
    /\ rows \in [ItemId -> 1..MaxRows]
    /\ lastItem \in 0..MaxItem /\ changes \in 0..MaxChange
    /\ walk \in Walk

Init ==
    /\ lastItem \in 0..MaxItem
    /\ items \in [ItemId -> {"none", "shown", "hidden"}]
    /\ \A i \in ItemId : items[i] = "none" <=> i > lastItem
    /\ changes = 0
    /\ \E list \in Lists :
            /\ rows \in [ItemId -> 1..(IF list = "joined" THEN MaxRows ELSE 1)]
            /\ walk = [list |-> list, pc |-> FirstStep(list), page |-> 1,
                       found |-> {}, total |-> 0, seen |-> {}]

JoinedRows(ids) == UNION {{i} \X (1..rows[i]) : i \in ids}
RowsOf(ids) == Cardinality(JoinedRows(ids))

SkipFromOne(page) == page * PageSize  \* mutant: pages counted from zero
Skip(page) == (page - 1) * PageSize
PagesCount(total) == (total + PageSize - 1) \div PageSize

\* The items with a row among those the page leaves after the offset.
InPage(page) ==
    {i \in Shown : LET before == RowsOf({k \in Shown : k > i}) IN
                   before < Skip(page) + PageSize /\ before + rows[i] > Skip(page)}

\* getManyAndCount sends the statements of page and count one after the other.
FindPage ==
    /\ walk.pc = "page"
    /\ walk' = [walk EXCEPT !.pc = IF walk.list = "counted" THEN "answer" ELSE "count",
                            !.found = InPage(walk.page)]
    /\ UNCHANGED <<items, rows, lastItem, changes>>

\* Items are counted, not rows.
Count ==
    /\ walk.pc = "count"
    /\ walk' = [walk EXCEPT !.pc = IF walk.list = "counted" THEN "page" ELSE "answer",
                            !.total = Cardinality(Shown)]
    /\ UNCHANGED <<items, rows, lastItem, changes>>

\* Views by id are read now, of hidden items as well.
Views == IF walk.list = "byId" THEN {i \in walk.found : items[i] # "deleted"} ELSE walk.found

\* The client goes on to the next page, if any.
Answer ==
    LET more == walk.page < PagesCount(walk.total) IN
    /\ walk.pc = "answer"
    /\ walk' = [walk EXCEPT !.pc = IF more THEN FirstStep(walk.list) ELSE "done",
                            !.page = IF more THEN @ + 1 ELSE @,
                            !.found = {}, !.total = 0,
                            !.seen = @ \cup Views]
    /\ UNCHANGED <<items, rows, lastItem, changes>>

Change == changes < MaxChange /\ changes' = changes + 1

Create ==
    /\ Change
    /\ lastItem < MaxItem
    /\ lastItem' = lastItem + 1
    /\ items' = [items EXCEPT ![lastItem'] = "shown"]
    /\ UNCHANGED <<rows, walk>>

\* A ban hides at once all items of a blog, or of a user; an unban shows them.
SetHidden(ids, from, to) ==
    /\ Change
    /\ ids # {} /\ \A i \in ids : items[i] = from
    /\ items' = [i \in ItemId |-> IF i \in ids THEN to ELSE items[i]]
    /\ UNCHANGED <<rows, lastItem, walk>>

Delete(i) ==
    /\ Change
    /\ items[i] \in {"shown", "hidden"}
    /\ items' = [items EXCEPT ![i] = "deleted"]
    /\ UNCHANGED <<rows, lastItem, walk>>

\* A user subscribes to the blog, or a photo is added.
Join(i) ==
    /\ Change
    /\ walk.list = "joined" /\ rows[i] < MaxRows
    /\ rows' = [rows EXCEPT ![i] = @ + 1]
    /\ UNCHANGED <<items, lastItem, walk>>

Next ==
    \/ FindPage \/ Count \/ Answer
    \/ Create
    \/ \E ids \in SUBSET ItemId : SetHidden(ids, "shown", "hidden") \/ SetHidden(ids, "hidden", "shown")
    \/ \E i \in ItemId : Delete(i) \/ Join(i)

Spec == Init /\ [][Next]_vars

=============================================================================
