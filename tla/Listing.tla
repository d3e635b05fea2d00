------------------------------ MODULE Listing ------------------------------
(***************************************************************************)
(* Reading the library page by page, and the requests that read rows and    *)
(* write to them in a later statement: PATCH of one entry, and archiving or *)
(* starring all entries that match a filter.                                *)
(***************************************************************************)
EXTENDS Tables

CONSTANTS
    Requests,   \* requests that write
    Filters,    \* filters in use
    PerPage,    \* per_page
    MaxPage     \* MAX_PAGE: pages beyond it are refused

(* ListParams: the flags an entry must have or lack, the domain (as the set *)
(* of its entries: an entry keeps its domain), labels it must have or lack, *)
(* whether it must have none at all, and its time. The words of search are  *)
(* left out.                                                                *)
Filter == [with : SUBSET Flags, without : SUBSET Flags, domain : SUBSET Ids,
           tag : SUBSET Tags, exclude_tag : SUBSET Tags, untagged : BOOLEAN,
           since : Nat, before : Nat]

ASSUME ListingAssumption ==
    /\ Filters \subseteq Filter
    /\ PerPage \in Nat \ {0} /\ MaxPage \in Nat \ {0}

VARIABLES
    walk,       \* a client that reads one page after the other
    req         \* req[r]: what request r read, and is to write

-----------------------------------------------------------------------------
NoWalk == [at |-> "idle", mode |-> "cursor"]
NoRequest == [op |-> "idle"]

Cursors == [at : {"time"}, created : Nat, id : Ids] \cup [at : {"start"}]

Walk == {NoWalk}
        \cup [at : {"next", "done"}, mode : {"cursor", "page"}, user : Users,
              filter : Filters, cursor : Cursors, page : 1..MaxPage + 1,
              seen : [Ids -> Nat]]

Request == {NoRequest}
           \cup [op : {"patch"}, id : Ids, held : Row,
                 want : [Flags -> {"set", "clear", "keep"}]]
           \cup [op : {"bulk"}, ids : SUBSET Ids, flag : Flags, value : BOOLEAN]

ListingInit ==
    /\ walk = NoWalk
    /\ req = [r \in Requests |-> NoRequest]

-----------------------------------------------------------------------------
LabelsOf(i) == {t \in Tags : <<i, t>> \in db.links}

(* build_where_clause: rows of the user that are not in the trash.          *)
Matches(i, f, u) ==
    /\ i \in Live /\ Owner[i] = u
    /\ f.with \subseteq db.entries[i].flags
    /\ f.without \cap db.entries[i].flags = {}
    /\ i \in f.domain
    /\ f.since <= Created[i] /\ Created[i] < f.before
    /\ f.untagged => LabelsOf(i) = {}
    /\ f.tag \subseteq LabelsOf(i)
    /\ f.exclude_tag \cap LabelsOf(i) = {}

FindIdsMatching(f, u) == {i \in Ids : Matches(i, f, u)}

(* ORDER BY created_at DESC, id DESC                                        *)
Before(c, i, d, j) == c > d \/ (c = d /\ i > j)
Ahead(S, i) == {j \in S : Before(Created[j], j, Created[i], i)}

(* (created_at, id) < cursor                                                *)
BadBeyond(S, c) == {i \in S : c.at = "start" \/ c.created > Created[i]}
Beyond(S, c) ==
    {i \in S : c.at = "start" \/ Before(c.created, c.id, Created[i], i)}

(* LIMIT per_page, and OFFSET (page - 1) * per_page if there is no cursor.  *)
ListEntries(w) ==
    LET S == FindIdsMatching(w.filter, w.user)
        rest == IF w.mode = "cursor" THEN Beyond(S, w.cursor) ELSE S
        offset == IF w.mode = "cursor" THEN 0 ELSE (w.page - 1) * PerPage
    IN  {i \in rest : Cardinality(Ahead(rest, i)) \in offset .. offset + PerPage - 1}

(* The cursor of a full page is its last row.                               *)
NextCursorFrom(page, c) ==
    IF Cardinality(page) < PerPage THEN c
    ELSE LET last == CHOOSE i \in page : Cardinality(Ahead(page, i)) = PerPage - 1
         IN  [at |-> "time", created |-> Created[last], id |-> last]

StartWalk(mode, u, f) ==
    /\ walk.at = "idle"
    /\ u \in db.users
    /\ walk' = [at |-> "next", mode |-> mode, user |-> u, filter |-> f,
                cursor |-> [at |-> "start"], page |-> 1, seen |-> [i \in Ids |-> 0]]
    /\ Begin /\ UNCHANGED <<db, req>>

(* The client goes on as long as the page it gets is full.                  *)
ListPage ==
    /\ walk.at = "next"
    /\ walk.mode = "page" => walk.page <= MaxPage
    /\ LET page == ListEntries(walk)
       IN  walk' = [walk EXCEPT
                      !.at = IF Cardinality(page) < PerPage THEN "done" ELSE "next",
                      !.cursor = IF walk.mode = "cursor" THEN NextCursorFrom(page, @) ELSE @,
                      !.page = IF walk.mode = "page" THEN @ + 1 ELSE @,
                      !.seen = [i \in Ids |-> IF i \in page THEN @[i] + 1 ELSE @[i]]]
    /\ UNCHANGED <<db, events, req>>

(* The client has what it wanted, or was refused a page beyond MAX_PAGE.    *)
EndWalk ==
    /\ walk.at = "done" \/ (walk.at = "next" /\ walk.mode = "page" /\ walk.page > MaxPage)
    /\ walk' = NoWalk
    /\ UNCHANGED <<db, events, req>>

-----------------------------------------------------------------------------
(* PATCH reads the row and writes it back, with what it was asked to change.*)
FindEntry(r, i, want) ==
    /\ req[r] = NoRequest
    /\ i \in Live
    /\ req' = [req EXCEPT ![r] = [op |-> "patch", id |-> i, want |-> want,
                                  held |-> db.entries[i]]]
    /\ Begin /\ UNCHANGED <<db, walk>>

FlagsAfter(held, want) ==
    {f \in Flags : want[f] = "set" \/ (want[f] = "keep" /\ f \in held.flags)}

BadStampsAfter(held, want) ==
    {f \in Flags : \/ want[f] = "set" /\ f \notin held.flags
                   \/ f \in held.stamps}

(* The timestamp is now() if the flag was not set, NULL if it is cleared,   *)
(* else the one that was read.                                              *)
StampsAfter(held, want) ==
    {f \in Flags : \/ want[f] = "set" /\ f \notin held.flags
                   \/ want[f] # "clear" /\ f \in held.stamps}

(* A flag that the PATCH changes gets its time or loses it.                 *)
OddAfter(held, want) ==
    held.odd \ {f \in Flags : want[f] = "clear" \/ (want[f] = "set" /\ f \notin held.flags)}

(* UPDATE ... WHERE id: an entry trashed meanwhile is updated all the same. *)
UpdateEntry(r) ==
    /\ req[r].op = "patch"
    /\ LET i == req[r].id
           held == req[r].held
           want == req[r].want
       IN  db' = IF i \in Present
                 THEN [db EXCEPT !.entries[i] =
                         WithFlags(@, FlagsAfter(held, want), StampsAfter(held, want),
                                   OddAfter(held, want))]
                 ELSE db
    /\ req' = [req EXCEPT ![r] = NoRequest]
    /\ UNCHANGED <<events, walk>>

(* bulk_archive, bulk_star: the ids first; none, a dry run or more than     *)
(* max end the request.                                                     *)
BulkMatch(r, u, f, flag, value) ==
    /\ req[r] = NoRequest
    /\ u \in db.users
    /\ FindIdsMatching(f, u) # {}
    /\ req' = [req EXCEPT ![r] = [op |-> "bulk", ids |-> FindIdsMatching(f, u),
                                  flag |-> flag, value |-> value]]
    /\ Begin /\ UNCHANGED <<db, walk>>

BulkUpdate(r, flag) ==
    /\ req[r].op = "bulk" /\ req[r].flag = flag
    /\ db' = [db EXCEPT !.entries = [i \in Ids |->
                IF i \in req[r].ids \cap Present
                THEN Flagged(@[i], flag, req[r].value) ELSE @[i]]]
    /\ req' = [req EXCEPT ![r] = NoRequest]
    /\ UNCHANGED <<events, walk>>

ListStep ==
    \/ \E mode \in {"cursor", "page"}, u \in Users, f \in Filters : StartWalk(mode, u, f)
    \/ ListPage
    \/ EndWalk

FlagStep(r) ==
    \/ \E i \in Ids, want \in [Flags -> {"set", "clear", "keep"}] : FindEntry(r, i, want)
    \/ UpdateEntry(r)
    \/ \E u \in Users, f \in Filters, flag \in Flags, value \in BOOLEAN :
          BulkMatch(r, u, f, flag, value)
    \/ \E flag \in Flags : BulkUpdate(r, flag)
=============================================================================
