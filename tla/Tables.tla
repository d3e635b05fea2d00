------------------------------- MODULE Tables -------------------------------
(***************************************************************************)
(* The tables of the library that lists, bulk operations, backups and       *)
(* exports read over several statements, and the single statements by which *)
(* other requests change them in between. The references between the tables *)
(* are those of the migrations: a link, an annotation or a promoted memo    *)
(* needs its entry, everything needs its user.                              *)
(***************************************************************************)
EXTENDS Integers, FiniteSets

CONSTANTS
    Users,
    Ids,        \* ids of entries, ordered like UUIDs
    Tags,
    Flags,      \* is_archived, is_starred
    Owner,      \* Owner[x]: the user entry or tag x belongs to
    Created,    \* Created[i]: created_at of entry i; several may share one
    MaxEvents   \* bound: statements of other requests that change something,
                \* and walks, PATCHes, bulk changes, backups and restores

ASSUME TablesAssumption ==
    /\ Ids \subseteq Nat /\ IsFiniteSet(Ids)
    /\ Owner \in [Ids \cup Tags -> Users]
    /\ Created \in [Ids -> Nat]
    /\ MaxEvents \in Nat

VARIABLES
    db,         \* the tables
    events      \* number of them so far

-----------------------------------------------------------------------------
(* A row of entries: flags holds the flags that are set, stamps those whose *)
(* timestamp (archived_at, starred_at) is set. odd is history: the flags    *)
(* that an import gave without their time, or whose time without the flag,  *)
(* and that nobody has changed since.                                       *)
Row == [at : {"unused", "live", "trash", "gone"},
        flags : SUBSET Flags, stamps : SUBSET Flags, odd : SUBSET Flags]

Blank(at) == [at |-> at, flags |-> {}, stamps |-> {}, odd |-> {}]

(* notes: entries with annotations; promoted: entries a memo was promoted   *)
(* to; rules, sites, pages: users with tagging rules, site rules, pages.    *)
Database ==
    [users : SUBSET Users, entries : [Ids -> Row], tags : SUBSET Tags,
     links : SUBSET (Ids \X Tags), notes : SUBSET Ids, promoted : SUBSET Ids,
     rules : SUBSET Users, sites : SUBSET Users, pages : SUBSET Users]

Live == {i \in Ids : db.entries[i].at = "live"}
Trash == {i \in Ids : db.entries[i].at = "trash"}
Present == Live \cup Trash

(* One user with some entries, any of them tagged.                          *)
TablesInit ==
    /\ \E u \in Users : \E live \in SUBSET {i \in Ids : Owner[i] = u} :
       \E links \in SUBSET (live \X {t \in Tags : Owner[t] = u}) :
          db = [users |-> {u},
                entries |-> [i \in Ids |-> Blank(IF i \in live THEN "live" ELSE "unused")],
                tags |-> {t \in Tags : \E i \in Ids : <<i, t>> \in links},
                links |-> links, notes |-> {}, promoted |-> {},
                rules |-> {}, sites |-> {}, pages |-> {}]
    /\ events = 0

-----------------------------------------------------------------------------
Begin == events < MaxEvents /\ events' = events + 1

Change(new) == Begin /\ new # db /\ db' = new

Register(u) == Change([db EXCEPT !.users = @ \cup {u}])

InsertEntry(i) ==
    /\ Owner[i] \in db.users
    /\ db.entries[i].at = "unused"
    /\ Change([db EXCEPT !.entries[i] = Blank("live")])

TrashEntry(i) ==
    /\ i \in Live
    /\ Change([db EXCEPT !.entries[i].at = "trash"])

RestoreEntry(i) ==
    /\ i \in Trash
    /\ Change([db EXCEPT !.entries[i].at = "live"])

BadPurgeEntry(i) ==
    /\ i \in Trash
    /\ Change([db EXCEPT !.entries[i] = Blank("gone"),
                         !.links = {l \in @ : l[1] # i},
                         !.notes = @ \ {i}])

(* The references cascade; promoted_entry_id is set to NULL.                *)
PurgeEntry(i) ==
    /\ i \in Trash
    /\ Change([db EXCEPT !.entries[i] = Blank("gone"),
                         !.links = {l \in @ : l[1] # i},
                         !.notes = @ \ {i}, !.promoted = @ \ {i}])

CreateTag(t) ==
    /\ Owner[t] \in db.users
    /\ Change([db EXCEPT !.tags = @ \cup {t}])

LinkTag(i, t) ==
    /\ i \in Present /\ t \in db.tags /\ Owner[i] = Owner[t]
    /\ Change([db EXCEPT !.links = @ \cup {<<i, t>>}])

(* A DELETE may find nothing to delete.                                     *)
UnlinkTag(i, t) ==
    \/ Change([db EXCEPT !.links = @ \ {<<i, t>>}])
    \/ <<i, t>> \notin db.links /\ UNCHANGED <<db, events>>

DeleteTag(t) ==
    Change([db EXCEPT !.tags = @ \ {t}, !.links = {l \in @ : l[2] # t}])

Annotate(i) ==
    /\ i \in Live
    /\ Change([db EXCEPT !.notes = @ \cup {i}])

(* An import annotates the entries it inserted, whatever became of them.    *)
ImportAnnotation(i) ==
    /\ i \in Present
    /\ Change([db EXCEPT !.notes = @ \cup {i}])

(* Deletes the last annotation of an entry, in the trash or not; and the    *)
(* last memo that was promoted to it.                                       *)
DeleteAnnotation(i) == Change([db EXCEPT !.notes = @ \ {i}])

SetPromoted(i) ==
    /\ i \in Present
    /\ Change([db EXCEPT !.promoted = @ \cup {i}])

DeleteMemo(i) == Change([db EXCEPT !.promoted = @ \ {i}])

CreateRule(u) ==
    /\ u \in db.users
    /\ Change([db EXCEPT !.rules = @ \cup {u}])

CreateSiteRule(u) ==
    /\ u \in db.users
    /\ Change([db EXCEPT !.sites = @ \cup {u}])

(* The last rule of a user.                                                 *)
DeleteRule(u) == Change([db EXCEPT !.rules = @ \ {u}])
DeleteSiteRule(u) == Change([db EXCEPT !.sites = @ \ {u}])

(* Pages are never deleted from their table.                                *)
PublishPage(u) ==
    /\ u \in db.users
    /\ Change([db EXCEPT !.pages = @ \cup {u}])

(* The columns of the flags and their times, which one UPDATE sets; a bulk  *)
(* change sets or clears one flag.                                          *)
WithFlags(row, flags, stamps, odd) ==
    [row EXCEPT !.flags = flags, !.stamps = stamps, !.odd = odd]

Flagged(row, flag, value) ==
    IF value
    THEN WithFlags(row, row.flags \cup {flag}, row.stamps \cup {flag}, row.odd \ {flag})
    ELSE WithFlags(row, row.flags \ {flag}, row.stamps \ {flag}, row.odd \ {flag})

(* By ids the caller names: entries in the trash are updated, too.          *)
ArchiveByIds(ids) ==
    /\ "archived" \in Flags
    /\ Change([db EXCEPT !.entries = [i \in Ids |->
                 IF i \in ids \cap Present THEN Flagged(@[i], "archived", TRUE) ELSE @[i]]])

(* Flags and timestamps as the file has them, each for itself; an entry     *)
(* without flags keeps its own, whatever times the file gives.              *)
RestoreImportStatus(i, flags, stamps) ==
    /\ i \in Present /\ flags # {}
    /\ Change([db EXCEPT !.entries[i] =
                 WithFlags(@, flags, stamps, (flags \ stamps) \cup (stamps \ flags))])

Write ==
    \/ \E u \in Users : \/ Register(u) \/ PublishPage(u)
                        \/ CreateRule(u) \/ DeleteRule(u)
                        \/ CreateSiteRule(u) \/ DeleteSiteRule(u)
    \/ \E i \in Ids : \/ InsertEntry(i) \/ TrashEntry(i) \/ RestoreEntry(i)
                      \/ PurgeEntry(i) \/ Annotate(i) \/ ImportAnnotation(i)
                      \/ DeleteAnnotation(i)
                      \/ SetPromoted(i) \/ DeleteMemo(i)
    \/ \E t \in Tags : CreateTag(t) \/ DeleteTag(t)
    \/ \E i \in Ids, t \in Tags : LinkTag(i, t) \/ UnlinkTag(i, t)
    \/ \E ids \in SUBSET Ids : ArchiveByIds(ids)
    \/ \E i \in Ids, flags, stamps \in SUBSET Flags : RestoreImportStatus(i, flags, stamps)
=============================================================================
