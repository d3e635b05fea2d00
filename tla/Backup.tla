------------------------------- MODULE Backup -------------------------------
(***************************************************************************)
(* The administrator's backup, a user's export, and the restore of a        *)
(* backup. A backup is one SELECT per table, with no transaction around     *)
(* them, streamed to a client that may go away; a row that cannot be read   *)
(* ends its table. A restore replaces all tables in one transaction, and    *)
(* one reference that does not resolve undoes it.                           *)
(***************************************************************************)
EXTENDS Tables

CONSTANTS
    Scopes,     \* scopes of exports
    Faults      \* subset of {"row_error", "disconnect"}

ASSUME BackupAssumption ==
    /\ Scopes \subseteq {"all", "unread", "archived", "starred"}
    /\ Faults \subseteq {"row_error", "disconnect"}

VARIABLES
    backup,     \* the backup or export being written
    file,       \* the last one that a client kept
    watch       \* history: what happened while the backup was written

-----------------------------------------------------------------------------
TableNames == {"users", "entries", "tags", "links", "notes", "promoted", "rules", "sites"}

NoTables == [t \in TableNames |-> {}]
Nobody == "nobody"

BadSuccessor(t) ==
    CASE t = "users" -> "tags"        [] t = "tags" -> "links"
      [] t = "links" -> "entries"     [] t = "entries" -> "notes"
      [] t = "notes" -> "promoted"    [] t = "promoted" -> "rules"
      [] t = "rules" -> "sites"       [] t = "sites" -> "end"

(* A backup reads all tables; an export those of one user.                  *)
Successor(t) ==
    CASE t = "users" -> "entries"     [] t = "entries" -> "tags"
      [] t = "tags" -> "links"        [] t = "links" -> "notes"
      [] t = "notes" -> "promoted"    [] t = "promoted" -> "rules"
      [] t = "rules" -> "sites"       [] t = "sites" -> "end"

NoBackup == [at |-> "idle"]
NoFile == [kind |-> "none"]

(* quiet: no table changed meanwhile; added: a user, an entry or a tag was  *)
(* added; was: the tables when the backup began; torn: a table ended early. *)
BackupInit ==
    /\ backup = NoBackup
    /\ file = NoFile
    /\ watch = [quiet |-> TRUE, added |-> FALSE]

-----------------------------------------------------------------------------
Entry(i) == [id |-> i, row |-> db.entries[i]]
IdsIn(tables) == {e.id : e \in tables["entries"]}

(* The SELECTs of a backup.                                                 *)
BackupRows(t) ==
    CASE t = "users" -> db.users
      [] t = "entries" -> {Entry(i) : i \in Present}
      [] t = "tags" -> db.tags
      [] t = "links" -> db.links
      [] t = "notes" -> db.notes
      [] t = "promoted" -> db.promoted
      [] t = "rules" -> db.rules
      [] t = "sites" -> db.sites

InScope(i, scope) ==
    CASE scope = "all" -> TRUE
      [] scope = "unread" -> "archived" \notin db.entries[i].flags
      [] scope = "archived" -> "archived" \in db.entries[i].flags
      [] scope = "starred" -> "starred" \in db.entries[i].flags

(* The SELECTs of an export: links and annotations of exported entries only.*)
ExportRows(t, u, scope, exported) ==
    CASE t = "entries" -> {Entry(i) : i \in {j \in Live : Owner[j] = u /\ InScope(j, scope)}}
      [] t = "tags" -> {x \in db.tags : Owner[x] = u}
      [] t = "links" -> {l \in db.links : l[1] \in exported}
      [] t = "notes" -> db.notes \cap exported
      [] t = "promoted" -> {i \in db.promoted : Owner[i] = u}
      [] t = "rules" -> db.rules \cap {u}
      [] t = "sites" -> db.sites \cap {u}

Rows(b) ==
    IF b.kind = "backup" THEN BackupRows(b.at)
    ELSE ExportRows(b.at, b.user, b.scope, IdsIn(b.tables))

Start(kind, u, scope, first) ==
    /\ backup = NoBackup
    /\ backup' = [at |-> first, kind |-> kind, user |-> u, scope |-> scope,
                  tables |-> NoTables, was |-> db, torn |-> FALSE]
    /\ Begin /\ UNCHANGED <<db, file>>

StartBackup == Start("backup", Nobody, "all", "users")
ExportAll(u, scope) == u \in db.users /\ Start("export", u, scope, "entries")

(* One SELECT. fetch streams its rows, and the first that fails ends them;  *)
(* fetch_all of an export fails as a whole, and the client gets nothing.    *)
ReadTable ==
    /\ backup.at \in TableNames
    /\ \E part \in IF "row_error" \in Faults /\ backup.kind = "backup"
                   THEN SUBSET Rows(backup) ELSE {Rows(backup)} :
          backup' = [backup EXCEPT !.at = Successor(@), !.tables[backup.at] = part,
                                   !.torn = @ \/ part # Rows(backup)]
    /\ UNCHANGED <<db, events, file>>

Kept(tables) ==
    [kind |-> backup.kind, tables |-> tables, was |-> backup.was, torn |-> backup.torn,
     quiet |-> watch.quiet, added |-> watch.added]

FinishBackup ==
    /\ backup.at = "end"
    /\ file' = Kept(backup.tables)
    /\ backup' = NoBackup
    /\ UNCHANGED <<db, events>>

(* The connection ends within a table: the client has the lines before. An  *)
(* export is one JSON document, of which a part is worth nothing.           *)
Disconnect ==
    /\ "disconnect" \in Faults
    /\ backup.at \in TableNames /\ backup.kind = "backup"
    /\ \E part \in SUBSET Rows(backup) :
          file' = [Kept([backup.tables EXCEPT ![backup.at] = part]) EXCEPT !.quiet = FALSE]
    /\ backup' = NoBackup
    /\ UNCHANGED <<db, events>>

-----------------------------------------------------------------------------
(* Restore. The tables are cleared, then filled in the order of their       *)
(* references.                                                              *)

(* DELETE FROM users fails as long as a page refers to one.                 *)
ClearTables == db.pages = {}

InsertEntries(f) == \A i \in IdsIn(f) : Owner[i] \in f["users"]
InsertTags(f) == \A t \in f["tags"] : Owner[t] \in f["users"]
InsertLinks(f) == f["links"] \subseteq IdsIn(f) \X f["tags"]
InsertAnnotations(f) == f["notes"] \subseteq IdsIn(f)
InsertMemos(f) == f["promoted"] \subseteq IdsIn(f)
InsertTaggingRules(f) == f["rules"] \subseteq f["users"]
InsertSiteRules(f) == f["sites"] \subseteq f["users"]

Resolves(f) ==
    /\ InsertEntries(f) /\ InsertTags(f) /\ InsertLinks(f) /\ InsertAnnotations(f)
    /\ InsertMemos(f) /\ InsertTaggingRules(f) /\ InsertSiteRules(f)

(* Ids that were used and are not in the file are gone.                     *)
RestoredRow(f, i) ==
    IF i \in IdsIn(f) THEN (CHOOSE e \in f["entries"] : e.id = i).row
    ELSE Blank(IF db.entries[i].at = "unused" THEN "unused" ELSE "gone")

BadRestored(f) ==
    [users |-> f["users"], entries |-> [i \in Ids |-> RestoredRow(f, i)],
     tags |-> f["tags"], links |-> f["links"], notes |-> f["notes"],
     promoted |-> {}, rules |-> f["rules"], sites |-> f["sites"],
     pages |-> {}]

Restored(f) ==
    [users |-> f["users"], entries |-> [i \in Ids |-> RestoredRow(f, i)],
     tags |-> f["tags"], links |-> f["links"], notes |-> f["notes"],
     promoted |-> f["promoted"], rules |-> f["rules"], sites |-> f["sites"],
     pages |-> {}]

(* One transaction; any other outcome leaves the tables as they were.       *)
DoRestore ==
    /\ file.kind = "backup"
    /\ ClearTables /\ Resolves(file.tables)
    /\ db' = Restored(file.tables)
    /\ Begin /\ UNCHANGED <<backup, file>>

BackupStep ==
    \/ StartBackup
    \/ \E u \in Users, scope \in Scopes : ExportAll(u, scope)
    \/ ReadTable
    \/ FinishBackup
    \/ Disconnect
    \/ DoRestore
=============================================================================
