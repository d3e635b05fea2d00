------------------------------ MODULE Readers ------------------------------
(***************************************************************************)
(* Listing and Backup over the same tables: whoever reads them over several *)
(* statements, while everybody else changes them in between.                *)
(***************************************************************************)
EXTENDS Listing, Backup

VARIABLE
    steady      \* history: entries that matched the walk's filter all along

vars == <<db, events, walk, req, backup, file, watch, steady>>

Init ==
    /\ TablesInit /\ ListingInit /\ BackupInit
    /\ steady = {}

(* What the history keeps of a step. A walk by page numbers is thrown off   *)
(* by any change of what matches.                                           *)
Matching == FindIdsMatching(walk.filter, walk.user)

Observe ==
    /\ watch' = IF backup'.at = "idle" \/ backup.at = "idle"
                THEN [quiet |-> TRUE, added |-> FALSE]
                ELSE [quiet |-> watch.quiet /\ db' = db,
                      added |-> \/ watch.added
                                \/ ~(db'.users \subseteq db.users)
                                \/ ~(db'.tags \subseteq db.tags)
                                \/ ~(Present' \subseteq Present)]
    /\ steady' = IF walk'.at = "idle" THEN {}
                 ELSE IF walk.at = "idle" THEN Matching'
                 ELSE IF walk.at = "done" THEN steady
                 ELSE IF walk.mode = "cursor" THEN steady \cap Matching'
                 ELSE IF Matching' = Matching THEN steady ELSE {}

Next ==
    /\ \/ Write /\ UNCHANGED <<walk, req, backup, file>>
       \/ ListStep /\ UNCHANGED <<backup, file>>
       \/ (\E r \in Requests : FlagStep(r)) /\ UNCHANGED <<backup, file>>
       \/ BackupStep /\ UNCHANGED <<walk, req>>
    /\ Observe

Spec == Init /\ [][Next]_vars

-----------------------------------------------------------------------------
(* Type invariant, and the references of the tables: links, annotations and *)
(* promoted memos have their entries, and links their tags.                 *)
TypeOK ==
    /\ db \in Database
    /\ db.links \subseteq Present \X db.tags
    /\ db.notes \subseteq Present /\ db.promoted \subseteq Present
    /\ \A i \in Present : Owner[i] \in db.users
    /\ events \in 0..MaxEvents
    /\ walk \in Walk
    /\ req \in [Requests -> Request]
    /\ backup.at \in TableNames \cup {"idle", "end"}
    /\ file.kind \in {"none", "backup", "export"}
    /\ watch \in [quiet : BOOLEAN, added : BOOLEAN]
    /\ steady \subseteq Ids

(* An entry has the time of a flag exactly if it has the flag, whichever of *)
(* PATCH, bulk changes, imports and restores wrote it, and although a PATCH *)
(* writes back what it read, except for a flag that an import took from a   *)
(* file in which flag and time disagree, until a PATCH or a bulk request    *)
(* changes it (entry.rs:411, bulk.rs:206, import.rs:427).                   *)
Agrees(row) == \A f \in Flags \ row.odd : f \in row.flags <=> f \in row.stamps

FlagsAgree == \A i \in Ids : Agrees(db.entries[i])

(* A client that follows X-Next-Cursor to the end sees every entry that     *)
(* matched all along exactly once, entries of the same time included,       *)
(* whatever was added, trashed or changed meanwhile, and no entry twice; so *)
(* does one that counts pages, unless what matches changed (entry.rs:276).  *)
WalkComplete ==
    walk.at = "done" =>
        /\ \A i \in steady : walk.seen[i] = 1
        /\ walk.mode = "cursor" => \A i \in Ids : walk.seen[i] <= 1

(* The references of a backup that was cut off or written while the tables  *)
(* changed resolve within the file unless a user, an entry or a tag was     *)
(* added while it was written or a table ended early: it can be restored.   *)
(* The links and annotations of an export refer to entries in it, whatever  *)
(* happened, and to its tags unless one was added (backup.rs:225,           *)
(* export.rs:73).                                                           *)
FileIsClosed ==
    /\ file.kind = "backup" /\ ~file.added /\ ~file.torn => Resolves(file.tables)
    /\ file.kind = "export" =>
         /\ \A l \in file.tables["links"] : l[1] \in IdsIn(file.tables)
         /\ file.tables["notes"] \subseteq IdsIn(file.tables)
         /\ ~file.added => \A l \in file.tables["links"] : l[2] \in file.tables["tags"]

(* Restoring a backup during which nothing changed brings all tables it     *)
(* covers back as they were when it was written, whatever was done to them  *)
(* since, trash, flags, times and memos included (backup.rs:723).           *)
RestoreBringsBack ==
    [][DoRestore /\ file.quiet /\ ~file.torn =>
         /\ \A i \in Ids : file.was.entries[i].at \in {"live", "trash"}
                              => db'.entries[i] = file.was.entries[i]
         /\ \A i \in Ids : file.was.entries[i].at \notin {"live", "trash"}
                              => db'.entries[i].at \in {"unused", "gone"}
         /\ [db' EXCEPT !.entries = db.entries, !.pages = {}]
              = [file.was EXCEPT !.entries = db.entries, !.pages = {}]]_vars
=============================================================================
