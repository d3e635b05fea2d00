------------------------------- MODULE Pages -------------------------------
(***************************************************************************)
(* Published pages: files are uploaded to a staging directory, then copied  *)
(* to the place they are served from by the request that creates a page or  *)
(* replaces its files, next to the row of the page. The two are not one     *)
(* transaction, a clean-up task removes staging directories after half an   *)
(* hour, and visitors with a password write the row too.                    *)
(***************************************************************************)
EXTENDS Staging, FiniteSets

CONSTANTS
    Slugs,      \* pages
    Uploads,    \* uploads ever made
    NoUpload,
    Names,      \* relative paths of files, and what clients take for one
    NoName,     \* a request that names no file to be shown
    Source,     \* Source[u]: the parts upload u is made of
    Requests,   \* requests that may run at the same time
    Ops,        \* Ops[r]: what request r may do
    Old,        \* a page published before passwords were hashed, and its files
                \* and the one that is shown
    Passwords,
    NoPassword,
    Edits,      \* Edits[op]: what such requests say of a page
    MaxEvents,  \* bound: requests, deletions, clean-ups, failures and crashes
    Storages,   \* the configurations: "local", "oss"
    Faults      \* subset of {"upload", "error", "crash"}

AllOps == {"create", "edit", "replace", "visit"}

(* The files of an upload; and the paths in a sub-directory.                *)
Contents[u \in Uploads] == StagedFiles(Source[u])
Nested == {n \in Names : Len(n) > 1}

ASSUME PagesAssumption ==
    /\ NoUpload \notin Uploads /\ NoPassword \notin Passwords /\ NoName \notin Names
    /\ IsFiniteSet(Names)
    /\ DOMAIN Source = Uploads
    /\ \A u \in Uploads : \A part \in Source[u] : part.kind \in Kinds
    /\ \A u \in Uploads : Accepted(Source[u]) /\ Contents[u] \subseteq Names
    /\ Ops \in [Requests -> SUBSET AllOps]
    /\ Old \in [page : Slugs, upload : Uploads, password : Passwords, entry : Names]
    /\ Edits \in [{"create", "replace", "edit"} ->
                  SUBSET [status : {"active", "disabled", "keep"},
                          pass : Passwords \cup {NoPassword, "keep"},
                          entry : Names \cup {NoName}]]
    /\ \A edit \in Edits["create"] : edit.entry # NoName
    /\ MaxEvents \in Nat
    /\ Storages \subseteq {"local", "oss"}
    /\ Faults \subseteq {"upload", "error", "crash"}

VARIABLES
    storage,    \* storage_type
    rows,       \* the table pages
    files,      \* files[p][n]: the upload whose file n is served under p
    staged,     \* the staging directory of each upload
    timers,     \* uploads whose clean-up task has not run
    removing,   \* staging directories that are being removed
    req,        \* req[r]: where request r stands
    events,     \* events that happened, of those MaxEvents bounds
    torn,       \* history: pages whose files and row need not belong together
    said,       \* history: what the page's owner last said of it
    crossed     \* history: pages whose row two requests wrote across each other

vars == <<storage, rows, files, staged, timers, removing, req, events, torn, said, crossed>>

-----------------------------------------------------------------------------
(* A password is stored as it was typed by old versions, hashed by this one. *)
Password == [pass : Passwords, hashed : BOOLEAN] \cup [pass : {NoPassword}, hashed : {FALSE}]
Status == {"active", "disabled"}

Row == [at : {"none"}]
       \cup [at : {"here"}, deleted : BOOLEAN, status : Status, password : Password,
             entry_file : Names, file_count : 0..Cardinality(Names)]
NoRow == [at |-> "none"]

Directory == [at : {"none", "there", "left", "gone"}, files : SUBSET Names]

(* What a request says of a page; "keep" and NoName what it does not        *)
(* mention. Nobody looks whether the page has a file of that name.          *)
Edit == [status : Status \cup {"keep"}, pass : Passwords \cup {NoPassword, "keep"},
         entry : Names \cup {NoName}]
Nothing == [status |-> "keep", pass |-> "keep", entry |-> NoName]

Stages == {"idle", "insert", "clear", "list", "copy", "count", "remove", "read", "write",
           "upgrade"}
Request == [op : AllOps \cup {"none"}, at : Stages, page : Slugs, edit : Edit,
            upload : Uploads \cup {NoUpload}, todo : SUBSET Names,
            count : 0..Cardinality(Names), row : Row, mixed : BOOLEAN]

Idle == [op |-> "none", at |-> "idle", page |-> Old.page, edit |-> Nothing,
         upload |-> NoUpload, todo |-> {}, count |-> 0, row |-> NoRow, mixed |-> FALSE]

(* hash_page_password, unless the password is empty: that removes it.       *)
BadStored(pass) == [pass |-> pass, hashed |-> TRUE]
Stored(pass) == [pass |-> pass, hashed |-> pass # NoPassword]

Present == {p \in Slugs : rows[p].at = "here"}
Found == {p \in Present : ~rows[p].deleted}
Placing(p) == {r \in Requests : req[r].page = p /\ req[r].upload # NoUpload
                                /\ req[r].at # "insert"}
Copying(u) == {r \in Requests : req[r].upload = u
                                /\ req[r].at \in {"insert", "clear", "list", "copy", "count"}}

TypeOK ==
    /\ storage \in Storages
    /\ rows \in [Slugs -> Row]
    /\ files \in [Slugs -> [Names -> Uploads \cup {NoUpload}]]
    /\ staged \in [Uploads -> Directory]
    /\ timers \subseteq Uploads /\ removing \subseteq Uploads
    /\ req \in [Requests -> Request]
    /\ events \in 0..MaxEvents /\ torn \subseteq Slugs /\ crossed \subseteq Slugs
    /\ said \in [Slugs -> [status : Status, pass : Passwords \cup {NoPassword}, entry : Names]]
    /\ \A u \in Uploads : staged[u].at # "there" => u \notin removing
    /\ \A r \in Requests : req[r].at \notin {"idle", "insert"} => req[r].page \in Present

Init ==
    /\ storage \in Storages
    /\ rows = [p \in Slugs |->
         IF p = Old.page
         THEN [at |-> "here", deleted |-> FALSE, status |-> "active",
               password |-> [pass |-> Old.password, hashed |-> FALSE],
               entry_file |-> Old.entry,
               file_count |-> Cardinality(Contents[Old.upload])]
         ELSE NoRow]
    /\ files = [p \in Slugs |-> [n \in Names |->
         IF p = Old.page /\ n \in Contents[Old.upload] THEN Old.upload ELSE NoUpload]]
    /\ staged = [u \in Uploads |-> [at |-> IF u = Old.upload THEN "gone" ELSE "none",
                                    files |-> {}]]
    /\ timers = {} /\ removing = {}
    /\ req = [r \in Requests |-> Idle]
    /\ events = 0 /\ torn = {} /\ crossed = {}
    /\ said = [p \in Slugs |-> [status |-> "active",
                                pass |-> IF p = Old.page THEN Old.password ELSE NoPassword,
                                entry |-> Old.entry]]

-----------------------------------------------------------------------------
(* A request comes in, a page is deleted, half an hour is over, or          *)
(* something goes wrong.                                                    *)
Event == events < MaxEvents /\ events' = events + 1

(* Uploading. Nobody knows the id of an upload before the answer, so that   *)
(* it is one step. What fails while it is unpacked or written stays behind. *)
Upload(u) ==
    /\ staged[u].at = "none"
    /\ staged' = [staged EXCEPT ![u] = [at |-> "there", files |-> Contents[u]]]
    /\ timers' = timers \cup {u}
    /\ UNCHANGED <<storage, rows, files, removing, req, events, torn, said, crossed>>

UploadFails(u) ==
    /\ Event
    /\ "upload" \in Faults
    /\ staged[u].at = "none"
    /\ \E at \in {"left", "gone"} : staged' = [staged EXCEPT ![u].at = at]
    /\ UNCHANGED <<storage, rows, files, timers, removing, req, torn, said, crossed>>

(* Who copies from a directory whose removal begins shares it.              *)
Sharing(u) == [q \in Requests |->
    IF q \in Copying(u) THEN [req[q] EXCEPT !.mixed = TRUE] ELSE req[q]]

(* Of a directory that is gone there is nothing to remove.                  *)
Exists(u) == staged[u].at = "there"
Removal(u) == {u} \cap {v \in Uploads : Exists(v)}

(* The clean-up task, 1800 s after the upload.                              *)
CleanUp(u) ==
    /\ Event
    /\ u \in timers
    /\ timers' = timers \ {u}
    /\ removing' = removing \cup Removal(u)
    /\ req' = Sharing(u)
    /\ UNCHANGED <<storage, rows, files, staged, torn, said, crossed>>

(* remove_dir_all takes the files away one by one, the directory at last.   *)
(* A clean-up task has nothing to do then, and is left out.                 *)
Unlink(u) ==
    /\ u \in removing
    /\ \E n \in staged[u].files : staged' = [staged EXCEPT ![u].files = @ \ {n}]
    /\ UNCHANGED <<storage, rows, files, timers, removing, req, events, torn, said, crossed>>

RemoveDirectory(u) ==
    /\ u \in removing
    /\ staged[u].files = {}
    /\ staged' = [staged EXCEPT ![u].at = "gone"]
    /\ removing' = removing \ {u} /\ timers' = timers \ {u}
    /\ UNCHANGED <<storage, rows, files, req, events, torn, said, crossed>>

-----------------------------------------------------------------------------
May(r, op) == req[r] = Idle /\ op \in Ops[r]

(* r joins the requests that place files under p from u.                    *)
Join(r, p, u, request) ==
    req' = [q \in Requests |->
              IF q = r THEN [request EXCEPT !.mixed = \/ Placing(p) # {}
                                                      \/ Copying(u) # {}
                                                      \/ u \in removing
                                                      \/ staged[u].files # Contents[u]]
              ELSE IF q \in Placing(p) \cup Copying(u) THEN [req[q] EXCEPT !.mixed = TRUE]
              ELSE req[q]]

Full(edit) == [status |-> "active",
               pass |-> IF edit.pass = "keep" THEN NoPassword ELSE edit.pass,
               entry |-> edit.entry]

(* create_page counts the staged files first.                               *)
BeginCreate(r, p, u, edit) ==
    /\ Event
    /\ May(r, "create")
    /\ rows[p].at = "none" /\ \A q \in Requests : req[q].page = p => req[q] = Idle
    /\ Exists(u)
    /\ Join(r, p, u, [Idle EXCEPT !.op = "create", !.at = "insert", !.page = p, !.upload = u,
                                  !.edit = Full(edit),
                                  !.count = Cardinality(staged[u].files)])
    /\ UNCHANGED <<storage, rows, files, staged, timers, removing, torn, said, crossed>>

InsertPage(r) ==
    /\ req[r].at = "insert"
    /\ rows' = [rows EXCEPT ![req[r].page] =
         [at |-> "here", deleted |-> FALSE, status |-> "active",
          password |-> Stored(req[r].edit.pass),
          entry_file |-> req[r].edit.entry, file_count |-> req[r].count]]
    /\ said' = [said EXCEPT ![req[r].page] = req[r].edit]
    /\ req' = [req EXCEPT ![r].at = "list"]
    /\ UNCHANGED <<storage, files, staged, timers, removing, events, torn, crossed>>

(* update_page with new files takes the old ones away before it copies.     *)
BeginReplace(r, p, u, edit) ==
    /\ Event
    /\ May(r, "replace")
    /\ Exists(u) /\ p \in Found
    /\ Join(r, p, u, [Idle EXCEPT !.op = "replace", !.at = "clear", !.page = p, !.upload = u,
                                  !.edit = edit])
    /\ UNCHANGED <<storage, rows, files, staged, timers, removing, torn, said, crossed>>

(* delete_prefix lists the objects directly under the prefix.               *)
BadCleared(n) == FALSE
Cleared(n) == storage = "local" \/ n \notin Nested

ClearFiles(r) ==
    /\ req[r].at = "clear"
    /\ files' = [files EXCEPT ![req[r].page] =
                   [n \in Names |-> IF Cleared(n) THEN NoUpload ELSE @[n]]]
    /\ req' = [req EXCEPT ![r].at = "list"]
    /\ UNCHANGED <<storage, rows, staged, timers, removing, events, torn, said, crossed>>

(* The copy goes through what read_dir returned.                            *)
Onward(r, todo) == [req EXCEPT ![r].todo = todo,
                               ![r].at = IF todo # {} THEN "copy"
                                         ELSE IF req[r].op = "create" THEN "remove" ELSE "count"]

ListStaged(r) ==
    /\ req[r].at = "list" /\ Exists(req[r].upload)
    /\ req' = Onward(r, staged[req[r].upload].files)
    /\ UNCHANGED <<storage, rows, files, staged, timers, removing, events, torn, said, crossed>>

CopyFile(r, n) ==
    /\ req[r].at = "copy"
    /\ n \in req[r].todo \cap staged[req[r].upload].files
    /\ files' = [files EXCEPT ![req[r].page][n] = req[r].upload]
    /\ req' = Onward(r, req[r].todo \ {n})
    /\ UNCHANGED <<storage, rows, staged, timers, removing, events, torn, said, crossed>>

CountFiles(r) ==
    /\ req[r].at = "count" /\ Exists(req[r].upload)
    /\ req' = [req EXCEPT ![r].at = "remove", ![r].count = Cardinality(staged[req[r].upload].files)]
    /\ UNCHANGED <<storage, rows, files, staged, timers, removing, events, torn, said, crossed>>

(* The page of a request that is through with its files.                    *)
Placed(r, well) == IF well THEN torn \ {req[r].page} ELSE torn \cup {req[r].page}

RemoveStaged(r) ==
    /\ req[r].at = "remove"
    /\ LET u == req[r].upload
       IN  /\ removing' = removing \cup Removal(u)
           /\ req' = [Sharing(u) EXCEPT ![r] = IF @.op = "create" THEN Idle
                                               ELSE [@ EXCEPT !.at = "read"]]
    /\ torn' = IF req[r].op = "create" THEN Placed(r, ~req[r].mixed) ELSE torn
    /\ UNCHANGED <<storage, rows, files, staged, timers, events, said, crossed>>

-----------------------------------------------------------------------------
(* update_page reads the row, and writes it back as a whole.                *)
BeginEdit(r, p, edit) ==
    /\ Event
    /\ May(r, "edit")
    /\ p \in Present
    /\ req' = [req EXCEPT ![r] = [Idle EXCEPT !.op = "edit", !.at = "read", !.page = p,
                                              !.edit = edit]]
    /\ UNCHANGED <<storage, rows, files, staged, timers, removing, torn, said, crossed>>

ReadRow(r) ==
    /\ req[r].at = "read"
    /\ req[r].page \in Found /\ req[r].upload \notin removing
    /\ req' = [req EXCEPT ![r].at = "write", ![r].row = rows[req[r].page]]
    /\ UNCHANGED <<storage, rows, files, staged, timers, removing, events, torn, said, crossed>>

(* An empty password removes it, no password keeps it; and no name keeps    *)
(* the file to be shown, with new files, too.                               *)
BadEdited(row, edit) ==
    [row EXCEPT !.status = IF edit.status = "keep" THEN @ ELSE edit.status,
                !.password = Stored(IF edit.pass = "keep" THEN NoPassword ELSE edit.pass),
                !.entry_file = IF edit.entry = NoName THEN @ ELSE edit.entry]
Edited(row, edit) ==
    [row EXCEPT !.status = IF edit.status = "keep" THEN @ ELSE edit.status,
                !.password = IF edit.pass = "keep" THEN @ ELSE Stored(edit.pass),
                !.entry_file = IF edit.entry = NoName THEN @ ELSE edit.entry]

NewFiles(row, r) ==
    IF req[r].upload = NoUpload THEN row ELSE [row EXCEPT !.file_count = req[r].count]

Says(row) == [status |-> row.status, pass |-> row.password.pass, entry |-> row.entry_file]

Said(p, edit) ==
    [said EXCEPT ![p] = [status |-> IF edit.status = "keep" THEN @.status ELSE edit.status,
                         pass |-> IF edit.pass = "keep" THEN @.pass ELSE edit.pass,
                         entry |-> IF edit.entry = NoName THEN @.entry ELSE edit.entry]]

(* The deletion mark is not among the columns written back.                 *)
WriteRow(r) ==
    /\ req[r].at = "write"
    /\ LET p == req[r].page
           old == [req[r].row EXCEPT !.deleted = rows[p].deleted]
       IN  /\ rows' = [rows EXCEPT ![p] = NewFiles(Edited(old, req[r].edit), r)]
           /\ said' = Said(p, req[r].edit)
           /\ crossed' = IF Says(old) = Says(rows[p]) THEN crossed ELSE crossed \cup {p}
           /\ torn' = IF req[r].upload # NoUpload THEN Placed(r, ~req[r].mixed)
                      ELSE IF old.file_count = rows[p].file_count THEN torn ELSE torn \cup {p}
    /\ req' = [req EXCEPT ![r] = Idle]
    /\ UNCHANGED <<storage, files, staged, timers, removing, events>>

(* A request gives up: what it needs is not there any more, a statement or  *)
(* the storage fails, a password turns out to be too long, the client goes  *)
(* away. It takes nothing back.                                             *)
Stopped(r) ==
    \/ req[r].at \in {"list", "count"} /\ ~Exists(req[r].upload)
    \/ req[r].at = "copy" /\ req[r].todo \ staged[req[r].upload].files # {}
    \/ req[r].at = "read" /\ req[r].page \notin Found

Touched(r) == req[r].upload # NoUpload /\ req[r].at # "insert"

(* Old files may be taken away in part.                                     *)
Interrupted(R) ==
    {[p \in Slugs |-> [n \in Names |->
        IF /\ \E r \in R : req[r].at = "clear" /\ req[r].page = p
           /\ n \notin kept
        THEN NoUpload ELSE files[p][n]]] : kept \in SUBSET Names}

GiveUp(r) ==
    /\ \/ Stopped(r) /\ UNCHANGED events
       \/ "error" \in Faults /\ req[r] # Idle /\ Event
    /\ req' = [req EXCEPT ![r] = Idle]
    /\ torn' = IF Touched(r) THEN torn \cup {req[r].page} ELSE torn
    /\ files' \in Interrupted({r})
    /\ UNCHANGED <<storage, rows, staged, timers, removing, said, crossed>>

(* The clean-up tasks and half-done removals are forgotten with the process. *)
Crash ==
    /\ Event
    /\ "crash" \in Faults
    /\ \/ timers # {} \/ removing # {}
       \/ \E r \in Requests : req[r] # Idle
    /\ timers' = {} /\ removing' = {}
    /\ req' = [r \in Requests |-> Idle]
    /\ torn' = torn \cup {req[r].page : r \in {q \in Requests : Touched(q)}}
    /\ files' \in Interrupted(Requests)
    /\ UNCHANGED <<storage, rows, staged, said, crossed>>

DeletePage(p) ==
    /\ Event
    /\ p \in Found
    /\ rows' = [rows EXCEPT ![p].deleted = TRUE]
    /\ UNCHANGED <<storage, files, staged, timers, removing, req, torn, said, crossed>>

(* Of a page that is not deleted this is an error.                          *)
RestorePage(p) ==
    /\ p \in Present
    /\ rows' = [rows EXCEPT ![p].deleted = FALSE]
    /\ UNCHANGED <<storage, files, staged, timers, removing, req, events, torn, said, crossed>>

-----------------------------------------------------------------------------
(* A visitor who knows the password of an old page has it hashed.           *)
Visit(r, p) ==
    /\ Event
    /\ May(r, "visit")
    /\ p \in Found /\ rows[p].status = "active"
    /\ rows[p].password.pass # NoPassword /\ ~rows[p].password.hashed
    /\ req' = [req EXCEPT ![r] = [Idle EXCEPT !.op = "visit", !.at = "upgrade", !.page = p,
                                              !.row = rows[p]]]
    /\ UNCHANGED <<storage, rows, files, staged, timers, removing, torn, said, crossed>>

UpgradePassword(r) ==
    /\ req[r].at = "upgrade"
    /\ LET p == req[r].page
           pass == req[r].row.password.pass
       IN  /\ rows' = [rows EXCEPT ![p].password = [pass |-> pass, hashed |-> TRUE]]
           /\ crossed' = IF rows[p].password.pass = pass THEN crossed ELSE crossed \cup {p}
    /\ req' = [req EXCEPT ![r] = Idle]
    /\ UNCHANGED <<storage, files, staged, timers, removing, events, torn, said>>

RequestStep(r) ==
    \/ \E p \in Slugs, u \in Uploads :
         \/ \E edit \in Edits["create"] : BeginCreate(r, p, u, edit)
         \/ \E edit \in Edits["replace"] : BeginReplace(r, p, u, edit)
    \/ \E p \in Slugs, edit \in Edits["edit"] : BeginEdit(r, p, edit)
    \/ \E p \in Slugs : Visit(r, p)
    \/ InsertPage(r) \/ ClearFiles(r) \/ ListStaged(r)
    \/ \E n \in Names : CopyFile(r, n)
    \/ CountFiles(r) \/ RemoveStaged(r)
    \/ ReadRow(r) \/ WriteRow(r) \/ UpgradePassword(r)
    \/ GiveUp(r)

Next ==
    \/ \E r \in Requests : RequestStep(r)
    \/ \E u \in Uploads : Upload(u) \/ UploadFails(u) \/ CleanUp(u) \/ Unlink(u)
                          \/ RemoveDirectory(u)
    \/ \E p \in Slugs : DeletePage(p) \/ RestorePage(p)
    \/ Crash

Spec == Init /\ [][Next]_vars

-----------------------------------------------------------------------------
(* What the owner means to publish of a part of an upload, and whether the  *)
(* files at their places are those of that part: but for a top directory    *)
(* that holds them all.                                                     *)
Meant(part) ==
    {p \in part.files : \A k \in 1..Len(p) : p[k] \notin Hidden \cup MacLike}

InPlace(part, placed) ==
    \/ placed = Meant(part)
    \/ \E top \in {m[1] : m \in Meant(part)} :
          Meant(part) = {<<top>> \o n : n \in placed}

(* The files of a page are those of one upload at their places; no older    *)
(* one is among them (but those in sub-directories, which delete_prefix     *)
(* leaves in an object storage); file_count is right; and the file its      *)
(* owner last named is served, if the upload has it and no other request    *)
(* wrote the row across that one.                                           *)
Whole(p) == \E u \in Uploads :
    LET served == {n \in Names : files[p][n] = u}
    IN  /\ \E placed \in [Source[u] -> SUBSET served] :
             /\ served = UNION {placed[part] : part \in Source[u]}
             /\ \A part \in Source[u] : InPlace(part, placed[part])
        /\ rows[p].file_count = Cardinality(served)
        /\ \/ rows[p].entry_file \in HtmlFiles(served)
           \/ said[p].entry \notin HtmlFiles(Contents[u])
           \/ p \in crossed
        /\ \A n \in Names : files[p][n] # NoUpload /\ n \notin served
                              => storage = "oss" /\ n \in Nested

(* A page is whole unless its files are just being placed, or the last      *)
(* request that placed them broke off, shared the page or its staging       *)
(* directory with another request or with the clean-up, or had its row      *)
(* overwritten by an edit that had read the one before                      *)
(* (services/pages.rs:350, services/pages.rs:531, page.rs:296).             *)
PublishedIsWhole == \A p \in Present : p \in torn \/ Placing(p) # {} \/ Whole(p)

(* A page has the status, the password and the file to be shown that its    *)
(* owner named last, unless another request changed them between the read   *)
(* and the write of an edit, or of a visitor's upgrade of an old password   *)
(* (page.rs:296, pages_public.rs:119).                                      *)
EditStays == \A p \in Present : p \in crossed \/ Says(rows[p]) = said[p]
=============================================================================
