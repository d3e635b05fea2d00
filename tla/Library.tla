------------------------------ MODULE Library ------------------------------
(***************************************************************************)
(* The life of the entries of one library and of the full-text index that   *)
(* is to find them: saving, importing, promoting a memo, fetching, trashing,*)
(* restoring and purging entries, and an administrator's restore of the     *)
(* whole database or rebuild of the index, all at the same time.            *)
(*                                                                          *)
(* The index is buffered: upserts and deletions reach the disk, and become  *)
(* visible to searches, with the next commit, and those that were not       *)
(* committed are lost in a crash. Each SQL statement and each call of the   *)
(* index is one step; between any two of them axum may drop the handler,    *)
(* when its client has gone. FetchQueue stands behind queue: an id in it    *)
(* will be fetched, by a worker, which nobody drops.                        *)
(*                                                                          *)
(* Texts are numbered as they are written, so that a document can be        *)
(* compared with the row it was made of: whoever upserts one holds the text *)
(* it has read or written earlier, which may be older than what is indexed. *)
(***************************************************************************)
EXTENDS Integers, FiniteSets

CONSTANTS
    Urls,         \* the URLs people save
    NoUrl,
    Requests,     \* requests that may run at the same time
    Ops,          \* Ops[r]: what request r may ask for
    MaxEntries,   \* bound: rows ever inserted into entries
    MaxTexts,     \* bound: texts ever written
    MaxEvents,    \* bound: crashes, restores of backups and reindexings
    FailingSql    \* whether a statement of a request may fail

AllOps == {"save", "link", "note", "wallabag", "bookmarks", "export",
           "delete", "restore", "purge", "bulk_delete", "refetch"}

ASSUME LibraryAssumption ==
    /\ NoUrl \notin Urls
    /\ Ops \in [Requests -> SUBSET AllOps]
    /\ MaxEntries \in Nat /\ MaxTexts \in Nat /\ MaxEvents \in Nat
    /\ FailingSql \in BOOLEAN

VARIABLES
    rows,      \* rows[i]: the row of entries with id i
    texts,     \* number of texts written so far
    view,      \* view[i]: the document of entry i as the index's writer sees it
    disk,      \* disk[i]: the same in the last commit
    queue,     \* entries whose fetch is queued
    fetch,     \* the fetch in progress
    req,       \* req[r]: where request r stands
    rebuild,   \* the administrator's restore or reindexing
    events,    \* number of crashes, restores and reindexings so far
    fate       \* history: fate[i], see Fates

vars == <<rows, texts, view, disk, queue, fetch, req, rebuild, events, fate>>

table == <<rows, texts>>
index == <<view, disk>>

-----------------------------------------------------------------------------
Ids == 1..MaxEntries
NoId == 0

(* Documents: none, or one with a text; NoText is a document with a title   *)
(* alone, and a row whose text_content is NULL.                             *)
NoDoc == -1
NoText == 0
Texts == 1..MaxTexts
Docs == {NoDoc, NoText} \cup Texts
NoDocs == [i \in Ids |-> NoDoc]

(* A row: unused as yet, live, in the trash or gone; its content: none      *)
(* before the first fetch, some, or erased by a failed fetch; and its       *)
(* text_content, which the index is rebuilt from.                           *)
Row == [url : Urls, at : {"live", "trash"}, text : {NoText} \cup Texts, content : {"some"}]
       \cup [url : Urls, at : {"live", "trash"}, text : {NoText}, content : {"none", "failed"}]
       \cup [url : {NoUrl}, at : {"unused", "gone"}, text : {NoText}, content : {"none"}]

Vacant(at) == [url |-> NoUrl, at |-> at, text |-> NoText, content |-> "none"]
Unused == Vacant("unused")
Gone == Vacant("gone")

(* docs: what the request has read or written and has still to index.       *)
Request == [op : AllOps \cup {"none"},
            at : {"idle", "next", "conflict", "fill", "promote", "index", "send",
                  "flush", "unindex", "commit", "reread", "reindex"},
            url : Urls \cup {NoUrl}, id : Ids \cup {NoId},
            file : SUBSET Urls, docs : [Ids -> Docs], unsent : SUBSET Ids]

Idle == [op |-> "none", at |-> "idle", url |-> NoUrl, id |-> NoId,
         file |-> {}, docs |-> NoDocs, unsent |-> {}]

(* What befell an entry: nothing special; it has no content, and the        *)
(* request that would have it fetched was cut off; it has text, which the   *)
(* index has not got, or no longer: see TextIsIndexed; it is gone, and may  *)
(* be in the index, not yet unindexed or indexed since; or gone, and its    *)
(* purge over.                                                              *)
Fates == {"well", "cut", "hidden", "ghost", "purged"}

NoFetch == [at |-> "idle", id |-> NoId, doc |-> NoDoc]
NoRebuild == [kind |-> "none", at |-> "idle", todo |-> NoDocs]

TypeOK ==
    /\ rows \in [Ids -> Row] /\ texts \in 0..MaxTexts
    /\ view \in [Ids -> Docs] /\ disk \in [Ids -> Docs] /\ queue \subseteq Ids
    /\ fetch \in [at : {"idle", "fetching", "saved"}, id : Ids \cup {NoId}, doc : Docs]
    /\ req \in [Requests -> Request]
    /\ rebuild \in [kind : {"none", "restore", "reindex"},
                    at : {"idle", "clear", "commit", "select", "index"},
                    todo : [Ids -> Docs]]
    /\ events \in 0..MaxEvents
    /\ fate \in [Ids -> Fates]

-----------------------------------------------------------------------------
Live == {i \in Ids : rows[i].at = "live"}
Trash == {i \in Ids : rows[i].at = "trash"}
Present == Live \cup Trash

(* ON CONFLICT (user_id, hashed_url): rows in the trash conflict, too.      *)
Owner(u) == {i \in Present : rows[i].url = u}

Blank(i) == i \in Present /\ rows[i].content = "none"

Finish(r) == req' = [req EXCEPT ![r] = Idle]
Goto(r, at) == req' = [req EXCEPT ![r].at = at]

(* After one entry an import turns to the next one of its file.             *)
Continue(r) == IF req[r].op \in {"wallabag", "bookmarks", "export"}
               THEN Goto(r, "next") ELSE Finish(r)

(* The index has not got the text of the row; or a document that is older,  *)
(* or comes from elsewhere, is about to take the place of that text.        *)
Missing(i) == rows[i].text # NoText /\ view[i] # rows[i].text
Overtaken(i, doc) == rows[i].text # NoText /\ view[i] = rows[i].text /\ doc # rows[i].text

(* upsert: delete_term and add_document in the writer's buffer.             *)
Upsert(i, doc) ==
    /\ view' = [view EXCEPT ![i] = doc]
    /\ fate' = [fate EXCEPT ![i] = IF i \notin Present THEN "ghost"
                                   ELSE IF Overtaken(i, doc) THEN "hidden"
                                   ELSE IF @ = "hidden" /\ doc = rows[i].text THEN "well"
                                   ELSE @]

(* UPDATE entries SET content = ..., text_content = ... WHERE id = ...      *)
WriteContent(i, content, text, f) ==
    IF i \in Present
    THEN /\ rows' = [rows EXCEPT ![i].content = content, ![i].text = text]
         /\ fate' = [fate EXCEPT ![i] = f]
    ELSE UNCHANGED <<rows, fate>>

Init ==
    /\ rows = [i \in Ids |-> Unused] /\ texts = 0
    /\ view = NoDocs /\ disk = NoDocs /\ queue = {}
    /\ fetch = NoFetch
    /\ req = [r \in Requests |-> Idle]
    /\ rebuild = NoRebuild
    /\ events = 0
    /\ fate = [i \in Ids |-> "well"]

-----------------------------------------------------------------------------
(* Saving. create_or_get_entry inserts a row unless the URL has one;        *)
(* otherwise it looks that row up, in a statement of its own.               *)

(* What comes after the insertion: a link is fetched; what came with the    *)
(* request is stored, of a bookmark its title, if it has one.               *)
Stages(op) ==
    CASE op = "save" -> {"send"}
      [] op = "link" -> {"promote"}
      [] op \in {"note", "export"} -> {"fill"}
      [] op \in {"wallabag", "bookmarks"} -> {"fill", "send"}

InsertEntry(r, q) ==
    /\ \/ /\ Owner(q.url) # {}
          /\ req' = [req EXCEPT ![r] = [q EXCEPT !.at = "conflict"]]
          /\ UNCHANGED table
       \/ /\ Owner(q.url) = {}
          /\ \E i \in Ids :
                /\ rows[i] = Unused /\ \A j \in 1..(i - 1) : rows[j] # Unused
                /\ rows' = [rows EXCEPT ![i] = [Vacant("live") EXCEPT !.url = q.url]]
                /\ UNCHANGED texts
                /\ \E at \in Stages(q.op) :
                      req' = [req EXCEPT ![r] = [q EXCEPT !.at = at, !.id = i]]
    /\ UNCHANGED <<index, queue, fetch, rebuild, events, fate>>

(* POST /entries, and promote_memo of some memo not promoted before.        *)
SaveUrl(r) ==
    /\ req[r] = Idle /\ "save" \in Ops[r]
    /\ \E u \in Urls : InsertEntry(r, [Idle EXCEPT !.op = "save", !.url = u])

PromoteMemo(r) ==
    /\ req[r] = Idle
    /\ \E u \in Urls, op \in Ops[r] \cap {"link", "note"} :
          InsertEntry(r, [Idle EXCEPT !.op = op, !.url = u])

(* The three imports, entry by entry.                                       *)
OpenFile(r) ==
    /\ req[r] = Idle
    /\ \E op \in Ops[r] \cap {"wallabag", "bookmarks", "export"} :
          req' = [req EXCEPT ![r] = [Idle EXCEPT !.op = op, !.at = "next",
                                                 !.file = Urls]]
    /\ UNCHANGED <<table, index, queue, fetch, rebuild, events, fate>>

ImportNext(r) ==
    /\ req[r].at = "next"
    /\ \E u \in req[r].file :
          InsertEntry(r, [req[r] EXCEPT !.url = u, !.file = @ \ {u}])

ImportDone(r) ==
    /\ req[r].at = "next" /\ req[r].file = {}
    /\ IF req[r].op = "export" THEN Goto(r, "flush") ELSE Finish(r)
    /\ UNCHANGED <<table, index, queue, fetch, rebuild, events, fate>>

(* The SELECT after a conflict wants a row that is not deleted. A memo is   *)
(* promoted to the entry that was there; an import skips it; without a row  *)
(* the request fails.                                                       *)
LookUpExisting(r) ==
    /\ req[r].at = "conflict"
    /\ \/ /\ req[r].op \in {"link", "note"}
          /\ \E i \in Owner(req[r].url) \cap Live, at \in Stages(req[r].op) :
                req' = [req EXCEPT ![r] = [@ EXCEPT !.id = i, !.at = at]]
       \/ /\ req[r].op \notin {"link", "note"} \/ Owner(req[r].url) \cap Live = {}
          /\ Continue(r)
    /\ UNCHANGED <<table, index, queue, fetch, rebuild, events, fate>>

(* update_entry_content with the text of a note or an imported file.        *)
(* Wallabag's has content only, a bookmark neither, an export any of these. *)
Fills(op) ==
    LET full == [content |-> "some", text |-> texts + 1]
        raw == [content |-> "some", text |-> NoText]
        none == [content |-> "none", text |-> NoText]
    IN  CASE op = "note" -> {full}
          [] op = "wallabag" -> {raw}
          [] op = "bookmarks" -> {none}
          [] op = "export" -> {full, raw, none}

(* What is then to be indexed: nothing of a note; wallabag's content as if  *)
(* it were text; the title of a bookmark; the text of an export.            *)
DocOf(op, fill) ==
    CASE op = "note" -> NoDoc
      [] op = "wallabag" -> texts + 1
      [] op \in {"bookmarks", "export"} -> fill.text

(* An export is staged for a fetch if it has no content; the faulty variant *)
(* stages none.                                                             *)
BadStage(i, content) == {}

Stage(i, content) == IF content = "none" THEN {i} ELSE {}

FillIn(r) ==
    /\ req[r].at = "fill" /\ texts < MaxTexts
    /\ LET i == req[r].id
           op == req[r].op
       IN \E fill \in Fills(op) :
            /\ WriteContent(i, fill.content, fill.text,
                            IF op = "note" THEN "hidden" ELSE "well")
            /\ texts' = IF texts + 1 \in {fill.text, DocOf(op, fill)} THEN texts + 1 ELSE texts
            /\ req' = [req EXCEPT ![r] = [req[r] EXCEPT
                  !.at = CASE op = "note" -> "promote"
                           [] op \in {"wallabag", "bookmarks"} -> "index"
                           [] op = "export" -> "next",
                  !.docs[i] = DocOf(op, fill),
                  !.unsent = IF op = "export" THEN @ \cup Stage(i, fill.content) ELSE @]]
    /\ UNCHANGED <<index, queue, fetch, rebuild, events>>

(* memo::set_promoted_entry; the foreign key refuses an entry that is gone. *)
SetPromoted(r) ==
    /\ req[r].at = "promote"
    /\ IF req[r].id \in Present /\ req[r].op = "link" THEN Goto(r, "send")
                                                      ELSE Finish(r)
    /\ UNCHANGED <<table, index, queue, fetch, rebuild, events, fate>>

IndexEntry(r) ==
    /\ req[r].at = "index"
    /\ LET i == req[r].id
       IN  /\ Upsert(i, req[r].docs[i])
           /\ req' = [req EXCEPT ![r] =
                  [@ EXCEPT !.docs[i] = NoDoc,
                            !.at = IF req[r].op = "bookmarks" THEN "send" ELSE "next"]]
    /\ UNCHANGED <<table, disk, queue, fetch, rebuild, events>>

(* FetchQueue::send, whose result is dropped: the foreign key refuses an    *)
(* entry that is gone. refetch_entry ends with it.                          *)
Queue(i) ==
    IF i \in Present
    THEN /\ queue' = queue \cup {i}
         /\ fate' = [fate EXCEPT ![i] = IF @ = "cut" THEN "well" ELSE @]
    ELSE UNCHANGED <<queue, fate>>

Send(r) ==
    /\ req[r].at = "send"
    /\ Queue(req[r].id)
    /\ Continue(r)
    /\ UNCHANGED <<table, index, fetch, rebuild, events>>

(* At its end import_lettura indexes what it staged, then queues fetches.   *)
Staged(r) == {i \in Ids : req[r].docs[i] # NoDoc}

FlushIndex(r) ==
    /\ req[r].at = "flush"
    /\ \E i \in Staged(r) :
          /\ Upsert(i, req[r].docs[i])
          /\ req' = [req EXCEPT ![r] = [@ EXCEPT !.docs[i] = NoDoc]]
    /\ UNCHANGED <<table, disk, queue, fetch, rebuild, events>>

FlushFetches(r) ==
    /\ req[r].at = "flush" /\ Staged(r) = {}
    /\ \/ \E i \in req[r].unsent :
             /\ Queue(i)
             /\ req' = [req EXCEPT ![r] = [req[r] EXCEPT !.unsent = @ \ {i}]]
       \/ req[r].unsent = {} /\ Finish(r) /\ UNCHANGED <<queue, fate>>
    /\ UNCHANGED <<table, index, fetch, rebuild, events>>

(* A statement between the insertion and the send fails. Imports only log   *)
(* that: wallabag's and a bookmark's go on to index what was not stored.    *)
(* Unless it is a bookmark's title, nobody will fetch the entry.            *)
StatementFails(r) ==
    /\ FailingSql
    /\ LET i == req[r].id
           op == req[r].op
       IN \/ /\ \/ req[r].at = "send" /\ op = "save"
                \/ req[r].at = "promote" /\ op = "link"
                \/ req[r].at = "fill" /\ op \in {"note", "export"}
             /\ Continue(r) /\ UNCHANGED texts
             /\ fate' = [fate EXCEPT ![i] = IF Blank(i) THEN "cut" ELSE @]
          \/ /\ req[r].at = "fill" /\ op \in {"wallabag", "bookmarks"} /\ texts < MaxTexts
             /\ \E fill \in Fills(op) :
                   /\ req' = [req EXCEPT ![r] =
                         [@ EXCEPT !.at = "index", !.docs[i] = DocOf(op, fill)]]
                   /\ texts' = IF DocOf(op, fill) = texts + 1 THEN texts + 1 ELSE texts
             /\ fate' = [fate EXCEPT ![i] = IF Blank(i) /\ op = "wallabag" THEN "cut" ELSE @]
    /\ UNCHANGED <<rows, index, queue, fetch, rebuild, events>>

(* axum drops the handler; what the request had still to do is left undone. *)
ToIndex(r) == Staged(r) \cup {i \in Ids : req[r].id = i /\ req[r].at = "reread"}

ToFetch(r) ==
    req[r].unsent \cup
        {i \in Ids :
            /\ req[r].id = i
            /\ \/ req[r].at = "fill"
               \/ req[r].at = "send" /\ req[r].op # "refetch"
               \/ req[r].at = "promote" /\ req[r].op = "link"
               \/ req[r].at = "index" /\ req[r].op = "bookmarks"}

Drop(r) ==
    /\ req[r] # Idle
    /\ fate' = [i \in Ids |->
                   IF i \in ToFetch(r) /\ Blank(i) THEN "cut"
                   ELSE IF i \in ToIndex(r) \cap Live /\ Missing(i) THEN "hidden"
                   ELSE fate[i]]
    /\ Finish(r)
    /\ UNCHANGED <<table, index, queue, fetch, rebuild, events>>

-----------------------------------------------------------------------------
(* The trash.                                                               *)

SetAt(i, at) == rows' = [rows EXCEPT ![i].at = at]

DeleteEntry(r) ==
    /\ req[r] = Idle /\ "delete" \in Ops[r]
    /\ \E i \in Live :
          /\ SetAt(i, "trash")
          /\ req' = [req EXCEPT ![r] = [Idle EXCEPT !.op = "delete",
                                            !.at = "unindex", !.id = i]]
    /\ UNCHANGED <<texts, index, queue, fetch, rebuild, events, fate>>

(* bulk_delete_by_ids is one UPDATE, and leaves the index alone.            *)
BulkDelete(r) ==
    /\ req[r] = Idle /\ "bulk_delete" \in Ops[r]
    /\ \E S \in SUBSET Present \ {{}} :
          rows' = [i \in Ids |-> IF i \in S THEN [rows[i] EXCEPT !.at = "trash"]
                                            ELSE rows[i]]
    /\ UNCHANGED <<texts, index, queue, fetch, req, rebuild, events, fate>>

(* permanently_delete_entry; fetch_jobs cascade. (The faulty variant leaves *)
(* a row with its URL and text behind.)                                     *)
BadErased(row) == [row EXCEPT !.at = "gone"]
Erased(row) == Gone

PurgeEntry(r) ==
    /\ req[r] = Idle /\ "purge" \in Ops[r]
    /\ \E i \in Trash :
          /\ rows' = [rows EXCEPT ![i] = Erased(@)]
          /\ queue' = queue \ {i}
          /\ fate' = [fate EXCEPT ![i] = "ghost"]
          /\ req' = [req EXCEPT ![r] = [Idle EXCEPT !.op = "purge",
                                            !.at = "unindex", !.id = i]]
    /\ UNCHANGED <<texts, index, fetch, rebuild, events>>

(* search_index.delete. If the entry was restored in between, it is live    *)
(* and searches do not find it.                                             *)
Unindex(r) ==
    /\ req[r].at = "unindex"
    /\ view' = [view EXCEPT ![req[r].id] = NoDoc]
    /\ fate' = [fate EXCEPT ![req[r].id] =
                   IF req[r].id \notin Present THEN "well"
                   ELSE IF req[r].id \in Live /\ rows[req[r].id].text # NoText
                        THEN "hidden" ELSE @]
    /\ IF req[r].op = "purge" THEN Goto(r, "commit") ELSE Finish(r)
    /\ UNCHANGED <<table, disk, queue, fetch, rebuild, events>>

(* The purge leaves the commit to the commit loop.                          *)
BadCommitted == disk

Committed == view

CommitPurge(r) ==
    /\ req[r].at = "commit"
    /\ disk' = Committed
    /\ fate' = [fate EXCEPT ![req[r].id] =
                   IF req[r].id \notin Present /\ @ = "well" THEN "purged" ELSE @]
    /\ Finish(r)
    /\ UNCHANGED <<table, view, queue, fetch, rebuild, events>>

RestoreEntry(r) ==
    /\ req[r] = Idle /\ "restore" \in Ops[r]
    /\ \E i \in Trash :
          /\ SetAt(i, "live")
          /\ req' = [req EXCEPT ![r] = [Idle EXCEPT !.op = "restore",
                                            !.at = "reread", !.id = i]]
    /\ UNCHANGED <<texts, index, queue, fetch, rebuild, events, fate>>

(* restore_entry does not index the entry again.                            *)
BadRereadEntry(r) ==
    /\ req[r].at = "reread"
    /\ Finish(r)
    /\ UNCHANGED <<table, index, queue, fetch, rebuild, events, fate>>

RereadEntry(r) ==
    /\ req[r].at = "reread"
    /\ LET i == req[r].id
       IN  IF i \in Live
           THEN req' = [req EXCEPT ![r] = [@ EXCEPT !.at = "reindex", !.docs[i] = rows[i].text]]
           ELSE Finish(r)
    /\ UNCHANGED <<table, index, queue, fetch, rebuild, events, fate>>

ReindexEntry(r) ==
    /\ req[r].at = "reindex"
    /\ Upsert(req[r].id, req[r].docs[req[r].id])
    /\ Finish(r)
    /\ UNCHANGED <<table, disk, queue, fetch, rebuild, events>>

RefetchEntry(r) ==
    /\ req[r] = Idle /\ "refetch" \in Ops[r]
    /\ \E i \in Live : req' = [req EXCEPT ![r] = [Idle EXCEPT !.op = "refetch",
                                                      !.at = "send", !.id = i]]
    /\ UNCHANGED <<table, index, queue, fetch, rebuild, events, fate>>

-----------------------------------------------------------------------------
(* Fetching: process ends in save, or the worker in mark_failed, which      *)
(* erases the content. Neither looks whether the entry is in the trash.     *)

StartFetch ==
    /\ fetch = NoFetch
    /\ \E i \in queue :
          /\ fetch' = [NoFetch EXCEPT !.at = "fetching", !.id = i]
          /\ queue' = queue \ {i}
    /\ UNCHANGED <<table, index, req, rebuild, events, fate>>

SaveText ==
    /\ fetch.at = "fetching" /\ texts < MaxTexts
    /\ texts' = texts + 1
    /\ WriteContent(fetch.id, "some", texts + 1, "well")
    /\ fetch' = [fetch EXCEPT !.at = "saved", !.doc = texts + 1]
    /\ UNCHANGED <<index, queue, req, rebuild, events>>

IndexFetched ==
    /\ fetch.at = "saved"
    /\ Upsert(fetch.id, fetch.doc)
    /\ fetch' = NoFetch
    /\ UNCHANGED <<table, disk, queue, req, rebuild, events>>

FetchFails ==
    /\ fetch.at = "fetching"
    /\ WriteContent(fetch.id, "failed", NoText, "well")
    /\ fetch' = NoFetch
    /\ UNCHANGED <<texts, index, queue, req, rebuild, events>>

-----------------------------------------------------------------------------
(* The index is committed every few seconds; or every commit fails.         *)
BadCommitIndex == UNCHANGED vars

CommitIndex ==
    /\ disk' = view
    /\ UNCHANGED <<table, view, queue, fetch, req, rebuild, events, fate>>

(* The administrator restores some backup, of whatever time or server: one  *)
(* transaction replaces the tables, through which the queue is lost; then   *)
(* the index is rebuilt, but not committed. Backups with trash in them, or  *)
(* with failed fetches, say nothing new and are left out.                   *)
Saved == {row \in [url : Urls, at : {"live"}, text : 0..texts, content : {"none", "some"}] :
             row.content = "none" => row.text = NoText}

Restorable ==
    {backup \in [Ids -> {Unused, Gone} \cup Saved] :
        /\ \A i \in Ids : backup[i] = Unused <=> rows[i] = Unused
        /\ \A i, j \in Ids : backup[i].url = backup[j].url
                                => i = j \/ backup[i].url = NoUrl}

ReplaceTables ==
    /\ rebuild = NoRebuild /\ events < MaxEvents
    /\ events' = events + 1
    /\ rows' \in Restorable
    /\ queue' = {}
    /\ rebuild' = [NoRebuild EXCEPT !.kind = "restore", !.at = "clear"]
    /\ fate' = [i \in Ids |->
                   IF i \in Present' THEN IF rows'[i].content = "none" THEN "cut" ELSE "well"
                   ELSE IF i \in Present THEN "ghost" ELSE fate[i]]
    /\ UNCHANGED <<texts, index, fetch, req>>

(* Or rebuilds the index alone, committing both the clear and the result.   *)
Reindex ==
    /\ rebuild = NoRebuild /\ events < MaxEvents
    /\ events' = events + 1
    /\ rebuild' = [NoRebuild EXCEPT !.kind = "reindex", !.at = "clear"]
    /\ UNCHANGED <<table, index, queue, fetch, req, fate>>

ClearIndex ==
    /\ rebuild.at = "clear"
    /\ view' = NoDocs
    /\ rebuild' = [rebuild EXCEPT !.at = IF rebuild.kind = "reindex" THEN "commit"
                                                                     ELSE "select"]
    /\ UNCHANGED <<table, disk, queue, fetch, req, events, fate>>

CommitClear ==
    /\ rebuild.at = "commit"
    /\ disk' = view
    /\ rebuild' = [rebuild EXCEPT !.at = "select"]
    /\ UNCHANGED <<table, view, queue, fetch, req, events, fate>>

SelectLive ==
    /\ rebuild.at = "select"
    /\ rebuild' = [rebuild EXCEPT !.at = "index",
                     !.todo = [i \in Ids |-> IF i \in Live THEN rows[i].text ELSE NoDoc]]
    /\ UNCHANGED <<table, index, queue, fetch, req, events, fate>>

Unbuilt == {i \in Ids : rebuild.todo[i] # NoDoc}

RebuildIndex ==
    /\ rebuild.at = "index"
    /\ \E i \in Unbuilt :
          /\ Upsert(i, rebuild.todo[i])
          /\ rebuild' = [rebuild EXCEPT !.todo[i] = NoDoc]
    /\ UNCHANGED <<table, disk, queue, fetch, req, events>>

RebuildDone ==
    /\ rebuild.at = "index" /\ Unbuilt = {}
    /\ disk' = IF rebuild.kind = "reindex" THEN view ELSE disk
    /\ rebuild' = NoRebuild
    /\ UNCHANGED <<table, view, queue, fetch, req, events, fate>>

(* Both are requests, too, which axum may drop: the index stays as far as   *)
(* it was rebuilt.                                                          *)
BeingRebuilt(i) == rebuild.at \in {"clear", "commit", "select"} \/ i \in Unbuilt

DropRebuild ==
    /\ rebuild # NoRebuild
    /\ rebuild' = NoRebuild
    /\ fate' = [i \in Ids |-> IF i \in Live /\ BeingRebuilt(i) /\ Missing(i)
                              THEN "hidden" ELSE fate[i]]
    /\ UNCHANGED <<table, index, queue, fetch, req, events>>

(* The process dies and starts anew: the index is what was committed, jobs  *)
(* are leased again, requests and their staged work are lost.               *)
Crash ==
    /\ events < MaxEvents
    /\ events' = events + 1
    /\ view' = disk
    /\ queue' = queue \cup ({fetch.id} \cap Present)
    /\ fetch' = NoFetch
    /\ req' = [r \in Requests |-> Idle]
    /\ rebuild' = NoRebuild
    /\ fate' = [i \in Ids |->
                   IF Blank(i) /\ i \notin queue' THEN "cut"
                   ELSE IF i \in Present /\ rows[i].text \notin {NoText, disk[i]} THEN "hidden"
                   ELSE fate[i]]
    /\ UNCHANGED <<table, disk>>

-----------------------------------------------------------------------------
OpenRequest(r) ==
    \/ SaveUrl(r) \/ PromoteMemo(r) \/ OpenFile(r) \/ DeleteEntry(r)
    \/ BulkDelete(r) \/ PurgeEntry(r) \/ RestoreEntry(r) \/ RefetchEntry(r)

RequestStep(r) ==
    \/ ImportNext(r) \/ ImportDone(r) \/ LookUpExisting(r) \/ FillIn(r)
    \/ SetPromoted(r) \/ IndexEntry(r) \/ Send(r) \/ FlushIndex(r)
    \/ FlushFetches(r) \/ StatementFails(r) \/ Unindex(r) \/ CommitPurge(r)
    \/ RereadEntry(r) \/ ReindexEntry(r)

FetchStep == StartFetch \/ SaveText \/ IndexFetched \/ FetchFails

RebuildStep ==
    ClearIndex \/ CommitClear \/ SelectLive \/ RebuildIndex \/ RebuildDone

Next ==
    \/ \E r \in Requests : OpenRequest(r) \/ RequestStep(r)
    \/ FetchStep \/ CommitIndex
    \/ ReplaceTables \/ Reindex \/ RebuildStep
    \/ (\E r \in Requests : Drop(r)) \/ DropRebuild \/ Crash

(* Requests, fetches and restores that were begun go on, the queue is       *)
(* served (see FetchQueue), and the commit loop ticks.                      *)
Fairness ==
    /\ \A r \in Requests : WF_vars(RequestStep(r))
    /\ WF_vars(FetchStep) /\ WF_vars(RebuildStep) /\ WF_vars(CommitIndex)

Spec == Init /\ [][Next]_vars

FairSpec == Spec /\ Fairness

-----------------------------------------------------------------------------
(* Properties.                                                              *)

(* Entries whose text searches are to find.                                 *)
Findable == {i \in Live : rows[i].text # NoText /\ fate[i] # "hidden"}

(* Someone is about to index the text that entry i has now.                 *)
BeingIndexed(i) ==
    \/ fetch.at = "saved" /\ fetch.id = i /\ fetch.doc = rows[i].text
    \/ rebuild.at \in {"clear", "commit", "select"} \/ rebuild.todo[i] = rows[i].text
    \/ \E r \in Requests :
          \/ req[r].id = i /\ req[r].at = "reread"
          \/ req[r].docs[i] = rows[i].text

(* A live entry that has text is in the index with that text, or about to   *)
(* be, however saves, fetches, deletions and rebuilds interleave. Only this *)
(* keeps it out: a crash before the commit, a deletion or an older text     *)
(* that was overtaken and comes late, the promotion of a note, and the end  *)
(* of the request that had still to index it.                               *)
TextIsIndexed ==
    \A i \in Findable : view[i] = rows[i].text \/ BeingIndexed(i)

(* Someone will fetch entry i.                                              *)
BeingFetched(i) ==
    \/ i \in queue \/ fetch.id = i
    \/ \E r \in Requests :
          \/ req[r].id = i /\ req[r].at \in {"fill", "promote", "index", "send"}
          \/ i \in req[r].unsent

(* An entry without content is queued, being fetched, or the request that   *)
(* made it is still at work. Only a crash, a failing statement, the end of  *)
(* that request when its client goes, and an administrator's restore leave  *)
(* one behind that nobody will fetch.                                       *)
NoEntryForgotten == \A i \in Ids : Blank(i) /\ fate[i] # "cut" => BeingFetched(i)

(* Once its purge is over the document of an entry is not on disk, whatever *)
(* is committed or lost later, unless a fetch, an import or a rebuild that  *)
(* was under way wrote it back: "commit immediately so a stale doc pointing *)
(* at a deleted entry can never surface". (A purge whose handler is dropped *)
(* before that commit is never over.)                                       *)
PurgeReachesDisk == \A i \in Ids : disk[i] # NoDoc => fate[i] # "purged"

(* What searches read, the committed index, comes to have the text of every *)
(* entry as it is then, however its request, its fetch and the rebuilds go: *)
(* "documents become searchable within this window after a write".          *)
TextReachesDisk ==
    \A i \in Ids : i \in Findable ~> (i \notin Findable \/ disk[i] = rows[i].text)
=============================================================================
