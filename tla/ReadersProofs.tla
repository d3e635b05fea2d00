--------------------------- MODULE ReadersProofs ---------------------------
(***************************************************************************)
(* What is proved of Readers, for every number of users, entries, tags,     *)
(* filters, requests and statements: its type and references, that flags    *)
(* and their times agree, that a walk through the pages of a list misses    *)
(* and repeats nothing, that the references of a file resolve in it, and    *)
(* that a restore brings the tables of a quiet backup back.                 *)
(***************************************************************************)
EXTENDS Readers, TLAPS, FiniteSetTheorems

-----------------------------------------------------------------------------
(* The tables. What holds of db is stated of any database d, since a file   *)
(* keeps the one its backup began with.                                     *)

PresentIn(d) == {i \in Ids : d.entries[i].at \in {"live", "trash"}}

DbTyped(d) ==
    /\ d \in Database
    /\ d.links \subseteq PresentIn(d) \X d.tags
    /\ d.notes \subseteq PresentIn(d) /\ d.promoted \subseteq PresentIn(d)
    /\ d.rules \subseteq d.users /\ d.sites \subseteq d.users

(* Everything has its user, and a link joins an entry and a tag of the same *)
(* one.                                                                     *)
DbOwned(d) ==
    /\ \A i \in PresentIn(d) : Owner[i] \in d.users
    /\ \A t \in d.tags : Owner[t] \in d.users
    /\ \A l \in d.links : Owner[l[1]] = Owner[l[2]]

DbAgrees(d) == \A i \in Ids : Agrees(d.entries[i])

DbOK(d) == DbTyped(d) /\ DbOwned(d) /\ DbAgrees(d)

(* A PATCH holds a row whose flags and times agreed when it was read.       *)
RequestAgrees(q) == q.op = "patch" => Agrees(q.held)

RequestsOK ==
    /\ req \in [Requests -> Request]
    /\ \A r \in Requests : RequestAgrees(req[r])

-----------------------------------------------------------------------------
(* The tables of a file.                                                    *)

EntryRows == [id : Ids, row : Row]

Cells == Users \cup EntryRows \cup Tags \cup (Ids \X Tags) \cup Ids

Copies == [TableNames -> SUBSET Cells]

CopyTyped(f) ==
    /\ f \in Copies
    /\ f["users"] \subseteq Users /\ f["entries"] \subseteq EntryRows
    /\ f["tags"] \subseteq Tags /\ f["links"] \subseteq Ids \X Tags
    /\ f["notes"] \subseteq Ids /\ f["promoted"] \subseteq Ids
    /\ f["rules"] \subseteq Users /\ f["sites"] \subseteq Users

(* Its rows are rows of entries that were there, one for each id.           *)
CopySound(f) ==
    /\ \A e \in f["entries"] : e.row.at \in {"live", "trash"} /\ Agrees(e.row)
    /\ \A e, g \in f["entries"] : e.id = g.id => e = g
    /\ \A l \in f["links"] : Owner[l[1]] = Owner[l[2]]

(* The tables still to be read.                                             *)
Left(at) ==
    {t \in TableNames :
        \/ at = "users"
        \/ at = "entries" /\ t # "users"
        \/ at = "tags" /\ t \notin {"users", "entries"}
        \/ at = "links" /\ t \notin {"users", "entries", "tags"}
        \/ at = "notes" /\ t \in {"notes", "promoted", "rules", "sites"}
        \/ at = "promoted" /\ t \in {"promoted", "rules", "sites"}
        \/ at = "rules" /\ t \in {"rules", "sites"}
        \/ at = "sites" /\ t = "sites"}

Writing == [at : TableNames \cup {"end"}, kind : {"backup", "export"},
            user : Users \cup {Nobody}, scope : Scopes \cup {"all"},
            tables : Copies, was : Database, torn : BOOLEAN]

BackupTyped ==
    \/ backup = NoBackup
    \/ /\ backup \in Writing /\ CopyTyped(backup.tables) /\ CopySound(backup.tables)
       /\ \A t \in Left(backup.at) : backup.tables[t] = {}
       /\ backup.kind = "export" => backup.tables["users"] = {} /\ backup.at # "users"

Files == [kind : {"backup", "export"}, tables : Copies, was : Database, torn : BOOLEAN,
          quiet : BOOLEAN, added : BOOLEAN]

FileTyped ==
    \/ file = NoFile
    \/ file \in Files /\ CopyTyped(file.tables) /\ CopySound(file.tables)

WatchTyped == watch \in [quiet : BOOLEAN, added : BOOLEAN]

TablesInv ==
    /\ DbOK(db) /\ events \in 0 .. MaxEvents /\ RequestsOK
    /\ BackupTyped /\ FileTyped /\ WatchTyped

-----------------------------------------------------------------------------
(* What a backup or an export has read so far.                              *)

(* What has been read covers what is in d.                                  *)
Covers(f, at, d) ==
    /\ "users" \notin Left(at) => d.users \subseteq f["users"]
    /\ "entries" \notin Left(at) => PresentIn(d) \subseteq IdsIn(f)
    /\ "tags" \notin Left(at) => d.tags \subseteq f["tags"]

(* An export has entries of its user, what refers to them, and the tags of  *)
(* the user unless one was added.                                           *)
ExportOK(f, at, u, d, added) ==
    /\ \A i \in IdsIn(f) : Owner[i] = u
    /\ \A l \in f["links"] : l[1] \in IdsIn(f)
    /\ f["notes"] \subseteq IdsIn(f)
    /\ ~added /\ "tags" \notin Left(at) => \A t \in d.tags : Owner[t] = u => t \in f["tags"]
    /\ ~added => \A l \in f["links"] : l[2] \in f["tags"]

(* The tables of a file are those of d.                                     *)
CopyOf(f, d, at) ==
    /\ "users" \notin Left(at) => f["users"] = d.users
    /\ "entries" \notin Left(at) =>
           f["entries"] = {[id |-> i, row |-> d.entries[i]] : i \in PresentIn(d)}
    /\ "tags" \notin Left(at) => f["tags"] = d.tags
    /\ "links" \notin Left(at) => f["links"] = d.links
    /\ "notes" \notin Left(at) => f["notes"] = d.notes
    /\ "promoted" \notin Left(at) => f["promoted"] = d.promoted
    /\ "rules" \notin Left(at) => f["rules"] = d.rules
    /\ "sites" \notin Left(at) => f["sites"] = d.sites

(* Backup b, of the tables d, where w happened since it began.              *)
BackupHolds(b, d, w) ==
    /\ b.kind = "backup" /\ ~w.added /\ ~b.torn =>
         Resolves(b.tables) /\ Covers(b.tables, b.at, d)
    /\ b.kind = "backup" /\ w.quiet /\ ~b.torn => d = b.was /\ CopyOf(b.tables, b.was, b.at)
    /\ b.kind = "export" => ExportOK(b.tables, b.at, b.user, d, w.added)

BackupInv == backup.at # "idle" => BackupHolds(backup, db, watch)

FileInv ==
    /\ FileIsClosed
    /\ file.kind = "backup" /\ file.quiet /\ ~file.torn => CopyOf(file.tables, file.was, "end")

-----------------------------------------------------------------------------
(* How far a walk has come.                                                 *)

IsBeyond(i, c) == c.at = "start" \/ Before(c.created, c.id, Created[i], i)

Rank(S, i) == Cardinality(Ahead(S, i))

(* What a client knows of a walk w, of which entries K match all along, out *)
(* of those that match now, M.                                              *)
CursorHolds(w, K, M) ==
    /\ \A i \in Ids : w.seen[i] <= 1
    /\ w.at = "next" => \A i \in Ids : IsBeyond(i, w.cursor) => w.seen[i] = 0
    /\ w.at = "next" => K \subseteq M
    /\ \A i \in K : w.at = "done" \/ ~IsBeyond(i, w.cursor) => w.seen[i] = 1

PageHolds(w, K, M) ==
    /\ w.at = "next" =>
         \/ K = {}
         \/ /\ K = M
            /\ \A i \in K :
                  w.seen[i] = IF Rank(K, i) < (w.page - 1) * PerPage THEN 1 ELSE 0
    /\ w.at = "done" => \A i \in K : w.seen[i] = 1

WalkHolds(w, K, M) ==
    /\ w \in Walk /\ K \subseteq Ids
    /\ w.at # "idle" /\ w.mode = "cursor" => CursorHolds(w, K, M)
    /\ w.at # "idle" /\ w.mode = "page" => PageHolds(w, K, M)

WalkInv == WalkHolds(walk, steady, Matching)

ReadersInv == TablesInv /\ BackupInv /\ FileInv /\ WalkInv

-----------------------------------------------------------------------------
(* Lemmas from here on. The statements of other requests.                   *)

(* Rows of entries.                                                         *)
LEMMA RowFits ==
    /\ \A at \in {"unused", "live", "trash", "gone"} :
          Blank(at) \in Row /\ Blank(at).at = at /\ Agrees(Blank(at))
    /\ \A w \in Row, at \in {"unused", "live", "trash", "gone"} :
          LET n == [w EXCEPT !.at = at] IN
          n \in Row /\ n.at = at /\ (Agrees(w) => Agrees(n))
BY DEF Blank, Row, Agrees

(* Entries are those of db.                                                 *)
LEMMA PresentIsPresent == Present = PresentIn(db)
BY DEF Present, PresentIn, Live, Trash

(* A database in which only one table of users, tags or links of others     *)
(* changes.                                                                 *)
LEMMA TableFits ==
    ASSUME NEW d \in Database
    PROVE  /\ \A x \in SUBSET Users : LET n == [d EXCEPT !.users = x] IN
                 /\ n \in Database /\ n.users = x /\ n.entries = d.entries /\ n.tags = d.tags
                 /\ n.links = d.links /\ n.notes = d.notes /\ n.promoted = d.promoted
                 /\ n.rules = d.rules /\ n.sites = d.sites
           /\ \A x \in SUBSET Users : LET n == [d EXCEPT !.rules = x] IN
                 /\ n \in Database /\ n.users = d.users /\ n.entries = d.entries /\ n.tags = d.tags
                 /\ n.links = d.links /\ n.notes = d.notes /\ n.promoted = d.promoted
                 /\ n.rules = x /\ n.sites = d.sites
           /\ \A x \in SUBSET Users : LET n == [d EXCEPT !.sites = x] IN
                 /\ n \in Database /\ n.users = d.users /\ n.entries = d.entries /\ n.tags = d.tags
                 /\ n.links = d.links /\ n.notes = d.notes /\ n.promoted = d.promoted
                 /\ n.rules = d.rules /\ n.sites = x
           /\ \A x \in SUBSET Users : LET n == [d EXCEPT !.pages = x] IN
                 /\ n \in Database /\ n.users = d.users /\ n.entries = d.entries /\ n.tags = d.tags
                 /\ n.links = d.links /\ n.notes = d.notes /\ n.promoted = d.promoted
                 /\ n.rules = d.rules /\ n.sites = d.sites
           /\ \A x \in SUBSET Ids : LET n == [d EXCEPT !.notes = x] IN
                 /\ n \in Database /\ n.users = d.users /\ n.entries = d.entries /\ n.tags = d.tags
                 /\ n.links = d.links /\ n.notes = x /\ n.promoted = d.promoted
                 /\ n.rules = d.rules /\ n.sites = d.sites
           /\ \A x \in SUBSET Ids : LET n == [d EXCEPT !.promoted = x] IN
                 /\ n \in Database /\ n.users = d.users /\ n.entries = d.entries /\ n.tags = d.tags
                 /\ n.links = d.links /\ n.notes = d.notes /\ n.promoted = x
                 /\ n.rules = d.rules /\ n.sites = d.sites
           /\ \A x \in SUBSET Tags : LET n == [d EXCEPT !.tags = x] IN
                 /\ n \in Database /\ n.users = d.users /\ n.entries = d.entries /\ n.tags = x
                 /\ n.links = d.links /\ n.notes = d.notes /\ n.promoted = d.promoted
                 /\ n.rules = d.rules /\ n.sites = d.sites
           /\ \A x \in SUBSET (Ids \X Tags) : LET n == [d EXCEPT !.links = x] IN
                 /\ n \in Database /\ n.users = d.users /\ n.entries = d.entries /\ n.tags = d.tags
                 /\ n.links = x /\ n.notes = d.notes /\ n.promoted = d.promoted
                 /\ n.rules = d.rules /\ n.sites = d.sites
BY DEF Database

(* A database in which rows of entries change.                              *)
WithEntries(d, x) == [d EXCEPT !.entries = x]

(* The rest stays.                                                          *)
LEMMA EntriesFit ==
    ASSUME NEW d \in Database, NEW x \in [Ids -> Row], NEW n, n = WithEntries(d, x)
    PROVE  /\ n \in Database /\ n.users = d.users /\ n.entries = x /\ n.tags = d.tags
           /\ n.links = d.links /\ n.notes = d.notes /\ n.promoted = d.promoted
           /\ n.rules = d.rules /\ n.sites = d.sites
BY DEF Database, WithEntries

(* No entry comes or goes.                                                  *)
LEMMA SameEntriesOK ==
    ASSUME NEW d, DbOK(d), NEW n, n \in Database, n.entries = d.entries,
           n.links \subseteq d.links, n.notes \subseteq PresentIn(d),
           n.promoted \subseteq PresentIn(d), n.rules \subseteq n.users,
           n.sites \subseteq n.users, d.users \subseteq n.users,
           n.links \subseteq Ids \X n.tags, \A t \in n.tags : Owner[t] \in n.users
    PROVE  DbOK(n)
<1>1. PresentIn(n) = PresentIn(d)
  BY DEF PresentIn
<1>2. n.links \subseteq PresentIn(n) \X n.tags
  BY <1>1 DEF DbOK, DbTyped
<1>3. DbTyped(n)
  BY <1>1, <1>2 DEF DbTyped
<1>4. DbOwned(n)
  BY <1>1 DEF DbOK, DbOwned
<1>5. DbAgrees(n)
  BY DEF DbOK, DbAgrees
<1> QED BY <1>3, <1>4, <1>5 DEF DbOK

(* Rows change, but no entry goes; one that comes has its user.             *)
LEMMA MoreEntriesOK ==
    ASSUME NEW d, DbOK(d), NEW n, n \in Database, PresentIn(d) \subseteq PresentIn(n),
           n.links = d.links, n.notes = d.notes, n.promoted = d.promoted, n.rules = d.rules,
           n.sites = d.sites, n.users = d.users, n.tags = d.tags,
           \A i \in PresentIn(n) : Owner[i] \in d.users, DbAgrees(n)
    PROVE  DbOK(n)
<1>1. DbTyped(n)
  BY DEF DbOK, DbTyped
<1>2. DbOwned(n)
  BY DEF DbOK, DbOwned
<1> QED BY <1>1, <1>2 DEF DbOK

(* What changes the users, their rules and pages.                           *)
LEMMA UserStepsOK ==
    ASSUME DbOK(db), NEW u \in Users,
           \/ Register(u) \/ PublishPage(u) \/ CreateRule(u) \/ DeleteRule(u)
           \/ CreateSiteRule(u) \/ DeleteSiteRule(u)
    PROVE  DbOK(db')
<1>1. PICK d : d = db
  OBVIOUS
<1>2. PICK n : n = db'
  OBVIOUS
<1>3. d \in Database /\ DbOK(d)
  BY <1>1 DEF DbOK, DbTyped, DbOwned, DbAgrees, PresentIn
<1>4. /\ d.users \in SUBSET Users /\ d.rules \in SUBSET Users /\ d.sites \in SUBSET Users
      /\ d.pages \in SUBSET Users
  BY <1>3 DEF Database
<1>5. \/ n = [d EXCEPT !.users = @ \cup {u}] \/ n = [d EXCEPT !.pages = @ \cup {u}]
      \/ n = [d EXCEPT !.rules = @ \cup {u}] /\ u \in d.users
      \/ n = [d EXCEPT !.rules = @ \ {u}]
      \/ n = [d EXCEPT !.sites = @ \cup {u}] /\ u \in d.users
      \/ n = [d EXCEPT !.sites = @ \ {u}]
  BY <1>1, <1>2 DEF Register, PublishPage, CreateRule, DeleteRule, CreateSiteRule,
     DeleteSiteRule, Change
<1>6. /\ n \in Database /\ n.entries = d.entries /\ n.tags = d.tags /\ n.links = d.links
      /\ n.notes = d.notes /\ n.promoted = d.promoted /\ d.users \subseteq n.users
      /\ n.rules \subseteq d.rules \/ (u \in d.users /\ n.rules = d.rules \cup {u})
      /\ n.sites \subseteq d.sites \/ (u \in d.users /\ n.sites = d.sites \cup {u})
  <2>1. CASE n = [d EXCEPT !.users = @ \cup {u}]
    <3>1. d.users \cup {u} \in SUBSET Users
      BY <1>4
    <3> QED BY <1>3, <2>1, <3>1, TableFits
  <2>2. CASE n = [d EXCEPT !.pages = @ \cup {u}]
    <3>1. d.pages \cup {u} \in SUBSET Users
      BY <1>4
    <3> QED BY <1>3, <2>2, <3>1, TableFits
  <2>3. CASE n = [d EXCEPT !.rules = @ \cup {u}] /\ u \in d.users
    <3>1. d.rules \cup {u} \in SUBSET Users
      BY <1>4
    <3> QED BY <1>3, <2>3, <3>1, TableFits
  <2>4. CASE n = [d EXCEPT !.rules = @ \ {u}]
    <3>1. d.rules \ {u} \in SUBSET Users
      BY <1>4
    <3> QED BY <1>3, <2>4, <3>1, TableFits
  <2>5. CASE n = [d EXCEPT !.sites = @ \cup {u}] /\ u \in d.users
    <3>1. d.sites \cup {u} \in SUBSET Users
      BY <1>4
    <3> QED BY <1>3, <2>5, <3>1, TableFits
  <2>6. CASE n = [d EXCEPT !.sites = @ \ {u}]
    <3>1. d.sites \ {u} \in SUBSET Users
      BY <1>4
    <3> QED BY <1>3, <2>6, <3>1, TableFits
  <2> QED BY <1>5, <2>1, <2>2, <2>3, <2>4, <2>5, <2>6
<1>7. /\ d.links \subseteq PresentIn(d) \X d.tags /\ d.notes \subseteq PresentIn(d)
      /\ d.promoted \subseteq PresentIn(d) /\ d.rules \subseteq d.users
      /\ d.sites \subseteq d.users /\ \A t \in d.tags : Owner[t] \in d.users
  BY <1>3 DEF DbOK, DbTyped, DbOwned
<1>8. d.links \subseteq Ids \X d.tags
  BY <1>7 DEF PresentIn
<1>9. DbOK(n)
  BY <1>3, <1>6, <1>7, <1>8, SameEntriesOK
<1> QED BY <1>2, <1>9

(* What changes the notes and promoted memos of an entry.                   *)
LEMMA NoteStepsOK ==
    ASSUME DbOK(db), NEW i \in Ids,
           \/ Annotate(i) \/ ImportAnnotation(i) \/ DeleteAnnotation(i)
           \/ SetPromoted(i) \/ DeleteMemo(i)
    PROVE  DbOK(db')
<1>1. PICK d : d = db
  OBVIOUS
<1>2. PICK n : n = db'
  OBVIOUS
<1>3. d \in Database /\ DbOK(d)
  BY <1>1 DEF DbOK, DbTyped, DbOwned, DbAgrees, PresentIn
<1>4. /\ d.notes \in SUBSET Ids /\ d.promoted \in SUBSET Ids
  BY <1>3 DEF Database
<1>5. \/ n = [d EXCEPT !.notes = @ \cup {i}] /\ i \in PresentIn(d)
      \/ n = [d EXCEPT !.notes = @ \ {i}]
      \/ n = [d EXCEPT !.promoted = @ \cup {i}] /\ i \in PresentIn(d)
      \/ n = [d EXCEPT !.promoted = @ \ {i}]
  BY <1>1, <1>2 DEF Annotate, ImportAnnotation, DeleteAnnotation, SetPromoted, DeleteMemo,
     Change, Present, Live, Trash, PresentIn
<1>6. /\ n \in Database /\ n.entries = d.entries /\ n.tags = d.tags /\ n.links = d.links
      /\ n.users = d.users /\ n.rules = d.rules /\ n.sites = d.sites
      /\ n.notes \subseteq d.notes \/ (i \in PresentIn(d) /\ n.notes = d.notes \cup {i})
      /\ n.promoted \subseteq d.promoted
         \/ (i \in PresentIn(d) /\ n.promoted = d.promoted \cup {i})
  <2>1. CASE n = [d EXCEPT !.notes = @ \cup {i}] /\ i \in PresentIn(d)
    <3>1. d.notes \cup {i} \in SUBSET Ids
      BY <1>4
    <3> QED BY <1>3, <2>1, <3>1, TableFits
  <2>2. CASE n = [d EXCEPT !.notes = @ \ {i}]
    <3>1. d.notes \ {i} \in SUBSET Ids
      BY <1>4
    <3> QED BY <1>3, <2>2, <3>1, TableFits
  <2>3. CASE n = [d EXCEPT !.promoted = @ \cup {i}] /\ i \in PresentIn(d)
    <3>1. d.promoted \cup {i} \in SUBSET Ids
      BY <1>4
    <3> QED BY <1>3, <2>3, <3>1, TableFits
  <2>4. CASE n = [d EXCEPT !.promoted = @ \ {i}]
    <3>1. d.promoted \ {i} \in SUBSET Ids
      BY <1>4
    <3> QED BY <1>3, <2>4, <3>1, TableFits
  <2> QED BY <1>5, <2>1, <2>2, <2>3, <2>4
<1>7. /\ d.links \subseteq PresentIn(d) \X d.tags /\ d.notes \subseteq PresentIn(d)
      /\ d.promoted \subseteq PresentIn(d) /\ d.rules \subseteq d.users
      /\ d.sites \subseteq d.users /\ \A t \in d.tags : Owner[t] \in d.users
  BY <1>3 DEF DbOK, DbTyped, DbOwned
<1>8. d.links \subseteq Ids \X d.tags
  BY <1>7 DEF PresentIn
<1>9. DbOK(n)
  BY <1>3, <1>6, <1>7, <1>8, SameEntriesOK
<1> QED BY <1>2, <1>9

(* What changes the tags and links.                                         *)
LEMMA TagStepsOK ==
    ASSUME DbOK(db), NEW t \in Tags, NEW i,
           CreateTag(t) \/ DeleteTag(t) \/ LinkTag(i, t) \/ UnlinkTag(i, t)
    PROVE  DbOK(db')
<1>1. PICK d : d = db
  OBVIOUS
<1>2. PICK n : n = db'
  OBVIOUS
<1>3. d \in Database /\ DbOK(d)
  BY <1>1 DEF DbOK, DbTyped, DbOwned, DbAgrees, PresentIn
<1>4. d.tags \in SUBSET Tags /\ d.links \in SUBSET (Ids \X Tags)
  BY <1>3 DEF Database
<1>5. \/ n = [d EXCEPT !.tags = @ \cup {t}] /\ Owner[t] \in d.users
      \/ n = [d EXCEPT !.tags = @ \ {t}, !.links = {l \in @ : l[2] # t}]
      \/ /\ n = [d EXCEPT !.links = @ \cup {<<i, t>>}]
         /\ i \in PresentIn(d) /\ t \in d.tags /\ Owner[i] = Owner[t]
      \/ n = [d EXCEPT !.links = @ \ {<<i, t>>}]
      \/ n = d
  BY <1>1, <1>2 DEF CreateTag, DeleteTag, LinkTag, UnlinkTag,
     Change, Present, Live, Trash, PresentIn
<1>6. /\ d.links \subseteq PresentIn(d) \X d.tags /\ d.notes \subseteq PresentIn(d)
      /\ d.promoted \subseteq PresentIn(d) /\ d.rules \subseteq d.users
      /\ d.sites \subseteq d.users /\ \A x \in d.tags : Owner[x] \in d.users
      /\ \A l \in d.links : Owner[l[1]] = Owner[l[2]]
      /\ \A x \in PresentIn(d) : Owner[x] \in d.users
  BY <1>3 DEF DbOK, DbTyped, DbOwned
<1>7. d.links \subseteq Ids \X d.tags
  BY <1>6 DEF PresentIn
<1>8. CASE n = [d EXCEPT !.tags = @ \cup {t}] /\ Owner[t] \in d.users
  <2>1. d.tags \cup {t} \in SUBSET Tags
    BY <1>4
  <2>2. /\ n \in Database /\ n.entries = d.entries /\ n.tags = d.tags \cup {t}
        /\ n.links = d.links /\ n.users = d.users /\ n.rules = d.rules /\ n.sites = d.sites
        /\ n.notes = d.notes /\ n.promoted = d.promoted
    BY <1>3, <1>8, <2>1, TableFits
  <2>3. /\ n.links \subseteq Ids \X n.tags /\ d.users \subseteq n.users
        /\ n.rules \subseteq n.users /\ n.sites \subseteq n.users
        /\ \A x \in n.tags : Owner[x] \in n.users
    BY <1>6, <1>7, <1>8, <2>2
  <2>4. DbOK(n)
    BY <1>3, <1>6, <2>2, <2>3, SameEntriesOK
  <2> QED BY <1>2, <2>4
<1>9. CASE n = [d EXCEPT !.tags = @ \ {t}, !.links = {l \in @ : l[2] # t}]
  <2>1. PICK m : m = [d EXCEPT !.tags = d.tags \ {t}]
    OBVIOUS
  <2>2. d.tags \ {t} \in SUBSET Tags
    BY <1>4
  <2>3. /\ m \in Database /\ m.entries = d.entries /\ m.tags = d.tags \ {t}
        /\ m.links = d.links /\ m.users = d.users /\ m.rules = d.rules /\ m.sites = d.sites
        /\ m.notes = d.notes /\ m.promoted = d.promoted
    BY <1>3, <2>1, <2>2, TableFits
  <2>4. PICK x : x = {l \in d.links : l[2] # t}
    OBVIOUS
  <2>5. x \in SUBSET (Ids \X Tags) /\ x \subseteq d.links /\ x \subseteq Ids \X (d.tags \ {t})
    BY <1>4, <1>7, <2>4
  <2>6. n = [m EXCEPT !.links = x]
    BY <1>3, <1>9, <2>1, <2>4 DEF Database
  <2>7. /\ n \in Database /\ n.entries = d.entries /\ n.tags = d.tags \ {t}
        /\ n.links = x /\ n.users = d.users /\ n.rules = d.rules /\ n.sites = d.sites
        /\ n.notes = d.notes /\ n.promoted = d.promoted
    BY <2>3, <2>5, <2>6, TableFits
  <2>8. DbOK(n)
    BY <1>3, <1>6, <2>5, <2>7, SameEntriesOK
  <2> QED BY <1>2, <2>8
<1>10. CASE /\ n = [d EXCEPT !.links = @ \cup {<<i, t>>}]
            /\ i \in PresentIn(d) /\ t \in d.tags /\ Owner[i] = Owner[t]
  <2>1. d.links \cup {<<i, t>>} \in SUBSET (Ids \X Tags)
    BY <1>4, <1>10 DEF PresentIn
  <2>2. /\ n \in Database /\ n.entries = d.entries /\ n.tags = d.tags
        /\ n.links = d.links \cup {<<i, t>>} /\ n.users = d.users /\ n.rules = d.rules
        /\ n.sites = d.sites /\ n.notes = d.notes /\ n.promoted = d.promoted
    BY <1>3, <1>10, <2>1, TableFits
  <2>3. PresentIn(n) = PresentIn(d)
    BY <2>2 DEF PresentIn
  <2>4. n.links \subseteq PresentIn(n) \X n.tags
    BY <1>6, <1>10, <2>2, <2>3
  <2>5. DbTyped(n)
    BY <1>6, <2>2, <2>3, <2>4 DEF DbTyped
  <2>6. DbAgrees(n)
    BY <1>3, <2>2 DEF DbOK, DbAgrees
  <2>7. DbOwned(n)
    BY <1>6, <1>10, <2>2, <2>3 DEF DbOwned
  <2> QED BY <1>2, <2>5, <2>6, <2>7 DEF DbOK
<1>11. CASE n = [d EXCEPT !.links = @ \ {<<i, t>>}]
  <2>1. d.links \ {<<i, t>>} \in SUBSET (Ids \X Tags)
    BY <1>4
  <2>2. /\ n \in Database /\ n.entries = d.entries /\ n.tags = d.tags
        /\ n.links = d.links \ {<<i, t>>} /\ n.users = d.users /\ n.rules = d.rules
        /\ n.sites = d.sites /\ n.notes = d.notes /\ n.promoted = d.promoted
    BY <1>3, <1>11, <2>1, TableFits
  <2>3. DbOK(n)
    BY <1>3, <1>6, <1>7, <2>2, SameEntriesOK
  <2> QED BY <1>2, <2>3
<1>12. CASE n = d
  BY <1>2, <1>3, <1>12
<1> QED BY <1>5, <1>8, <1>9, <1>10, <1>11, <1>12

(* Rows change so that no entry goes and one that comes has its user.       *)
LEMMA RowsChangeOK ==
    ASSUME NEW d, DbOK(d), NEW x \in [Ids -> Row],
           \A i \in Ids : Agrees(x[i]),
           \A i \in PresentIn(d) : x[i].at \in {"live", "trash"},
           \A i \in Ids : x[i].at \in {"live", "trash"} => Owner[i] \in d.users,
           NEW n, n = WithEntries(d, x)
    PROVE  DbOK(n)
<1>1. d \in Database
  BY DEF DbOK, DbTyped
<1>2. /\ n \in Database /\ n.users = d.users /\ n.entries = x /\ n.tags = d.tags
      /\ n.links = d.links /\ n.notes = d.notes /\ n.promoted = d.promoted
      /\ n.rules = d.rules /\ n.sites = d.sites
  BY <1>1, EntriesFit
<1>3. PresentIn(d) \subseteq PresentIn(n) /\ \A i \in PresentIn(n) : Owner[i] \in d.users
  BY <1>2 DEF PresentIn
<1>4. DbAgrees(n)
  BY <1>2 DEF DbAgrees
<1> QED BY <1>2, <1>3, <1>4, MoreEntriesOK

(* One row changes.                                                         *)
LEMMA RowChangeOK ==
    ASSUME NEW d, DbOK(d), NEW i \in Ids, NEW w \in Row, Agrees(w),
           i \in PresentIn(d) => w.at \in {"live", "trash"},
           w.at \in {"live", "trash"} => Owner[i] \in d.users,
           NEW n, n = WithEntries(d, [d.entries EXCEPT ![i] = w])
    PROVE  DbOK(n)
<1>1. PICK x : x = [d.entries EXCEPT ![i] = w]
  OBVIOUS
<1>2. d \in Database
  BY DEF DbOK, DbTyped
<1>3. d.entries \in [Ids -> Row]
  BY <1>2 DEF Database
<1>4. x \in [Ids -> Row] /\ x[i] = w /\ \A j \in Ids \ {i} : x[j] = d.entries[j]
  BY <1>1, <1>3
<1>5. \A j \in Ids : Agrees(x[j])
  BY <1>4 DEF DbOK, DbAgrees
<1>6. \A j \in PresentIn(d) : x[j].at \in {"live", "trash"}
  BY <1>4 DEF PresentIn
<1>7. \A j \in Ids : x[j].at \in {"live", "trash"} => Owner[j] \in d.users
  BY <1>4 DEF DbOK, DbOwned, PresentIn
<1>8. n = WithEntries(d, x)
  BY <1>1
<1> QED BY <1>4, <1>5, <1>6, <1>7, <1>8, RowsChangeOK

(* An entry goes, and all that refers to it.                                *)
LEMMA PurgeOK ==
    ASSUME NEW d, DbOK(d), NEW i \in Ids,
           NEW n, n = [d EXCEPT !.entries[i] = Blank("gone"), !.links = {l \in @ : l[1] # i},
                                !.notes = @ \ {i}, !.promoted = @ \ {i}]
    PROVE  DbOK(n)
<1>1. /\ d \in Database /\ d.links \subseteq PresentIn(d) \X d.tags
      /\ d.notes \subseteq PresentIn(d)
      /\ d.promoted \subseteq PresentIn(d) /\ d.rules \subseteq d.users
      /\ d.sites \subseteq d.users
  BY DEF DbOK, DbTyped
<1>2. d.entries \in [Ids -> Row]
  BY <1>1 DEF Database
<1>3. PICK x : x = [d.entries EXCEPT ![i] = Blank("gone")]
  OBVIOUS
<1>4. /\ x \in [Ids -> Row] /\ x[i] = Blank("gone")
      /\ \A j \in Ids \ {i} : x[j] = d.entries[j]
  BY <1>2, <1>3, RowFits
<1>5. PICK y : y = {l \in d.links : l[1] # i}
  OBVIOUS
<1>6. PICK a, b : a = d.notes \ {i} /\ b = d.promoted \ {i}
  OBVIOUS
<1>7. /\ y \in SUBSET (Ids \X Tags) /\ a \in SUBSET Ids /\ b \in SUBSET Ids
      /\ y \subseteq d.links
  <2>1. d \in Database
    BY <1>1
  <2> QED BY <1>5, <1>6, <2>1 DEF Database
<1>8. /\ n \in Database /\ n.users = d.users /\ n.entries = x /\ n.tags = d.tags
      /\ n.links = y /\ n.notes = a /\ n.promoted = b
      /\ n.rules = d.rules /\ n.sites = d.sites
  <2>1. n = [d EXCEPT !.entries = x, !.links = y, !.notes = a, !.promoted = b]
    BY <1>3, <1>5, <1>6
  <2>2. d \in Database
    BY <1>1
  <2> QED BY <1>4, <1>7, <2>1, <2>2 DEF Database
<1>9. x[i].at = "gone" /\ Agrees(x[i])
  BY <1>4, RowFits
<1>10. PresentIn(n) = PresentIn(d) \ {i}
  BY <1>4, <1>8, <1>9 DEF PresentIn
<1>11. n.links \subseteq PresentIn(n) \X n.tags
  <2> SUFFICES ASSUME NEW l \in y
               PROVE  l \in PresentIn(n) \X n.tags
    BY <1>8
  <2>1. l \in PresentIn(d) \X d.tags /\ l[1] # i
    BY <1>1, <1>5
  <2> QED BY <1>8, <1>10, <2>1
<1>12. DbTyped(n)
  BY <1>1, <1>6, <1>8, <1>10, <1>11 DEF DbTyped
<1>13. DbOwned(n)
  BY <1>7, <1>8, <1>10 DEF DbOK, DbOwned
<1>14. DbAgrees(n)
  BY <1>4, <1>8, <1>9 DEF DbOK, DbAgrees
<1> QED BY <1>12, <1>13, <1>14 DEF DbOK

(* What changes one entry.                                                  *)
LEMMA EntryStepsOK ==
    ASSUME DbOK(db), NEW i \in Ids,
           InsertEntry(i) \/ TrashEntry(i) \/ RestoreEntry(i) \/ PurgeEntry(i)
    PROVE  DbOK(db')
<1>1. PICK d : d = db
  OBVIOUS
<1>2. PICK n : n = db'
  OBVIOUS
<1>3. d \in Database /\ DbOK(d)
  BY <1>1 DEF DbOK, DbTyped, DbOwned, DbAgrees, PresentIn
<1>4. d.entries[i] \in Row /\ Agrees(d.entries[i])
  BY <1>3 DEF Database, DbOK, DbAgrees
<1>5. CASE InsertEntry(i)
  <2>1. /\ n = WithEntries(d, [d.entries EXCEPT ![i] = Blank("live")])
        /\ Owner[i] \in d.users
    BY <1>1, <1>2, <1>5 DEF InsertEntry, Change, WithEntries
  <2>2. DbOK(n)
    BY <1>3, <2>1, RowFits, RowChangeOK
  <2> QED BY <1>2, <2>2
<1>6. CASE TrashEntry(i) \/ RestoreEntry(i)
  <2>1. PICK at \in {"live", "trash"} :
           /\ n = WithEntries(d, [d.entries EXCEPT ![i] = [d.entries[i] EXCEPT !.at = at]])
           /\ i \in PresentIn(d)
    BY <1>1, <1>2, <1>6
    DEF TrashEntry, RestoreEntry, Change, WithEntries, Live, Trash, PresentIn
  <2>2. PICK w : w = [d.entries[i] EXCEPT !.at = at]
    OBVIOUS
  <2>3. at \in {"unused", "live", "trash", "gone"}
    OBVIOUS
  <2>7. w \in Row /\ w.at = at /\ Agrees(w)
    BY <1>4, <2>2, <2>3, RowFits
  <2>4. n = WithEntries(d, [d.entries EXCEPT ![i] = w])
    BY <2>1, <2>2
  <2>5. Owner[i] \in d.users
    BY <1>3, <2>1 DEF DbOK, DbOwned
  <2>6. DbOK(n)
    BY <1>3, <2>1, <2>4, <2>5, <2>7, RowChangeOK
  <2> QED BY <1>2, <2>6
<1>7. CASE PurgeEntry(i)
  <2>1. n = [d EXCEPT !.entries[i] = Blank("gone"), !.links = {l \in @ : l[1] # i},
                      !.notes = @ \ {i}, !.promoted = @ \ {i}]
    BY <1>1, <1>2, <1>7 DEF PurgeEntry, Change
  <2>2. DbOK(n)
    BY <1>3, <2>1, PurgeOK
  <2> QED BY <1>2, <2>2
<1> QED BY <1>5, <1>6, <1>7

(* The flags of some entries change, and their times with them.             *)
LEMMA FlagChangeOK ==
    ASSUME NEW d, DbOK(d), NEW x \in [Ids -> Row],
           \A i \in Ids : x[i].at = d.entries[i].at /\ Agrees(x[i]),
           NEW n, n = WithEntries(d, x)
    PROVE  DbOK(n)
<1>1. \A i \in PresentIn(d) : x[i].at \in {"live", "trash"}
  BY DEF PresentIn
<1>2. \A i \in Ids : x[i].at \in {"live", "trash"} => Owner[i] \in d.users
  BY DEF PresentIn, DbOK, DbOwned
<1> QED BY <1>1, <1>2, RowsChangeOK

(* The columns of flags and times are set.                                  *)
LEMMA WithFlagsFits ==
    ASSUME NEW w \in Row, NEW F \in SUBSET Flags, NEW S \in SUBSET Flags, NEW O \in SUBSET Flags,
           \A f \in Flags \ O : f \in F <=> f \in S,
           NEW n, n = WithFlags(w, F, S, O)
    PROVE  n \in Row /\ n.at = w.at /\ Agrees(n)
BY DEF WithFlags, Row, Agrees

(* A bulk statement sets or clears a flag.                                  *)
LEMMA FlaggedFits ==
    ASSUME NEW w \in Row, Agrees(w), NEW flag \in Flags, NEW value \in BOOLEAN,
           NEW n, n = Flagged(w, flag, value)
    PROVE  n \in Row /\ n.at = w.at /\ Agrees(n)
<1>1. PICK F : F = IF value THEN w.flags \cup {flag} ELSE w.flags \ {flag}
  OBVIOUS
<1>2. PICK S : S = IF value THEN w.stamps \cup {flag} ELSE w.stamps \ {flag}
  OBVIOUS
<1>3. PICK O : O = w.odd \ {flag}
  OBVIOUS
<1>4. F \in SUBSET Flags /\ S \in SUBSET Flags /\ O \in SUBSET Flags
  BY <1>1, <1>2, <1>3 DEF Row
<1>5. \A f \in Flags \ O : f \in F <=> f \in S
  BY <1>1, <1>2, <1>3 DEF Agrees
<1>6. n = WithFlags(w, F, S, O)
  BY <1>1, <1>2, <1>3 DEF Flagged
<1> QED BY <1>4, <1>5, <1>6, WithFlagsFits

(* A bulk statement changes the rows it names.                              *)
LEMMA BulkChangeOK ==
    ASSUME NEW d, DbOK(d), NEW ids, NEW flag \in Flags, NEW value \in BOOLEAN,
           NEW x, x = [i \in Ids |-> IF i \in ids THEN Flagged(d.entries[i], flag, value)
                                                 ELSE d.entries[i]],
           NEW n, n = WithEntries(d, x)
    PROVE  DbOK(n)
<1>1. \A i \in Ids : d.entries[i] \in Row /\ Agrees(d.entries[i])
  BY DEF Database, DbOK, DbTyped, DbAgrees
<1>2. \A i \in Ids : /\ x[i] \in Row /\ x[i].at = d.entries[i].at
                     /\ Agrees(x[i])
  BY <1>1, FlaggedFits
<1>3. x \in [Ids -> Row]
  BY <1>2
<1> QED BY <1>2, <1>3, FlagChangeOK

(* One statement sets the flags of an entry that is there.                  *)
LEMMA FlagsSetOK ==
    ASSUME NEW d, DbOK(d), NEW i \in PresentIn(d),
           NEW F \in SUBSET Flags, NEW S \in SUBSET Flags, NEW O \in SUBSET Flags,
           \A f \in Flags \ O : f \in F <=> f \in S,
           NEW n, n = WithEntries(d, [d.entries EXCEPT ![i] = WithFlags(d.entries[i], F, S, O)])
    PROVE  DbOK(n)
<1>1. PICK w : w = WithFlags(d.entries[i], F, S, O)
  OBVIOUS
<1>2. i \in Ids /\ d.entries[i] \in Row /\ d.entries[i].at \in {"live", "trash"}
  BY DEF PresentIn, DbOK, DbTyped, Database
<1>3. w \in Row /\ w.at = d.entries[i].at /\ Agrees(w)
  BY <1>1, <1>2, WithFlagsFits
<1>4. Owner[i] \in d.users
  BY DEF DbOK, DbOwned
<1>5. n = WithEntries(d, [d.entries EXCEPT ![i] = w])
  BY <1>1
<1> QED BY <1>2, <1>3, <1>4, <1>5, RowChangeOK

(* What changes flags of entries at once.                                   *)
LEMMA StatusStepsOK ==
    ASSUME DbOK(db),
           \/ \E ids \in SUBSET Ids : ArchiveByIds(ids)
           \/ \E i \in Ids, flags, stamps \in SUBSET Flags :
                 RestoreImportStatus(i, flags, stamps)
    PROVE  DbOK(db')
<1>1. PICK d : d = db
  OBVIOUS
<1>2. PICK n : n = db'
  OBVIOUS
<1>3. DbOK(d)
  BY <1>1 DEF DbOK, DbTyped, DbOwned, DbAgrees, PresentIn
<1>4. ASSUME NEW ids \in SUBSET Ids, ArchiveByIds(ids)
      PROVE  DbOK(n)
  <2>1. PICK J : J = ids \cap Present
    OBVIOUS
  <2>2. PICK x : x = [i \in Ids |-> IF i \in J THEN Flagged(d.entries[i], "archived", TRUE)
                                              ELSE d.entries[i]]
    OBVIOUS
  <2>3. n = WithEntries(d, x) /\ "archived" \in Flags
    BY <1>1, <1>2, <1>4, <2>1, <2>2 DEF ArchiveByIds, Change, WithEntries
  <2> QED BY <1>3, <2>2, <2>3, BulkChangeOK
<1>5. ASSUME NEW i \in Ids, NEW flags \in SUBSET Flags, NEW stamps \in SUBSET Flags,
             RestoreImportStatus(i, flags, stamps)
      PROVE  DbOK(n)
  <2>1. i \in PresentIn(d)
    BY <1>1, <1>5 DEF RestoreImportStatus, Present, Live, Trash, PresentIn
  <2>2. PICK O \in SUBSET Flags : O = (flags \ stamps) \cup (stamps \ flags)
    OBVIOUS
  <2>3. n = WithEntries(d, [d.entries EXCEPT ![i] = WithFlags(d.entries[i], flags, stamps, O)])
    BY <1>1, <1>2, <1>5, <2>2 DEF RestoreImportStatus, Change, WithEntries
  <2>4. \A f \in Flags \ O : f \in flags <=> f \in stamps
    BY <2>2
  <2> QED BY <1>3, <2>1, <2>3, <2>4, FlagsSetOK
<1> QED BY <1>2, <1>4, <1>5

(* What any other request writes keeps the tables as they should be.        *)
LEMMA WriteOK ==
    ASSUME DbOK(db), Write
    PROVE  DbOK(db')
<1>1. CASE \E u \in Users : \/ Register(u) \/ PublishPage(u)
                            \/ CreateRule(u) \/ DeleteRule(u)
                            \/ CreateSiteRule(u) \/ DeleteSiteRule(u)
  BY <1>1, UserStepsOK
<1>2. CASE \E i \in Ids : InsertEntry(i) \/ TrashEntry(i) \/ RestoreEntry(i) \/ PurgeEntry(i)
  BY <1>2, EntryStepsOK
<1>3. CASE \E i \in Ids : \/ Annotate(i) \/ ImportAnnotation(i) \/ DeleteAnnotation(i)
                          \/ SetPromoted(i) \/ DeleteMemo(i)
  BY <1>3, NoteStepsOK
<1>4. CASE \E i \in Ids, t \in Tags : LinkTag(i, t) \/ UnlinkTag(i, t)
  BY <1>4, TagStepsOK
<1>5. CASE \E t \in Tags : CreateTag(t) \/ DeleteTag(t)
  BY <1>5, TagStepsOK
<1>6. CASE \/ \E ids \in SUBSET Ids : ArchiveByIds(ids)
           \/ \E i \in Ids, flags, stamps \in SUBSET Flags :
                 RestoreImportStatus(i, flags, stamps)
  BY <1>6, StatusStepsOK
<1> QED BY <1>1, <1>2, <1>3, <1>4, <1>5, <1>6 DEF Write

-----------------------------------------------------------------------------
(* PATCH and bulk requests.                                                 *)

(* What a PATCH reads, and what a bulk request has found.                   *)
Patching(i, w, want) == [op |-> "patch", id |-> i, want |-> want, held |-> w]
Bulk(ids, flag, value) == [op |-> "bulk", ids |-> ids, flag |-> flag, value |-> value]

(* They are requests.                                                       *)
LEMMA RequestFits ==
    /\ NoRequest \in Request /\ RequestAgrees(NoRequest)
    /\ \A i \in Ids, w \in Row, want \in [Flags -> {"set", "clear", "keep"}] :
          /\ Patching(i, w, want) \in Request
          /\ Agrees(w) => RequestAgrees(Patching(i, w, want))
    /\ \A ids \in SUBSET Ids, flag \in Flags, value \in BOOLEAN :
          /\ Bulk(ids, flag, value) \in Request
          /\ RequestAgrees(Bulk(ids, flag, value))
BY DEF NoRequest, Request, RequestAgrees, Patching, Bulk

(* A request becomes n.                                                     *)
LEMMA RequestsChange ==
    ASSUME RequestsOK, NEW r \in Requests, NEW n \in Request, RequestAgrees(n),
           req' = [req EXCEPT ![r] = n]
    PROVE  RequestsOK'
BY DEF RequestsOK, RequestAgrees

(* A PATCH sets the time of a flag exactly if it sets the flag.             *)
LEMMA PatchAgrees ==
    ASSUME NEW w \in Row, Agrees(w), NEW want \in [Flags -> {"set", "clear", "keep"}]
    PROVE  /\ FlagsAfter(w, want) \in SUBSET Flags /\ StampsAfter(w, want) \in SUBSET Flags
           /\ OddAfter(w, want) \in SUBSET Flags
           /\ \A f \in Flags \ OddAfter(w, want) :
                 f \in FlagsAfter(w, want) <=> f \in StampsAfter(w, want)
<1>1. /\ FlagsAfter(w, want) \in SUBSET Flags /\ StampsAfter(w, want) \in SUBSET Flags
      /\ OddAfter(w, want) \in SUBSET Flags
  BY DEF FlagsAfter, StampsAfter, OddAfter, Row
<1>2. ASSUME NEW f \in Flags, f \notin OddAfter(w, want)
      PROVE  f \in FlagsAfter(w, want) <=> f \in StampsAfter(w, want)
  <2>1. want[f] \in {"set", "clear", "keep"}
    OBVIOUS
  <2>2. CASE want[f] = "clear"
    BY <2>2 DEF FlagsAfter, StampsAfter
  <2>3. CASE want[f] = "set" /\ f \notin w.flags
    BY <2>3 DEF FlagsAfter, StampsAfter
  <2>4. CASE want[f] # "clear" /\ ~(want[f] = "set" /\ f \notin w.flags)
    <3>1. f \notin w.odd
      BY <1>2, <2>4 DEF OddAfter
    <3>2. f \in w.flags <=> f \in w.stamps
      BY <3>1 DEF Agrees
    <3> QED BY <2>1, <2>4, <3>2 DEF FlagsAfter, StampsAfter
  <2> QED BY <2>2, <2>3, <2>4
<1> QED BY <1>1, <1>2

(* A bulk request sets a flag or clears it.                                 *)
LEMMA BulkValue ==
    ASSUME NEW q \in Request, q.op = "bulk"
    PROVE  q.value \in BOOLEAN
<1>1. q \notin [op : {"patch"}, id : Ids, held : Row, want : [Flags -> {"set", "clear", "keep"}]]
  OBVIOUS
<1>2. q # NoRequest
  BY DEF NoRequest
<1>3. q \in [op : {"bulk"}, ids : SUBSET Ids, flag : Flags, value : BOOLEAN]
  BY <1>1, <1>2 DEF Request
<1> QED BY <1>3, Zenon

(* PATCH and bulk requests keep the tables and what they hold.              *)
LEMMA FlagStepsOK ==
    ASSUME DbOK(db), RequestsOK, NEW r \in Requests, FlagStep(r)
    PROVE  DbOK(db') /\ RequestsOK'
<1>1. PICK d : d = db
  OBVIOUS
<1>2. PICK n : n = db'
  OBVIOUS
<1>3. DbOK(d) /\ d \in Database
  BY <1>1 DEF DbOK, DbTyped, DbOwned, DbAgrees, PresentIn
<1>4. req[r] \in Request /\ RequestAgrees(req[r])
  BY DEF RequestsOK
<1>5. ASSUME NEW i \in Ids, NEW want \in [Flags -> {"set", "clear", "keep"}],
             FindEntry(r, i, want)
      PROVE  DbOK(db') /\ RequestsOK'
  <2>1. PICK p : p = Patching(i, d.entries[i], want)
    OBVIOUS
  <2>2. d.entries[i] \in Row /\ Agrees(d.entries[i])
    BY <1>3 DEF Database, DbOK, DbAgrees
  <2>3. p \in Request /\ RequestAgrees(p)
    BY <2>1, <2>2, RequestFits
  <2>4. req' = [req EXCEPT ![r] = p] /\ n = d
    BY <1>1, <1>2, <1>5, <2>1 DEF FindEntry, Patching
  <2>5. RequestsOK'
    BY <2>3, <2>4, RequestsChange
  <2> QED BY <1>2, <1>3, <2>4, <2>5
<1>6. CASE UpdateEntry(r)
  <2>1. PICK q \in Request : q = req[r] /\ q.op = "patch"
    BY <1>4, <1>6 DEF UpdateEntry
  <2>2. /\ q.id \in Ids /\ q.held \in Row /\ q.want \in [Flags -> {"set", "clear", "keep"}]
        /\ Agrees(q.held)
    BY <1>4, <2>1 DEF Request, NoRequest, RequestAgrees
  <2>3. PICK F \in SUBSET Flags, S \in SUBSET Flags, O \in SUBSET Flags :
           /\ F = FlagsAfter(q.held, q.want) /\ S = StampsAfter(q.held, q.want)
           /\ O = OddAfter(q.held, q.want)
           /\ \A f \in Flags \ O : f \in F <=> f \in S
    BY <2>2, PatchAgrees
  <2>4. ASSUME q.id \in PresentIn(d)
        PROVE  DbOK(n)
    <3>1. n = [db EXCEPT !.entries[q.id] = WithFlags(@, F, S, O)]
      BY <1>1, <1>2, <1>6, <2>1, <2>3, <2>4, PresentIsPresent DEF UpdateEntry
    <3>2. n = WithEntries(d, [d.entries EXCEPT ![q.id] = WithFlags(d.entries[q.id], F, S, O)])
      BY <1>1, <3>1 DEF WithEntries
    <3> QED BY <1>3, <2>3, <2>4, <3>2, FlagsSetOK
  <2>5. ASSUME q.id \notin PresentIn(d)
        PROVE  DbOK(n)
    <3>1. n = d
      BY <1>1, <1>2, <1>6, <2>1, <2>5, PresentIsPresent DEF UpdateEntry
    <3> QED BY <1>3, <3>1
  <2>6. RequestsOK'
    BY <1>6, RequestFits, RequestsChange DEF UpdateEntry
  <2> QED BY <1>2, <2>4, <2>5, <2>6
<1>7. ASSUME NEW u \in Users, NEW f \in Filters, NEW flag \in Flags, NEW value \in BOOLEAN,
             BulkMatch(r, u, f, flag, value)
      PROVE  DbOK(db') /\ RequestsOK'
  <2>1. PICK J : J = FindIdsMatching(f, u)
    OBVIOUS
  <2>2. J \in SUBSET Ids
    BY <2>1 DEF FindIdsMatching
  <2>3. PICK p : p = Bulk(J, flag, value)
    OBVIOUS
  <2>4. p \in Request /\ RequestAgrees(p)
    BY <2>2, <2>3, RequestFits
  <2>5. req' = [req EXCEPT ![r] = p] /\ n = d
    BY <1>1, <1>2, <1>7, <2>1, <2>3 DEF BulkMatch, Bulk
  <2>6. RequestsOK'
    BY <2>4, <2>5, RequestsChange
  <2> QED BY <1>2, <1>3, <2>5, <2>6
<1>8. ASSUME NEW flag \in Flags, BulkUpdate(r, flag)
      PROVE  DbOK(db') /\ RequestsOK'
  <2>1. PICK q \in Request : q = req[r] /\ q.op = "bulk"
    BY <1>4, <1>8 DEF BulkUpdate
  <2>2. PICK value \in BOOLEAN : value = q.value
    BY <2>1, BulkValue
  <2>3. PICK J : J = q.ids \cap Present
    OBVIOUS
  <2>4. PICK x : x = [i \in Ids |-> IF i \in J THEN Flagged(d.entries[i], flag, value)
                                           ELSE d.entries[i]]
    OBVIOUS
  <2>5. n = [db EXCEPT !.entries = [i \in Ids |->
                IF i \in J THEN Flagged(@[i], flag, value) ELSE @[i]]]
    BY <1>2, <1>8, <2>1, <2>2, <2>3 DEF BulkUpdate
  <2>6. n = WithEntries(d, x)
    BY <1>1, <2>4, <2>5 DEF WithEntries
  <2>7. DbOK(n)
    BY <1>3, <2>4, <2>6, BulkChangeOK
  <2>8. RequestsOK'
    BY <1>8, RequestFits, RequestsChange DEF BulkUpdate
  <2> QED BY <1>2, <2>7, <2>8
<1> QED BY <1>5, <1>6, <1>7, <1>8 DEF FlagStep

-----------------------------------------------------------------------------
(* Backups and exports.                                                     *)

(* A backup reads one table after the other.                                *)
LEMMA LeftFacts ==
    /\ Left("users") = TableNames /\ Left("entries") = TableNames \ {"users"} /\ Left("end") = {}
    /\ \A at \in TableNames :
          /\ at \in Left(at) /\ Left(Successor(at)) = Left(at) \ {at}
          /\ Successor(at) \in TableNames \cup {"end"} /\ Successor(at) # "users"
<1>1. Left("users") = TableNames /\ Left("entries") = TableNames \ {"users"} /\ Left("end") = {}
  BY DEF Left, TableNames
<1>2. ASSUME NEW at \in TableNames
      PROVE  /\ at \in Left(at) /\ Left(Successor(at)) = Left(at) \ {at}
             /\ Successor(at) \in TableNames \cup {"end"} /\ Successor(at) # "users"
  <2>1. CASE at = "users"
    BY <2>1 DEF Left, TableNames, Successor
  <2>2. CASE at = "entries"
    BY <2>2 DEF Left, TableNames, Successor
  <2>3. CASE at = "tags"
    BY <2>3 DEF Left, TableNames, Successor
  <2>4. CASE at = "links"
    BY <2>4 DEF Left, TableNames, Successor
  <2>5. CASE at = "notes"
    BY <2>5 DEF Left, TableNames, Successor
  <2>6. CASE at = "promoted"
    BY <2>6 DEF Left, TableNames, Successor
  <2>7. CASE at = "rules"
    BY <2>7 DEF Left, TableNames, Successor
  <2>8. CASE at = "sites"
    BY <2>8 DEF Left, TableNames, Successor
  <2> QED BY <2>1, <2>2, <2>3, <2>4, <2>5, <2>6, <2>7, <2>8 DEF TableNames
<1> QED BY <1>1, <1>2

(* Rows that one SELECT on table at of d may return.                        *)
RowsIn(part, at, d) ==
    /\ at = "users" => part \subseteq d.users
    /\ at = "entries" => \A e \in part : e.id \in PresentIn(d) /\ e.row = d.entries[e.id]
                                         /\ e = [id |-> e.id, row |-> d.entries[e.id]]
    /\ at = "tags" => part \subseteq d.tags
    /\ at = "links" => part \subseteq d.links
    /\ at = "notes" => part \subseteq d.notes
    /\ at = "promoted" => part \subseteq d.promoted
    /\ at = "rules" => part \subseteq d.rules
    /\ at = "sites" => part \subseteq d.sites

(* The SELECTs of a backup return such rows.                                *)
LEMMA BackupRowsFit ==
    ASSUME NEW at \in TableNames
    PROVE  RowsIn(BackupRows(at), at, db)
<1>1. CASE at = "entries"
  BY <1>1 DEF RowsIn, BackupRows, Entry, Present, Live, Trash, PresentIn
<1>2. CASE at # "entries"
  BY <1>2 DEF RowsIn, BackupRows, TableNames
<1> QED BY <1>1, <1>2

(* So do those of an export.                                                *)
LEMMA ExportRowsFit ==
    ASSUME NEW at \in TableNames \ {"users"}, NEW u, NEW scope, NEW exported
    PROVE  RowsIn(ExportRows(at, u, scope, exported), at, db)
<1>1. CASE at = "entries"
  BY <1>1 DEF RowsIn, ExportRows, Entry, Live, PresentIn
<1>2. CASE at # "entries"
  BY <1>2 DEF RowsIn, ExportRows, TableNames
<1> QED BY <1>1, <1>2

(* A part of a table is such rows.                                          *)
LEMMA PartsFit ==
    ASSUME NEW rows, NEW at, NEW d, RowsIn(rows, at, d), NEW part \in SUBSET rows
    PROVE  RowsIn(part, at, d)
BY DEF RowsIn

(* A file with one more table.                                              *)
WithTable(f, at, part) == [f EXCEPT ![at] = part]

(* The other tables stay.                                                   *)
LEMMA TablesFit ==
    ASSUME NEW f, CopyTyped(f), NEW at \in TableNames, NEW part,
           NEW g, g = WithTable(f, at, part)
    PROVE  g[at] = part /\ \A t \in TableNames \ {at} : g[t] = f[t]
BY DEF CopyTyped, Copies, WithTable

(* Such rows are cells of their table.                                      *)
LEMMA RowsAreCells ==
    ASSUME NEW d, DbOK(d), NEW at \in TableNames, NEW part, RowsIn(part, at, d)
    PROVE  /\ at \in {"users", "rules", "sites"} => part \subseteq Users
           /\ at = "entries" => part \subseteq EntryRows
           /\ at = "tags" => part \subseteq Tags
           /\ at = "links" => part \subseteq Ids \X Tags
           /\ at \in {"notes", "promoted"} => part \subseteq Ids
           /\ part \in SUBSET Cells
<1>1. d \in Database
  BY DEF DbOK, DbTyped
<1>2. /\ at \in {"users", "rules", "sites"} => part \subseteq Users
      /\ at = "tags" => part \subseteq Tags
      /\ at = "links" => part \subseteq Ids \X Tags
      /\ at \in {"notes", "promoted"} => part \subseteq Ids
  BY <1>1 DEF RowsIn, Database
<1>3. at = "entries" => part \subseteq EntryRows
  <2> SUFFICES ASSUME at = "entries", NEW e \in part
               PROVE  e \in EntryRows
    OBVIOUS
  <2>1. e = [id |-> e.id, row |-> d.entries[e.id]] /\ e.id \in Ids
    BY DEF RowsIn, PresentIn
  <2>2. d.entries[e.id] \in Row
    BY <1>1, <2>1 DEF Database
  <2> QED BY <2>1, <2>2 DEF EntryRows
<1>4. part \in SUBSET Cells
  <2>1. at \in {"users", "rules", "sites", "entries", "tags", "links", "notes", "promoted"}
    BY DEF TableNames
  <2> QED BY <1>2, <1>3, <2>1 DEF Cells
<1> QED BY <1>2, <1>3, <1>4

(* A file with one more table of such rows is well formed.                  *)
LEMMA TableReadOK ==
    ASSUME NEW d, DbOK(d), NEW at \in TableNames, NEW part, RowsIn(part, at, d),
           NEW f, CopyTyped(f), CopySound(f), NEW g, g = WithTable(f, at, part)
    PROVE  CopyTyped(g) /\ CopySound(g)
<1>1. g[at] = part /\ \A t \in TableNames \ {at} : g[t] = f[t]
  BY TablesFit
<1>2. g \in Copies
  BY RowsAreCells DEF CopyTyped, Copies, WithTable
<1>3. CopyTyped(g)
  <2>1. /\ "users" \in TableNames /\ "entries" \in TableNames /\ "tags" \in TableNames
        /\ "links" \in TableNames /\ "notes" \in TableNames /\ "promoted" \in TableNames
        /\ "rules" \in TableNames /\ "sites" \in TableNames
    BY DEF TableNames
  <2>2. /\ at \in {"users", "rules", "sites"} => part \subseteq Users
        /\ at = "entries" => part \subseteq EntryRows
        /\ at = "tags" => part \subseteq Tags
        /\ at = "links" => part \subseteq Ids \X Tags
        /\ at \in {"notes", "promoted"} => part \subseteq Ids
    BY RowsAreCells
  <2>3. /\ g["users"] = f["users"] \/ (at = "users" /\ g["users"] = part)
        /\ g["entries"] = f["entries"] \/ (at = "entries" /\ g["entries"] = part)
        /\ g["tags"] = f["tags"] \/ (at = "tags" /\ g["tags"] = part)
        /\ g["links"] = f["links"] \/ (at = "links" /\ g["links"] = part)
        /\ g["notes"] = f["notes"] \/ (at = "notes" /\ g["notes"] = part)
        /\ g["promoted"] = f["promoted"] \/ (at = "promoted" /\ g["promoted"] = part)
        /\ g["rules"] = f["rules"] \/ (at = "rules" /\ g["rules"] = part)
        /\ g["sites"] = f["sites"] \/ (at = "sites" /\ g["sites"] = part)
    BY <1>1, <2>1
  <2> QED BY <1>2, <2>2, <2>3 DEF CopyTyped
<1>4. g["entries"] = f["entries"] \/ (at = "entries" /\ g["entries"] = part)
  BY <1>1 DEF TableNames
<1>5. g["links"] = f["links"] \/ (at = "links" /\ g["links"] = part)
  BY <1>1 DEF TableNames
<1>6. \A e \in part : at = "entries" =>
         e.row.at \in {"live", "trash"} /\ Agrees(e.row)
  <2> SUFFICES ASSUME NEW e \in part, at = "entries"
               PROVE  e.row.at \in {"live", "trash"} /\ Agrees(e.row)
    OBVIOUS
  <2>1. e.id \in PresentIn(d) /\ e.row = d.entries[e.id]
    BY DEF RowsIn
  <2> QED BY <2>1 DEF PresentIn, DbOK, DbAgrees
<1>7. \A e, h \in part : at = "entries" /\ e.id = h.id => e = h
  BY DEF RowsIn
<1>8. \A l \in part : at = "links" => Owner[l[1]] = Owner[l[2]]
  BY DEF RowsIn, DbOK, DbOwned
<1>9. CopySound(g)
  BY <1>4, <1>5, <1>6, <1>7, <1>8 DEF CopySound
<1> QED BY <1>3, <1>9

(* A backup that has read part of rows.                                     *)
Read(b, part, rows) ==
    [b EXCEPT !.at = Successor(@), !.tables[b.at] = part, !.torn = @ \/ part # rows]

(* One more table is read, the rest stays.                                  *)
LEMMA ReadFits ==
    ASSUME NEW b \in Writing, b.at \in TableNames, NEW part, NEW rows,
           WithTable(b.tables, b.at, part) \in Copies,
           NEW c, c = Read(b, part, rows)
    PROVE  /\ c \in Writing /\ c.at = Successor(b.at) /\ c.kind = b.kind /\ c.user = b.user
           /\ c.scope = b.scope /\ c.was = b.was
           /\ c.tables = WithTable(b.tables, b.at, part)
           /\ ~c.torn => ~b.torn /\ part = rows
<1>1. PICK g \in Copies : g = WithTable(b.tables, b.at, part)
  OBVIOUS
<1>2. PICK s \in TableNames \cup {"end"} : s = Successor(b.at)
  BY LeftFacts
<1>3. PICK z \in BOOLEAN : z = (b.torn \/ part # rows)
  OBVIOUS
<1>4. c = [b EXCEPT !.at = s, !.tables = g, !.torn = z]
  BY <1>1, <1>2, <1>3 DEF Read, WithTable
<1>5. c \in Writing /\ c.at = s /\ c.kind = b.kind /\ c.user = b.user /\ c.scope = b.scope
      /\ c.was = b.was /\ c.tables = g
  BY <1>4 DEF Writing
<1>6. c.torn = z
  BY <1>4 DEF Writing
<1> QED BY <1>1, <1>2, <1>3, <1>5, <1>6

(* A backup that begins.                                                    *)
Begun(kind, u, scope, first, d) ==
    [at |-> first, kind |-> kind, user |-> u, scope |-> scope, tables |-> NoTables,
     was |-> d, torn |-> FALSE]

(* It has read nothing.                                                     *)
LEMMA NothingRead ==
    /\ CopyTyped(NoTables) /\ CopySound(NoTables) /\ \A t \in TableNames : NoTables[t] = {}
<1>1. NoTables \in Copies /\ \A t \in TableNames : NoTables[t] = {}
  BY DEF NoTables, Copies
<1>2. /\ "users" \in TableNames /\ "entries" \in TableNames /\ "tags" \in TableNames
      /\ "links" \in TableNames /\ "notes" \in TableNames /\ "promoted" \in TableNames
      /\ "rules" \in TableNames /\ "sites" \in TableNames
  BY DEF TableNames
<1> QED BY <1>1, <1>2 DEF CopyTyped, CopySound

(* The file that a client keeps.                                            *)
KeptOf(b, tables, quiet, added) ==
    [kind |-> b.kind, tables |-> tables, was |-> b.was, torn |-> b.torn,
     quiet |-> quiet, added |-> added]

(* Its record.                                                              *)
LEMMA KeptFits ==
    ASSUME NEW b \in Writing, NEW tables \in Copies, NEW quiet \in BOOLEAN,
           NEW added \in BOOLEAN, NEW c, c = KeptOf(b, tables, quiet, added)
    PROVE  /\ c \in Files /\ c.kind = b.kind /\ c.tables = tables /\ c.was = b.was
           /\ c.torn = b.torn /\ c.quiet = quiet /\ c.added = added
<1>1. /\ b.kind \in {"backup", "export"} /\ b.was \in Database
  BY DEF Writing
<1>2. b.torn \in BOOLEAN
  BY Zenon DEF Writing
<1> QED BY <1>1, <1>2 DEF KeptOf, Files

(* Or does not count as quiet.                                              *)
LEMMA KeptCut ==
    ASSUME NEW b, NEW tables, NEW quiet, NEW added, NEW cut
    PROVE  [KeptOf(b, tables, quiet, added) EXCEPT !.quiet = cut] = KeptOf(b, tables, cut, added)
BY DEF KeptOf

(* The rows of a backup in progress.                                        *)
LEMMA RowsFit ==
    ASSUME BackupTyped, backup.at \in TableNames
    PROVE  RowsIn(Rows(backup), backup.at, db)
<1>1. backup # NoBackup
  BY DEF NoBackup, TableNames
<1>2. backup.kind \in {"backup", "export"} /\ (backup.kind = "export" => backup.at # "users")
  BY <1>1 DEF BackupTyped, Writing
<1>3. CASE backup.kind = "backup"
  BY <1>3, BackupRowsFit DEF Rows
<1>4. CASE backup.kind = "export"
  BY <1>2, <1>4, ExportRowsFit DEF Rows
<1> QED BY <1>2, <1>3, <1>4

(* What a step of a backup or an export does, with the tables it has read.  *)
LEMMA ReadTableTyped ==
    ASSUME DbOK(db), BackupTyped, ReadTable
    PROVE  BackupTyped'
<1>1. PICK b : b = backup
  OBVIOUS
<1>2. backup.at \in TableNames
  BY DEF ReadTable
<1>3. /\ b \in Writing /\ CopyTyped(b.tables) /\ CopySound(b.tables)
      /\ \A t \in Left(b.at) : b.tables[t] = {}
      /\ b.kind = "export" => b.tables["users"] = {} /\ b.at # "users"
  BY <1>1, <1>2 DEF BackupTyped, NoBackup, TableNames
<1>4. PICK part \in SUBSET Rows(backup) : backup' = Read(backup, part, Rows(backup))
  BY DEF ReadTable, Read
<1>5. PICK c : c = Read(b, part, Rows(backup))
  OBVIOUS
<1>6. RowsIn(part, b.at, db)
  BY <1>1, <1>2, <1>4, RowsFit, PartsFit
<1>7. PICK g : g = WithTable(b.tables, b.at, part)
  OBVIOUS
<1>8. CopyTyped(g) /\ CopySound(g)
  BY <1>1, <1>2, <1>3, <1>6, <1>7, TableReadOK
<1>9. g \in Copies
  BY <1>8 DEF CopyTyped
<1>10. c \in Writing /\ c.at = Successor(b.at) /\ c.kind = b.kind /\ c.tables = g
  BY <1>1, <1>2, <1>3, <1>5, <1>7, <1>9, ReadFits
<1>11. \A t \in Left(c.at) : c.tables[t] = {}
  <2>1. Left(c.at) = Left(b.at) \ {b.at}
    BY <1>1, <1>2, <1>10, LeftFacts
  <2>2. Left(b.at) \subseteq TableNames
    BY DEF Left
  <2>3. \A t \in TableNames \ {b.at} : g[t] = b.tables[t]
    BY <1>1, <1>2, <1>3, <1>7, TablesFit
  <2> QED BY <1>3, <1>10, <2>1, <2>2, <2>3
<1>12. c.kind = "export" => c.tables["users"] = {} /\ c.at # "users"
  <2>1. "users" \in TableNames
    BY DEF TableNames
  <2>2. b.at # "users" => g["users"] = b.tables["users"]
    BY <1>1, <1>2, <1>3, <1>7, <2>1, TablesFit
  <2>3. Successor(b.at) # "users"
    BY <1>1, <1>2, LeftFacts
  <2> QED BY <1>3, <1>10, <2>2, <2>3
<1>13. backup' = c
  BY <1>1, <1>4, <1>5
<1> QED BY <1>8, <1>10, <1>11, <1>12, <1>13 DEF BackupTyped

(* A backup or an export begins.                                            *)
LEMMA StartTyped ==
    ASSUME DbOK(db), NEW kind \in {"backup", "export"}, NEW u \in Users \cup {Nobody},
           NEW scope \in Scopes \cup {"all"}, NEW first \in TableNames,
           kind = "export" => first # "users", Start(kind, u, scope, first)
    PROVE  /\ BackupTyped' /\ backup'.at = first /\ backup'.kind = kind /\ backup'.user = u
           /\ backup'.tables = NoTables /\ backup'.was = db /\ backup'.torn = FALSE
<1>1. PICK d : d = db
  OBVIOUS
<1>2. d \in Database
  BY <1>1 DEF DbOK, DbTyped
<1>3. PICK c : c = Begun(kind, u, scope, first, d)
  OBVIOUS
<1>4. /\ c \in Writing /\ c.at = first /\ c.kind = kind /\ c.user = u
      /\ c.tables = NoTables /\ c.was = d /\ c.torn = FALSE
  BY <1>2, <1>3, NothingRead DEF Begun, Writing, CopyTyped
<1>5. backup' = c
  BY <1>1, <1>3 DEF Start, Begun
<1>6. Left(c.at) \subseteq TableNames /\ "users" \in TableNames
  BY DEF Left, TableNames
<1> QED BY <1>1, <1>4, <1>5, <1>6, NothingRead DEF BackupTyped

(* A client keeps all that it was sent.                                     *)
LEMMA FinishTyped ==
    ASSUME BackupTyped, WatchTyped, FinishBackup
    PROVE  /\ BackupTyped' /\ FileTyped'
           /\ file'.kind = backup.kind /\ file'.tables = backup.tables /\ file'.was = backup.was
           /\ file'.torn = backup.torn /\ file'.quiet = watch.quiet /\ file'.added = watch.added
<1>1. PICK b : b = backup
  OBVIOUS
<1>2. b \in Writing /\ CopyTyped(b.tables) /\ CopySound(b.tables)
  BY <1>1 DEF BackupTyped, NoBackup, FinishBackup
<1>3. b.tables \in Copies
  BY <1>2 DEF CopyTyped
<1>4. watch.quiet \in BOOLEAN
  BY Zenon DEF WatchTyped
<1>5. watch.added \in BOOLEAN
  BY Zenon DEF WatchTyped
<1>6. PICK quiet \in BOOLEAN, added \in BOOLEAN : quiet = watch.quiet /\ added = watch.added
  BY <1>4, <1>5
<1>7. PICK c : c = KeptOf(b, b.tables, quiet, added)
  OBVIOUS
<1>8. /\ c \in Files /\ c.kind = b.kind /\ c.tables = b.tables /\ c.was = b.was
      /\ c.torn = b.torn /\ c.quiet = quiet /\ c.added = added
  BY <1>2, <1>3, <1>7, KeptFits
<1>9. file' = c
  BY <1>1, <1>6, <1>7 DEF FinishBackup, Kept, KeptOf
<1>10. backup' = NoBackup
  BY DEF FinishBackup
<1> QED BY <1>1, <1>2, <1>6, <1>8, <1>9, <1>10 DEF BackupTyped, FileTyped

(* A client keeps the lines it was sent before the connection ended.        *)
LEMMA DisconnectTyped ==
    ASSUME DbOK(db), BackupTyped, WatchTyped, Disconnect
    PROVE  /\ BackupTyped' /\ FileTyped'
           /\ file'.kind = "backup" /\ file'.quiet = FALSE /\ file'.added = watch.added
           /\ file'.torn = backup.torn
           /\ \E part \in SUBSET Rows(backup) :
                 file'.tables = WithTable(backup.tables, backup.at, part)
<1>1. PICK b : b = backup
  OBVIOUS
<1>2. b.at \in TableNames /\ b.kind = "backup"
  BY <1>1 DEF Disconnect
<1>3. b \in Writing /\ CopyTyped(b.tables) /\ CopySound(b.tables)
  BY <1>1, <1>2 DEF BackupTyped, NoBackup, TableNames
<1>4. PICK part \in SUBSET Rows(backup) :
         file' = [Kept([backup.tables EXCEPT ![backup.at] = part]) EXCEPT !.quiet = FALSE]
  BY DEF Disconnect
<1>5. RowsIn(part, b.at, db)
  BY <1>1, <1>2, <1>4, RowsFit, PartsFit
<1>6. PICK g : g = WithTable(b.tables, b.at, part)
  OBVIOUS
<1>7. CopyTyped(g) /\ CopySound(g)
  BY <1>2, <1>3, <1>5, <1>6, TableReadOK
<1>8. watch.added \in BOOLEAN
  BY Zenon DEF WatchTyped
<1>9. PICK added \in BOOLEAN : added = watch.added
  BY <1>8
<1>10. g \in Copies
  BY <1>7 DEF CopyTyped
<1> DEFINE cut == FALSE
<1>17. cut \in BOOLEAN /\ cut = FALSE
  OBVIOUS
<1> HIDE DEF cut
<1>11. PICK c : c = KeptOf(b, g, cut, added)
  OBVIOUS
<1>12. /\ c \in Files /\ c.kind = b.kind /\ c.tables = g
       /\ c.torn = b.torn /\ c.quiet = FALSE /\ c.added = added
  BY <1>3, <1>10, <1>11, <1>17, KeptFits
<1>13. file' = [KeptOf(b, g, watch.quiet, added) EXCEPT !.quiet = cut]
  BY <1>1, <1>4, <1>6, <1>9, <1>17 DEF Kept, KeptOf, WithTable
<1>14. file' = c
  BY <1>11, <1>13, KeptCut
<1>15. backup' = NoBackup
  BY DEF Disconnect
<1>16. file'.tables = WithTable(backup.tables, backup.at, part)
  BY <1>1, <1>6, <1>12, <1>14
<1> QED BY <1>1, <1>2, <1>4, <1>7, <1>9, <1>12, <1>14, <1>15, <1>16 DEF BackupTyped, FileTyped

(* The row that a restore gives an entry.                                   *)
LEMMA RestoredRowFits ==
    ASSUME NEW f, CopyTyped(f), CopySound(f), NEW i \in Ids
    PROVE  /\ RestoredRow(f, i) \in Row /\ Agrees(RestoredRow(f, i))
           /\ RestoredRow(f, i).at \in {"live", "trash"} <=> i \in IdsIn(f)
           /\ i \notin IdsIn(f) => RestoredRow(f, i).at \in {"unused", "gone"}
           /\ \A e \in f["entries"] : e.id = i => RestoredRow(f, i) = e.row
<1>1. CASE i \in IdsIn(f)
  <2>1. PICK e \in f["entries"] : e.id = i
    BY <1>1 DEF IdsIn
  <2>2. \A g \in f["entries"] : g.id = i => g = e
    BY <2>1 DEF CopySound
  <2>3. (CHOOSE g \in f["entries"] : g.id = i) = e
    BY <2>1, <2>2
  <2>4. RestoredRow(f, i) = e.row
    BY <1>1, <2>3 DEF RestoredRow
  <2>5. e.row \in Row /\ e.row.at \in {"live", "trash"} /\ Agrees(e.row)
    BY <2>1 DEF CopyTyped, CopySound, EntryRows
  <2> QED BY <1>1, <2>2, <2>4, <2>5
<1>2. CASE i \notin IdsIn(f)
  <2>1. PICK at \in {"unused", "gone"} : RestoredRow(f, i) = Blank(at)
    BY <1>2 DEF RestoredRow
  <2>2. \A e \in f["entries"] : e.id # i
    BY <1>2 DEF IdsIn
  <2>3. PICK w : w = Blank(at)
    OBVIOUS
  <2>4. w \in Row /\ w.at = at /\ Agrees(w)
    BY <2>3, RowFits
  <2> QED BY <1>2, <2>1, <2>2, <2>3, <2>4
<1> QED BY <1>1, <1>2

(* The tables that a restore brings.                                        *)
LEMMA RestoredFits ==
    ASSUME NEW f, CopyTyped(f), CopySound(f), NEW n, n = Restored(f)
    PROVE  /\ n \in Database /\ n.users = f["users"] /\ n.tags = f["tags"]
           /\ n.links = f["links"] /\ n.notes = f["notes"] /\ n.promoted = f["promoted"]
           /\ n.rules = f["rules"] /\ n.sites = f["sites"] /\ n.pages = {}
           /\ \A i \in Ids : n.entries[i] = RestoredRow(f, i)
           /\ PresentIn(n) = IdsIn(f)
<1>1. PICK x : x = [i \in Ids |-> RestoredRow(f, i)]
  OBVIOUS
<1>2. x \in [Ids -> Row] /\ \A i \in Ids : x[i] = RestoredRow(f, i)
  BY <1>1, RestoredRowFits
<1>3. /\ f["users"] \in SUBSET Users /\ f["tags"] \in SUBSET Tags
      /\ f["links"] \in SUBSET (Ids \X Tags) /\ f["notes"] \in SUBSET Ids
      /\ f["promoted"] \in SUBSET Ids /\ f["rules"] \in SUBSET Users
      /\ f["sites"] \in SUBSET Users /\ {} \in SUBSET Users
  BY DEF CopyTyped
<1>4. n = [users |-> f["users"], entries |-> x, tags |-> f["tags"], links |-> f["links"],
           notes |-> f["notes"], promoted |-> f["promoted"], rules |-> f["rules"],
           sites |-> f["sites"], pages |-> {}]
  BY <1>1 DEF Restored
<1>5. /\ n \in Database /\ n.users = f["users"] /\ n.entries = x /\ n.tags = f["tags"]
      /\ n.links = f["links"] /\ n.notes = f["notes"] /\ n.promoted = f["promoted"]
      /\ n.rules = f["rules"] /\ n.sites = f["sites"] /\ n.pages = {}
  BY <1>2, <1>3, <1>4 DEF Database
<1>6. IdsIn(f) \subseteq Ids
  BY DEF IdsIn, CopyTyped, EntryRows
<1>7. PresentIn(n) = IdsIn(f)
  BY <1>2, <1>5, <1>6, RestoredRowFits DEF PresentIn
<1> QED BY <1>2, <1>5, <1>7

(* A restore that succeeds brings tables whose references resolve.          *)
LEMMA RestoreOK ==
    ASSUME FileTyped, DoRestore
    PROVE  DbOK(db')
<1>1. PICK f : f = file.tables
  OBVIOUS
<1>2. CopyTyped(f) /\ CopySound(f)
  BY <1>1 DEF FileTyped, NoFile, DoRestore
<1>3. PICK n : n = Restored(f)
  OBVIOUS
<1>4. /\ n \in Database /\ n.users = f["users"] /\ n.tags = f["tags"]
      /\ n.links = f["links"] /\ n.notes = f["notes"] /\ n.promoted = f["promoted"]
      /\ n.rules = f["rules"] /\ n.sites = f["sites"]
      /\ \A i \in Ids : n.entries[i] = RestoredRow(f, i)
      /\ PresentIn(n) = IdsIn(f)
  BY <1>2, <1>3, RestoredFits
<1>5. Resolves(f) /\ db' = n
  BY <1>1, <1>3 DEF DoRestore
<1>6. DbTyped(n)
  BY <1>4, <1>5 DEF DbTyped, Resolves, InsertLinks, InsertAnnotations, InsertMemos,
     InsertTaggingRules, InsertSiteRules
<1>7. DbOwned(n)
  BY <1>2, <1>4, <1>5 DEF DbOwned, Resolves, InsertEntries, InsertTags, CopySound
<1>8. DbAgrees(n)
  BY <1>2, <1>4, RestoredRowFits DEF DbAgrees
<1> QED BY <1>5, <1>6, <1>7, <1>8 DEF DbOK

-----------------------------------------------------------------------------
(* The tables, the requests and the files, in every step.                   *)

(* A write counts as one event, or changes nothing.                         *)
LEMMA WriteCounts ==
    ASSUME Write
    PROVE  Begin \/ events' = events
<1>1. CASE \E u \in Users : \/ Register(u) \/ PublishPage(u)
                            \/ CreateRule(u) \/ DeleteRule(u)
                            \/ CreateSiteRule(u) \/ DeleteSiteRule(u)
  BY <1>1, Zenon
  DEF Register, PublishPage, CreateRule, DeleteRule, CreateSiteRule, DeleteSiteRule, Change
<1>2. CASE \E i \in Ids : InsertEntry(i) \/ TrashEntry(i) \/ RestoreEntry(i) \/ PurgeEntry(i)
  BY <1>2, Zenon DEF InsertEntry, TrashEntry, RestoreEntry, PurgeEntry, Change
<1>3. CASE \E i \in Ids : \/ Annotate(i) \/ ImportAnnotation(i) \/ DeleteAnnotation(i)
                          \/ SetPromoted(i) \/ DeleteMemo(i)
  BY <1>3, Zenon DEF Annotate, ImportAnnotation, DeleteAnnotation, SetPromoted, DeleteMemo, Change
<1>4. CASE \E i \in Ids, t \in Tags : LinkTag(i, t) \/ UnlinkTag(i, t)
  BY <1>4, Zenon DEF LinkTag, UnlinkTag, Change
<1>5. CASE \E t \in Tags : CreateTag(t) \/ DeleteTag(t)
  BY <1>5, Zenon DEF CreateTag, DeleteTag, Change
<1>6. CASE \/ \E ids \in SUBSET Ids : ArchiveByIds(ids)
           \/ \E i \in Ids, flags, stamps \in SUBSET Flags :
                 RestoreImportStatus(i, flags, stamps)
  BY <1>6, Zenon DEF ArchiveByIds, RestoreImportStatus, Change
<1> QED BY <1>1, <1>2, <1>3, <1>4, <1>5, <1>6 DEF Write

(* The history of a backup is what it says.                                 *)
LEMMA WatchStays ==
    ASSUME Observe
    PROVE  WatchTyped'
<1>1. CASE backup'.at = "idle" \/ backup.at = "idle"
  BY <1>1 DEF Observe, WatchTyped
<1>2. CASE backup'.at # "idle" /\ backup.at # "idle"
  <2>1. PICK quiet \in BOOLEAN : quiet = (watch.quiet /\ db' = db)
    OBVIOUS
  <2>2. PICK added \in BOOLEAN : added = (\/ watch.added
                                          \/ ~(db'.users \subseteq db.users)
                                          \/ ~(db'.tags \subseteq db.tags)
                                          \/ ~(Present' \subseteq Present))
    OBVIOUS
  <2>3. watch' = [quiet |-> quiet, added |-> added]
    BY <1>2, <2>1, <2>2 DEF Observe
  <2> QED BY <2>3 DEF WatchTyped
<1> QED BY <1>1, <1>2

(* The tables keep their references, and flags agree with their times.      *)
LEMMA TablesStay ==
    ASSUME TablesInv, [Next]_vars
    PROVE  TablesInv'
<1>1. /\ DbOK(db) /\ RequestsOK /\ events \in Nat /\ events <= MaxEvents /\ BackupTyped
      /\ FileTyped /\ WatchTyped
  BY TablesAssumption DEF TablesInv
<1>2. CASE UNCHANGED vars
  <2>1. UNCHANGED <<db, events, walk, req, backup, file, watch, steady>>
    BY <1>2 DEF vars
  <2>2. DbOK(db')
    BY <1>1, <2>1
  <2> QED BY <2>1, <2>2 DEF TablesInv, RequestsOK, BackupTyped, FileTyped, WatchTyped, DbOK,
          DbTyped, DbOwned, DbAgrees, PresentIn
<1>3. ASSUME Next
      PROVE  /\ DbOK(db') /\ RequestsOK' /\ (Begin \/ events' = events) /\ BackupTyped'
             /\ FileTyped'
  <2>1. CASE Write /\ UNCHANGED <<walk, req, backup, file>>
    <3>1. DbOK(db') /\ (Begin \/ events' = events)
      BY <1>1, <2>1, WriteOK, WriteCounts
    <3> QED BY <1>1, <2>1, <3>1 DEF RequestsOK, BackupTyped, FileTyped
  <2>2. CASE ListStep /\ UNCHANGED <<backup, file>>
    <3>1. UNCHANGED <<db, req>> /\ (Begin \/ events' = events)
      BY <2>2 DEF ListStep, StartWalk, ListPage, EndWalk
    <3>2. DbOK(db')
      BY <1>1, <3>1
    <3> QED BY <1>1, <2>2, <3>1, <3>2 DEF RequestsOK, BackupTyped, FileTyped
  <2>3. CASE (\E r \in Requests : FlagStep(r)) /\ UNCHANGED <<backup, file>>
    <3>1. DbOK(db') /\ RequestsOK'
      BY <1>1, <2>3, FlagStepsOK
    <3>2. Begin \/ events' = events
      BY <2>3 DEF FlagStep, FindEntry, UpdateEntry, BulkMatch, BulkUpdate
    <3> QED BY <1>1, <2>3, <3>1, <3>2 DEF BackupTyped, FileTyped
  <2>4. CASE BackupStep /\ UNCHANGED <<walk, req>>
    <3>1. RequestsOK'
      BY <1>1, <2>4 DEF RequestsOK
    <3>2. CASE StartBackup
      <4>1. BackupTyped'
        BY <1>1, <3>2, StartTyped DEF StartBackup, TableNames
      <4>2. UNCHANGED <<db, file>> /\ Begin
        BY <3>2 DEF StartBackup, Start
      <4>3. DbOK(db')
        BY <1>1, <4>2
      <4> QED BY <1>1, <3>1, <4>1, <4>2, <4>3 DEF FileTyped
    <3>3. CASE \E u \in Users, scope \in Scopes : ExportAll(u, scope)
      <4>1. BackupTyped'
        BY <1>1, <3>3, StartTyped DEF ExportAll, TableNames
      <4>2. UNCHANGED <<db, file>> /\ Begin
        BY <3>3 DEF ExportAll, Start
      <4>3. DbOK(db')
        BY <1>1, <4>2
      <4> QED BY <1>1, <3>1, <4>1, <4>2, <4>3 DEF FileTyped
    <3>4. CASE ReadTable
      <4>1. UNCHANGED <<db, events, file>>
        BY <3>4 DEF ReadTable
      <4>2. DbOK(db')
        BY <1>1, <4>1
      <4> QED BY <1>1, <3>1, <3>4, <4>1, <4>2, ReadTableTyped DEF FileTyped
    <3>5. CASE FinishBackup
      <4>1. UNCHANGED <<db, events>>
        BY <3>5 DEF FinishBackup
      <4>2. DbOK(db')
        BY <1>1, <4>1
      <4> QED BY <1>1, <3>1, <3>5, <4>1, <4>2, FinishTyped
    <3>6. CASE Disconnect
      <4>1. UNCHANGED <<db, events>>
        BY <3>6 DEF Disconnect
      <4>2. DbOK(db')
        BY <1>1, <4>1
      <4> QED BY <1>1, <3>1, <3>6, <4>1, <4>2, DisconnectTyped
    <3>7. CASE DoRestore
      <4>1. UNCHANGED <<backup, file>> /\ Begin
        BY <3>7 DEF DoRestore
      <4> QED BY <1>1, <3>1, <3>7, <4>1, RestoreOK DEF BackupTyped, FileTyped
    <3> QED BY <2>4, <3>2, <3>3, <3>4, <3>5, <3>6, <3>7 DEF BackupStep
  <2> QED BY <1>3, <2>1, <2>2, <2>3, <2>4 DEF Next
<1>4. ASSUME Next
      PROVE  TablesInv'
  <2>1. WatchTyped'
    BY <1>4, WatchStays DEF Next
  <2>2. events' \in 0 .. MaxEvents
    BY <1>1, <1>3, <1>4, TablesAssumption DEF Begin
  <2>3. DbOK(db)'
    <3>1. DbOK(db')
      BY <1>3, <1>4
    <3> QED BY <3>1 DEF DbOK, DbTyped, DbOwned, DbAgrees, PresentIn
  <2> QED BY <1>3, <1>4, <2>1, <2>2, <2>3 DEF TablesInv
<1> QED BY <1>2, <1>4

(* One user with some entries of hers, with her tags.                       *)
LEMMA TablesBegin ==
    ASSUME TablesInit
    PROVE  DbOK(db) /\ events \in 0 .. MaxEvents
<1>1. PICK u \in Users : \E live \in SUBSET {i \in Ids : Owner[i] = u} :
       \E links \in SUBSET (live \X {t \in Tags : Owner[t] = u}) :
          db = [users |-> {u},
                entries |-> [i \in Ids |-> Blank(IF i \in live THEN "live" ELSE "unused")],
                tags |-> {t \in Tags : \E i \in Ids : <<i, t>> \in links},
                links |-> links, notes |-> {}, promoted |-> {},
                rules |-> {}, sites |-> {}, pages |-> {}]
  BY DEF TablesInit
<1>18. PICK live \in SUBSET {i \in Ids : Owner[i] = u} :
       \E links \in SUBSET (live \X {t \in Tags : Owner[t] = u}) :
          db = [users |-> {u},
                entries |-> [i \in Ids |-> Blank(IF i \in live THEN "live" ELSE "unused")],
                tags |-> {t \in Tags : \E i \in Ids : <<i, t>> \in links},
                links |-> links, notes |-> {}, promoted |-> {},
                rules |-> {}, sites |-> {}, pages |-> {}]
  BY <1>1
<1>2. PICK links \in SUBSET (live \X {t \in Tags : Owner[t] = u}) :
          db = [users |-> {u},
                entries |-> [i \in Ids |-> Blank(IF i \in live THEN "live" ELSE "unused")],
                tags |-> {t \in Tags : \E i \in Ids : <<i, t>> \in links},
                links |-> links, notes |-> {}, promoted |-> {},
                rules |-> {}, sites |-> {}, pages |-> {}]
  BY <1>18
<1>3. PICK x : x = [i \in Ids |-> Blank(IF i \in live THEN "live" ELSE "unused")]
  OBVIOUS
<1>4. PICK tags : tags = {t \in Tags : \E i \in Ids : <<i, t>> \in links}
  OBVIOUS
<1>5. \A i \in Ids : /\ x[i] \in Row /\ Agrees(x[i])
                     /\ x[i].at \in {"live", "trash"} <=> i \in live
  <2> TAKE i \in Ids
  <2>1. CASE i \in live
    <3>1. x[i] = Blank("live")
      BY <1>3, <2>1
    <3> QED BY <2>1, <3>1, RowFits
  <2>2. CASE i \notin live
    <3>1. x[i] = Blank("unused")
      BY <1>3, <2>2
    <3> QED BY <2>2, <3>1, RowFits
  <2> QED BY <2>1, <2>2
<1>6. x \in [Ids -> Row]
  BY <1>3, <1>5
<1>7. PICK d : d = db
  OBVIOUS
<1>8. d = [users |-> {u}, entries |-> x, tags |-> tags, links |-> links, notes |-> {},
           promoted |-> {}, rules |-> {}, sites |-> {}, pages |-> {}]
  BY <1>2, <1>3, <1>4, <1>7
<1>9. \A l \in links : /\ l \in Ids \X Tags /\ l = <<l[1], l[2]>> /\ l[1] \in live
                       /\ Owner[l[1]] = u /\ Owner[l[2]] = u
  OBVIOUS
<1>10. links \in SUBSET (Ids \X Tags) /\ tags \in SUBSET Tags
  BY <1>4, <1>9
<1>11. PresentIn(d) = live
  BY <1>5, <1>8 DEF PresentIn
<1>12. links \subseteq live \X tags
  <2> SUFFICES ASSUME NEW l \in links
               PROVE  l \in live \X tags
    OBVIOUS
  <2>1. l = <<l[1], l[2]>> /\ l[1] \in live /\ l[1] \in Ids /\ l[2] \in Tags
    BY <1>9
  <2>2. l[2] \in tags
    BY <1>4, <2>1
  <2> QED BY <2>1, <2>2
<1>13. \A t \in tags : Owner[t] = u
  <2> TAKE t \in tags
  <2>1. PICK i \in Ids : <<i, t>> \in links
    BY <1>4
  <2> QED BY <1>9, <2>1
<1>14. d \in Database
  BY <1>6, <1>8, <1>10 DEF Database
<1>15. DbTyped(d)
  BY <1>8, <1>11, <1>12, <1>14 DEF DbTyped
<1>16. DbOwned(d)
  BY <1>8, <1>9, <1>11, <1>13 DEF DbOwned
<1>17. DbAgrees(d)
  BY <1>5, <1>8 DEF DbAgrees
<1> QED BY <1>7, <1>15, <1>16, <1>17, TablesAssumption DEF DbOK, TablesInit

(* The tables keep their references, an entry has the time of a flag        *)
(* exactly if it has the flag, a PATCH holds a row of which that is true,   *)
(* and so does every file.                                                  *)
THEOREM TablesInvariant == Spec => []TablesInv
<1>1. Init => TablesInv
  <2> SUFFICES ASSUME Init
               PROVE  TablesInv
    OBVIOUS
  <2>1. DbOK(db) /\ events \in 0 .. MaxEvents
    BY TablesBegin DEF Init
  <2>2. RequestsOK
    BY RequestFits DEF Init, ListingInit, RequestsOK
  <2>3. BackupTyped /\ FileTyped /\ WatchTyped
    BY DEF Init, BackupInit, BackupTyped, FileTyped, WatchTyped
  <2> QED BY <2>1, <2>2, <2>3 DEF TablesInv
<1>2. TablesInv /\ [Next]_vars => TablesInv'
  BY TablesStay
<1> QED BY <1>1, <1>2, PTL DEF Spec

(* An entry has the time of a flag exactly if it has the flag, whichever    *)
(* request, import or restore wrote it last, except for a flag that came    *)
(* with an import otherwise and was not changed since (FlagsAgree).         *)
THEOREM FlagsAgreeHolds == Spec => []FlagsAgree
<1>1. TablesInv => FlagsAgree
  BY DEF TablesInv, DbOK, DbAgrees, FlagsAgree
<1> QED BY <1>1, TablesInvariant, PTL

-----------------------------------------------------------------------------
(* The references of a file, and what a quiet backup copies.                *)

(* One more table: which it is, and that the rest stays.                    *)
LEMMA TableByTable ==
    ASSUME NEW f, CopyTyped(f), NEW at \in TableNames, NEW part,
           NEW g, g = WithTable(f, at, part)
    PROVE  /\ g["users"] = IF at = "users" THEN part ELSE f["users"]
           /\ g["entries"] = IF at = "entries" THEN part ELSE f["entries"]
           /\ g["tags"] = IF at = "tags" THEN part ELSE f["tags"]
           /\ g["links"] = IF at = "links" THEN part ELSE f["links"]
           /\ g["notes"] = IF at = "notes" THEN part ELSE f["notes"]
           /\ g["promoted"] = IF at = "promoted" THEN part ELSE f["promoted"]
           /\ g["rules"] = IF at = "rules" THEN part ELSE f["rules"]
           /\ g["sites"] = IF at = "sites" THEN part ELSE f["sites"]
           /\ IdsIn(g) = IF at = "entries" THEN {e.id : e \in part} ELSE IdsIn(f)
<1>1. g[at] = part /\ \A t \in TableNames \ {at} : g[t] = f[t]
  BY TablesFit
<1>2. /\ "users" \in TableNames /\ "entries" \in TableNames /\ "tags" \in TableNames
      /\ "links" \in TableNames /\ "notes" \in TableNames /\ "promoted" \in TableNames
      /\ "rules" \in TableNames /\ "sites" \in TableNames
  BY DEF TableNames
<1>3. g["entries"] = IF at = "entries" THEN part ELSE f["entries"]
  BY <1>1, <1>2
<1> QED BY <1>1, <1>2, <1>3 DEF IdsIn

(* What is not read yet.                                                    *)
LEMMA LeftByTable ==
    ASSUME NEW at \in TableNames
    PROVE  /\ "users" \notin Left(at) <=> at # "users"
           /\ "entries" \notin Left(at) <=> at \notin {"users", "entries"}
           /\ "tags" \notin Left(at) <=> at \notin {"users", "entries", "tags"}
           /\ "links" \notin Left(at) <=> at \notin {"users", "entries", "tags", "links"}
           /\ "notes" \notin Left(at) <=> at \in {"promoted", "rules", "sites"}
           /\ "promoted" \notin Left(at) <=> at \in {"rules", "sites"}
           /\ "rules" \notin Left(at) <=> at = "sites"
           /\ "sites" \in Left(at)
BY DEF Left, TableNames

(* What is in a table of d.                                                 *)
WholeTable(rows, at, d) ==
    /\ at = "users" => rows = d.users
    /\ at = "entries" => rows = {[id |-> i, row |-> d.entries[i]] : i \in PresentIn(d)}
    /\ at = "tags" => rows = d.tags
    /\ at = "links" => rows = d.links
    /\ at = "notes" => rows = d.notes
    /\ at = "promoted" => rows = d.promoted
    /\ at = "rules" => rows = d.rules
    /\ at = "sites" => rows = d.sites

(* A backup selects it.                                                     *)
LEMMA BackupReadsAll ==
    ASSUME NEW at \in TableNames
    PROVE  WholeTable(BackupRows(at), at, db)
<1>1. CASE at = "entries"
  BY <1>1, PresentIsPresent DEF WholeTable, BackupRows, Entry
<1>2. CASE at # "entries"
  BY <1>2 DEF WholeTable, BackupRows, TableNames
<1> QED BY <1>1, <1>2

(* Any part of the next table refers to what has been read.                 *)
LEMMA ResolvesGrows ==
    ASSUME NEW d, DbOK(d), NEW f, CopyTyped(f), NEW at \in TableNames,
           \A t \in Left(at) : f[t] = {}, Resolves(f), Covers(f, at, d),
           NEW part, RowsIn(part, at, d), NEW g, g = WithTable(f, at, part)
    PROVE  Resolves(g)
<1>1. /\ "users" \in Left(at) => f["users"] = {}
      /\ "entries" \in Left(at) => f["entries"] = {} /\ IdsIn(f) = {}
      /\ "tags" \in Left(at) => f["tags"] = {}
      /\ "links" \in Left(at) => f["links"] = {}
      /\ "notes" \in Left(at) => f["notes"] = {}
      /\ "promoted" \in Left(at) => f["promoted"] = {}
      /\ "rules" \in Left(at) => f["rules"] = {}
      /\ "sites" \in Left(at) => f["sites"] = {}
  BY DEF IdsIn
<1>2. /\ d.links \subseteq PresentIn(d) \X d.tags /\ d.notes \subseteq PresentIn(d)
      /\ d.promoted \subseteq PresentIn(d) /\ d.rules \subseteq d.users
      /\ d.sites \subseteq d.users
      /\ \A i \in PresentIn(d) : Owner[i] \in d.users
      /\ \A t \in d.tags : Owner[t] \in d.users
  BY DEF DbOK, DbTyped, DbOwned
<1>3. InsertEntries(g) /\ InsertTags(g)
  <2>1. CASE at = "users"
    BY <1>1, <2>1, TableByTable, LeftByTable DEF InsertEntries, InsertTags
  <2>2. CASE at = "entries"
    BY <1>1, <1>2, <2>2, TableByTable, LeftByTable
    DEF InsertEntries, InsertTags, RowsIn, Covers
  <2>3. CASE at = "tags"
    BY <1>1, <1>2, <2>3, TableByTable, LeftByTable
    DEF InsertEntries, InsertTags, RowsIn, Covers, Resolves
  <2>4. CASE at \notin {"users", "entries", "tags"}
    BY <2>4, TableByTable DEF InsertEntries, InsertTags, Resolves
  <2> QED BY <2>1, <2>2, <2>3, <2>4
<1>4. InsertLinks(g)
  <2>1. CASE at \in {"users", "entries", "tags"}
    BY <1>1, <2>1, TableByTable, LeftByTable DEF InsertLinks
  <2>2. CASE at = "links"
    <3>1. part \subseteq PresentIn(d) \X d.tags
      BY <1>2, <2>2 DEF RowsIn
    <3>2. PresentIn(d) \subseteq IdsIn(f) /\ d.tags \subseteq f["tags"]
      BY <2>2, LeftByTable DEF Covers
    <3>3. g["links"] = part /\ IdsIn(g) = IdsIn(f) /\ g["tags"] = f["tags"]
      BY <2>2, TableByTable
    <3> QED BY <3>1, <3>2, <3>3 DEF InsertLinks
  <2>3. CASE at \notin {"users", "entries", "tags", "links"}
    BY <2>3, TableByTable DEF InsertLinks, Resolves
  <2> QED BY <2>1, <2>2, <2>3
<1>5. InsertAnnotations(g)
  <2>1. CASE at \in {"users", "entries", "tags", "links"}
    BY <1>1, <2>1, TableByTable, LeftByTable DEF InsertAnnotations
  <2>2. CASE at = "notes"
    BY <1>2, <2>2, TableByTable, LeftByTable DEF InsertAnnotations, RowsIn, Covers
  <2>3. CASE at \notin {"users", "entries", "tags", "links", "notes"}
    BY <2>3, TableByTable DEF InsertAnnotations, Resolves
  <2> QED BY <2>1, <2>2, <2>3
<1>6. InsertMemos(g)
  <2>1. CASE at \in {"users", "entries", "tags", "links", "notes"}
    BY <1>1, <2>1, TableByTable, LeftByTable DEF InsertMemos
  <2>2. CASE at = "promoted"
    BY <1>2, <2>2, TableByTable, LeftByTable DEF InsertMemos, RowsIn, Covers
  <2>3. CASE at \notin {"users", "entries", "tags", "links", "notes", "promoted"}
    BY <2>3, TableByTable DEF InsertMemos, Resolves
  <2> QED BY <2>1, <2>2, <2>3
<1>7. InsertTaggingRules(g)
  <2>1. CASE at \notin {"rules", "sites"}
    <3>1. "rules" \in Left(at)
      BY <2>1, LeftByTable
    <3> QED BY <1>1, <2>1, <3>1, TableByTable DEF InsertTaggingRules
  <2>2. CASE at = "rules"
    BY <1>2, <2>2, TableByTable, LeftByTable DEF InsertTaggingRules, RowsIn, Covers
  <2>3. CASE at = "sites"
    BY <2>3, TableByTable DEF InsertTaggingRules, Resolves
  <2> QED BY <2>1, <2>2, <2>3
<1>8. InsertSiteRules(g)
  <2>1. CASE at # "sites"
    BY <1>1, <2>1, TableByTable, LeftByTable DEF InsertSiteRules
  <2>2. CASE at = "sites"
    BY <1>2, <2>2, TableByTable, LeftByTable DEF InsertSiteRules, RowsIn, Covers
  <2> QED BY <2>1, <2>2
<1> QED BY <1>3, <1>4, <1>5, <1>6, <1>7, <1>8 DEF Resolves

(* A whole table covers what is there, and is a copy of it.                 *)
LEMMA WholeTableCounts ==
    ASSUME NEW d, NEW f, CopyTyped(f), NEW at \in TableNames, NEW rows,
           WholeTable(rows, at, d), NEW g, g = WithTable(f, at, rows)
    PROVE  /\ Covers(f, at, d) => Covers(g, Successor(at), d)
           /\ \A was : d = was /\ CopyOf(f, was, at) => CopyOf(g, was, Successor(at))
<1>1. Left(Successor(at)) = Left(at) \ {at}
  BY LeftFacts
<1>2. at = "entries" => PresentIn(d) \subseteq {e.id : e \in rows}
  <2> SUFFICES ASSUME at = "entries", NEW i \in PresentIn(d)
               PROVE  \E e \in rows : e.id = i
    OBVIOUS
  <2>1. PICK e : e = [id |-> i, row |-> d.entries[i]]
    OBVIOUS
  <2>2. e \in rows /\ e.id = i
    BY <2>1 DEF WholeTable
  <2> QED BY <2>2
<1>3. Covers(f, at, d) => Covers(g, Successor(at), d)
  BY <1>1, <1>2, TableByTable DEF Covers, WholeTable
<1>4. ASSUME CopyOf(f, d, at)
      PROVE  CopyOf(g, d, Successor(at))
  <2>1. "users" \notin Left(Successor(at)) => g["users"] = d.users
    BY <1>1, <1>4, TableByTable DEF CopyOf, WholeTable
  <2>2. "entries" \notin Left(Successor(at)) =>
           g["entries"] = {[id |-> i, row |-> d.entries[i]] : i \in PresentIn(d)}
    BY <1>1, <1>4, TableByTable DEF CopyOf, WholeTable
  <2>3. "tags" \notin Left(Successor(at)) => g["tags"] = d.tags
    BY <1>1, <1>4, TableByTable DEF CopyOf, WholeTable
  <2>4. "links" \notin Left(Successor(at)) => g["links"] = d.links
    BY <1>1, <1>4, TableByTable DEF CopyOf, WholeTable
  <2>5. "notes" \notin Left(Successor(at)) => g["notes"] = d.notes
    BY <1>1, <1>4, TableByTable DEF CopyOf, WholeTable
  <2>6. "promoted" \notin Left(Successor(at)) => g["promoted"] = d.promoted
    BY <1>1, <1>4, TableByTable DEF CopyOf, WholeTable
  <2>7. "rules" \notin Left(Successor(at)) => g["rules"] = d.rules
    BY <1>1, <1>4, TableByTable DEF CopyOf, WholeTable
  <2>8. "sites" \notin Left(Successor(at)) => g["sites"] = d.sites
    BY <1>1, <1>4, TableByTable DEF CopyOf, WholeTable
  <2> QED BY <2>1, <2>2, <2>3, <2>4, <2>5, <2>6, <2>7, <2>8 DEF CopyOf
<1> QED BY <1>3, <1>4

(* The rows of an export refer to the entries it has read.                  *)
ExportPart(part, at, u, f, d) ==
    /\ at = "entries" => \A e \in part : Owner[e.id] = u
    /\ at = "tags" => \A t \in d.tags : Owner[t] = u => t \in part
    /\ at = "links" => \A l \in part : l[1] \in IdsIn(f) /\ l \in d.links
    /\ at = "notes" => part \subseteq IdsIn(f)

(* They are selected so.                                                    *)
LEMMA ExportReads ==
    ASSUME NEW at \in TableNames \ {"users"}, NEW u, NEW scope, NEW f
    PROVE  ExportPart(ExportRows(at, u, scope, IdsIn(f)), at, u, f, db)
<1>1. CASE at = "entries"
  BY <1>1 DEF ExportPart, ExportRows, Entry
<1>2. CASE at # "entries"
  BY <1>2 DEF ExportPart, ExportRows, TableNames
<1> QED BY <1>1, <1>2

(* An export stays closed.                                                  *)
LEMMA ExportGrows ==
    ASSUME NEW d, DbOK(d), NEW f, CopyTyped(f), NEW at \in TableNames \ {"users"},
           \A t \in Left(at) : f[t] = {}, NEW u, NEW added, ExportOK(f, at, u, d, added),
           NEW part, ExportPart(part, at, u, f, d), NEW g, g = WithTable(f, at, part)
    PROVE  ExportOK(g, Successor(at), u, d, added)
<1>1. Left(Successor(at)) = Left(at) \ {at}
  BY LeftFacts
<1>2. /\ at = "entries" => f["tags"] = {} /\ f["links"] = {} /\ f["notes"] = {}
      /\ at = "tags" => f["links"] = {} /\ f["notes"] = {}
  BY LeftByTable
<1>3. \A l \in d.links : l[2] \in d.tags /\ Owner[l[1]] = Owner[l[2]]
  BY DEF DbOK, DbTyped, DbOwned
<1>4. CASE at = "entries"
  <2>1. g["tags"] = {} /\ g["links"] = {} /\ g["notes"] = {} /\ IdsIn(g) = {e.id : e \in part}
    BY <1>2, <1>4, TableByTable
  <2>2. "tags" \in Left(Successor(at))
    BY <1>1, <1>4, LeftByTable
  <2> QED BY <1>4, <2>1, <2>2 DEF ExportOK, ExportPart
<1>5. CASE at = "tags"
  <2>1. g["tags"] = part /\ g["links"] = {} /\ g["notes"] = {} /\ IdsIn(g) = IdsIn(f)
    BY <1>2, <1>5, TableByTable
  <2> QED BY <1>5, <2>1 DEF ExportOK, ExportPart
<1>6. CASE at = "links"
  <2>1. g["tags"] = f["tags"] /\ g["links"] = part /\ g["notes"] = f["notes"]
        /\ IdsIn(g) = IdsIn(f)
    BY <1>6, TableByTable
  <2>2. "tags" \notin Left(at)
    BY <1>6, LeftByTable
  <2> QED BY <1>1, <1>3, <1>6, <2>1, <2>2 DEF ExportOK, ExportPart
<1>7. CASE at = "notes"
  <2>1. g["tags"] = f["tags"] /\ g["links"] = f["links"] /\ g["notes"] = part
        /\ IdsIn(g) = IdsIn(f)
    BY <1>7, TableByTable
  <2>2. "tags" \notin Left(at)
    BY <1>7, LeftByTable
  <2> QED BY <1>1, <1>7, <2>1, <2>2 DEF ExportOK, ExportPart
<1>8. CASE at \notin {"entries", "tags", "links", "notes"}
  <2>1. g["tags"] = f["tags"] /\ g["links"] = f["links"] /\ g["notes"] = f["notes"]
        /\ IdsIn(g) = IdsIn(f)
    BY <1>8, TableByTable
  <2>2. "tags" \notin Left(at)
    BY <1>8, LeftByTable DEF TableNames
  <2> QED BY <1>1, <1>8, <2>1, <2>2 DEF ExportOK
<1> QED BY <1>4, <1>5, <1>6, <1>7, <1>8

(* What a backup has read is as good as before after a change that the      *)
(* history reports.                                                         *)
LEMMA BackupLasts ==
    ASSUME NEW b, NEW d, NEW w, BackupHolds(b, d, w), NEW n, NEW v,
           v.quiet => w.quiet /\ n = d,
           ~v.added => /\ ~w.added /\ n.users \subseteq d.users /\ n.tags \subseteq d.tags
                       /\ PresentIn(n) \subseteq PresentIn(d)
    PROVE  BackupHolds(b, n, v)
<1>1. ASSUME b.kind = "backup", ~v.added, ~b.torn
      PROVE  Resolves(b.tables) /\ Covers(b.tables, b.at, n)
  BY <1>1 DEF BackupHolds, Covers
<1>2. ASSUME b.kind = "backup", v.quiet, ~b.torn
      PROVE  n = b.was /\ CopyOf(b.tables, b.was, b.at)
  BY <1>2 DEF BackupHolds
<1>3. ASSUME b.kind = "export"
      PROVE  ExportOK(b.tables, b.at, b.user, n, v.added)
  <2>1. ExportOK(b.tables, b.at, b.user, d, w.added)
    BY <1>3 DEF BackupHolds
  <2>2. CASE v.added
    BY <2>1, <2>2 DEF ExportOK
  <2>3. CASE ~v.added
    BY <2>1, <2>3 DEF ExportOK
  <2> QED BY <2>2, <2>3
<1> QED BY <1>1, <1>2, <1>3 DEF BackupHolds

(* What the history of a backup reports.                                    *)
LEMMA WatchReports ==
    ASSUME Observe, backup.at # "idle", backup'.at # "idle"
    PROVE  /\ watch'.quiet => watch.quiet /\ db' = db
           /\ ~watch'.added => /\ ~watch.added /\ db'.users \subseteq db.users
                               /\ db'.tags \subseteq db.tags
                               /\ PresentIn(db') \subseteq PresentIn(db)
<1>1. watch' = [quiet |-> watch.quiet /\ db' = db,
                added |-> \/ watch.added
                          \/ ~(db'.users \subseteq db.users)
                          \/ ~(db'.tags \subseteq db.tags)
                          \/ ~(Present' \subseteq Present)]
  BY DEF Observe
<1>2. watch'.quiet = (watch.quiet /\ db' = db)
  BY <1>1
<1>3. watch'.added = (\/ watch.added
                      \/ ~(db'.users \subseteq db.users)
                      \/ ~(db'.tags \subseteq db.tags)
                      \/ ~(Present' \subseteq Present))
  BY <1>1
<1>4. Present' = PresentIn(db') /\ Present = PresentIn(db)
  BY DEF Present, Live, Trash, PresentIn
<1> QED BY <1>2, <1>3, <1>4

(* A step that leaves a backup alone.                                       *)
LEMMA BackupStays ==
    ASSUME BackupInv, Observe, backup' = backup
    PROVE  BackupInv'
<1> SUFFICES ASSUME backup.at # "idle"
             PROVE  BackupHolds(backup, db', watch')
  BY DEF BackupInv, BackupHolds
<1>1. BackupHolds(backup, db, watch)
  BY DEF BackupInv
<1>2. PICK b, d, n, w, v : b = backup /\ d = db /\ n = db' /\ w = watch /\ v = watch'
  OBVIOUS
<1>3. /\ v.quiet => w.quiet /\ n = d
      /\ ~v.added => /\ ~w.added /\ n.users \subseteq d.users /\ n.tags \subseteq d.tags
                     /\ PresentIn(n) \subseteq PresentIn(d)
  BY <1>2, WatchReports
<1>4. BackupHolds(b, d, w)
  BY <1>1, <1>2
<1>5. BackupHolds(b, n, v)
  BY <1>3, <1>4, BackupLasts
<1> QED BY <1>2, <1>5

(* A backup or an export has just begun.                                    *)
LEMMA BackupBegins ==
    ASSUME DbOK(db), NEW kind \in {"backup", "export"}, NEW u \in Users \cup {Nobody},
           NEW scope \in Scopes \cup {"all"}, NEW first \in TableNames,
           first = IF kind = "backup" THEN "users" ELSE "entries",
           Start(kind, u, scope, first)
    PROVE  BackupInv'
<1>1. PICK b, d, n, v : b = backup' /\ d = db /\ n = db' /\ v = watch'
  OBVIOUS
<1>2. /\ b.at = first /\ b.kind = kind /\ b.tables = NoTables /\ b.was = d
  BY <1>1, StartTyped
<1>3. n = d
  BY <1>1 DEF Start
<1>4. \A t \in TableNames : b.tables[t] = {}
  BY <1>2, NothingRead
<1>5. /\ b.tables["users"] = {} /\ b.tables["entries"] = {} /\ b.tables["tags"] = {}
      /\ b.tables["links"] = {} /\ b.tables["notes"] = {} /\ b.tables["promoted"] = {}
      /\ b.tables["rules"] = {} /\ b.tables["sites"] = {}
  BY <1>4 DEF TableNames
<1>6. IdsIn(b.tables) = {}
  BY <1>5 DEF IdsIn
<1>7. Resolves(b.tables)
  BY <1>5, <1>6 DEF Resolves, InsertEntries, InsertTags, InsertLinks, InsertAnnotations,
     InsertMemos, InsertTaggingRules, InsertSiteRules
<1>8. kind = "backup" => Left(b.at) = TableNames
  BY <1>2, LeftFacts
<1>9. kind = "export" => "tags" \in Left(b.at)
  BY <1>2 DEF Left, TableNames
<1>10. kind = "backup" => Covers(b.tables, b.at, n) /\ CopyOf(b.tables, b.was, b.at)
  BY <1>8 DEF Covers, CopyOf, TableNames
<1>11. kind = "export" => ExportOK(b.tables, b.at, b.user, n, v.added)
  BY <1>5, <1>6, <1>9 DEF ExportOK
<1>12. BackupHolds(b, n, v)
  BY <1>2, <1>3, <1>7, <1>10, <1>11 DEF BackupHolds
<1> QED BY <1>1, <1>12 DEF BackupInv, BackupHolds

(* A backup or an export has read one more table.                           *)
LEMMA BackupReads ==
    ASSUME DbOK(db), BackupTyped, BackupInv, ReadTable, Observe
    PROVE  BackupInv'
<1>1. PICK b, d, w, v : b = backup /\ d = db /\ w = watch /\ v = watch'
  OBVIOUS
<1>2. b.at \in TableNames /\ db' = db
  BY <1>1 DEF ReadTable
<1>3. /\ b \in Writing /\ CopyTyped(b.tables) /\ CopySound(b.tables)
      /\ \A t \in Left(b.at) : b.tables[t] = {}
      /\ b.kind = "export" => b.at # "users"
  BY <1>1, <1>2 DEF BackupTyped, NoBackup, TableNames
<1>4. PICK rows : rows = Rows(backup)
  OBVIOUS
<1>5. PICK part \in SUBSET rows :
         /\ backup' = Read(backup, part, rows)
         /\ b.kind = "export" => part = rows
  BY <1>1, <1>4 DEF ReadTable, Read
<1>6. PICK c : c = Read(b, part, rows)
  OBVIOUS
<1>7. RowsIn(part, b.at, d)
  BY <1>1, <1>2, <1>4, <1>5, RowsFit, PartsFit
<1>8. PICK g : g = WithTable(b.tables, b.at, part)
  OBVIOUS
<1>9. CopyTyped(g) /\ g \in Copies
  BY <1>1, <1>2, <1>3, <1>7, <1>8, TableReadOK DEF CopyTyped
<1>10. /\ c.at = Successor(b.at) /\ c.kind = b.kind /\ c.tables = g /\ c.was = b.was
       /\ c.user = b.user
       /\ ~c.torn => ~b.torn /\ part = rows
  BY <1>2, <1>3, <1>6, <1>8, <1>9, ReadFits
<1>11. c = backup' /\ b.at # "idle" /\ c.at # "idle"
  <2>1. c.at \in TableNames \cup {"end"}
    BY <1>2, <1>10, LeftFacts
  <2> QED BY <1>1, <1>2, <1>5, <1>6, <2>1 DEF TableNames
<1>12. BackupHolds(b, d, w)
  BY <1>1, <1>11 DEF BackupInv
<1>13. /\ v.quiet => w.quiet
       /\ ~v.added => ~w.added
  BY <1>1, <1>11, WatchReports
<1>14. ASSUME c.kind = "backup", ~v.added, ~c.torn
       PROVE  Resolves(c.tables) /\ Covers(c.tables, c.at, d)
  <2>1. Resolves(b.tables) /\ Covers(b.tables, b.at, d) /\ part = rows
    BY <1>10, <1>12, <1>13, <1>14 DEF BackupHolds
  <2>2. Resolves(g)
    BY <1>1, <1>2, <1>3, <1>7, <1>8, <2>1, ResolvesGrows
  <2>3. WholeTable(rows, b.at, d)
    BY <1>1, <1>2, <1>4, <1>10, <1>14, BackupReadsAll DEF Rows
  <2>4. Covers(g, Successor(b.at), d)
    BY <1>2, <1>3, <1>8, <2>1, <2>3, WholeTableCounts
  <2> QED BY <1>10, <2>2, <2>4
<1>15. ASSUME c.kind = "backup", v.quiet, ~c.torn
       PROVE  d = c.was /\ CopyOf(c.tables, c.was, c.at)
  <2>1. d = b.was /\ CopyOf(b.tables, b.was, b.at) /\ part = rows
    BY <1>10, <1>12, <1>13, <1>15 DEF BackupHolds
  <2>2. WholeTable(rows, b.at, d)
    BY <1>1, <1>2, <1>4, <1>10, <1>15, BackupReadsAll DEF Rows
  <2>3. CopyOf(g, b.was, Successor(b.at))
    BY <1>2, <1>3, <1>8, <2>1, <2>2, WholeTableCounts
  <2> QED BY <1>10, <2>1, <2>3
<1>16. ASSUME c.kind = "export"
       PROVE  ExportOK(c.tables, c.at, c.user, d, v.added)
  <2>1. ExportOK(b.tables, b.at, b.user, d, w.added) /\ part = rows /\ b.at # "users"
    BY <1>3, <1>5, <1>10, <1>12, <1>16 DEF BackupHolds
  <2>2. rows = ExportRows(b.at, b.user, b.scope, IdsIn(b.tables))
    BY <1>1, <1>4, <1>10, <1>16 DEF Rows
  <2>3. ExportPart(rows, b.at, b.user, b.tables, d)
    BY <1>1, <1>2, <2>1, <2>2, ExportReads
  <2>4. ExportOK(g, Successor(b.at), b.user, d, w.added)
    BY <1>1, <1>2, <1>3, <1>8, <2>1, <2>3, ExportGrows
  <2>5. ExportOK(g, Successor(b.at), b.user, d, v.added)
    BY <1>13, <2>4 DEF ExportOK
  <2> QED BY <1>10, <2>5
<1>17. BackupHolds(c, d, v)
  BY <1>14, <1>15, <1>16 DEF BackupHolds
<1> QED BY <1>1, <1>2, <1>11, <1>17 DEF BackupInv, BackupHolds

(* A step that leaves the file alone.                                       *)
LEMMA FileStays ==
    ASSUME FileInv, file' = file
    PROVE  FileInv'
BY DEF FileInv, FileIsClosed

(* A client has all of a backup or an export.                               *)
LEMMA FileKept ==
    ASSUME BackupTyped, WatchTyped, BackupInv, FinishBackup
    PROVE  FileInv'
<1>1. PICK b, d, w, k : b = backup /\ d = db /\ w = watch /\ k = file'
  OBVIOUS
<1>2. /\ k.kind = b.kind /\ k.tables = b.tables /\ k.was = b.was
      /\ k.torn = b.torn /\ k.quiet = w.quiet /\ k.added = w.added
  BY <1>1, FinishTyped
<1>3. b.at = "end" /\ BackupHolds(b, d, w)
  BY <1>1 DEF FinishBackup, BackupInv
<1>4. "tags" \notin Left("end")
  BY DEF Left
<1>5. k.kind = "backup" /\ ~k.added /\ ~k.torn => Resolves(k.tables)
  BY <1>2, <1>3 DEF BackupHolds
<1>6. k.kind = "export" =>
         /\ \A l \in k.tables["links"] : l[1] \in IdsIn(k.tables)
         /\ k.tables["notes"] \subseteq IdsIn(k.tables)
         /\ ~k.added => \A l \in k.tables["links"] : l[2] \in k.tables["tags"]
  BY <1>2, <1>3 DEF BackupHolds, ExportOK
<1>7. k.kind = "backup" /\ k.quiet /\ ~k.torn => CopyOf(k.tables, k.was, "end")
  BY <1>2, <1>3 DEF BackupHolds
<1> QED BY <1>1, <1>5, <1>6, <1>7 DEF FileInv, FileIsClosed

(* A client has the lines of a backup up to where the connection ended.     *)
LEMMA FileCutOff ==
    ASSUME DbOK(db), BackupTyped, WatchTyped, BackupInv, Disconnect
    PROVE  FileInv'
<1>1. PICK b, d, w, k : b = backup /\ d = db /\ w = watch /\ k = file'
  OBVIOUS
<1>2. /\ k.kind = "backup" /\ k.quiet = FALSE /\ k.added = w.added /\ k.torn = b.torn
  BY <1>1, DisconnectTyped
<1>3. PICK part \in SUBSET Rows(backup) : k.tables = WithTable(b.tables, b.at, part)
  BY <1>1, DisconnectTyped
<1>4. b.at \in TableNames /\ b.kind = "backup"
  BY <1>1 DEF Disconnect
<1>5. b \in Writing /\ CopyTyped(b.tables) /\ \A t \in Left(b.at) : b.tables[t] = {}
  BY <1>1, <1>4 DEF BackupTyped, NoBackup, TableNames
<1>6. BackupHolds(b, d, w)
  BY <1>1, <1>4 DEF BackupInv, TableNames
<1>7. RowsIn(part, b.at, d)
  BY <1>1, <1>3, <1>4, RowsFit, PartsFit
<1>8. PICK g : g = WithTable(b.tables, b.at, part)
  OBVIOUS
<1>9. ASSUME ~k.added, ~k.torn
      PROVE  Resolves(k.tables)
  <2>1. Resolves(b.tables) /\ Covers(b.tables, b.at, d)
    BY <1>2, <1>4, <1>6, <1>9 DEF BackupHolds
  <2>2. Resolves(g)
    BY <1>1, <1>4, <1>5, <1>7, <1>8, <2>1, ResolvesGrows
  <2> QED BY <1>3, <1>8, <2>2
<1> QED BY <1>1, <1>2, <1>9 DEF FileInv, FileIsClosed

(* Files and backups, in every step.                                        *)
LEMMA FilesStay ==
    ASSUME TablesInv, BackupInv, FileInv, [Next]_vars
    PROVE  BackupInv' /\ FileInv'
<1>1. DbOK(db) /\ BackupTyped /\ FileTyped /\ WatchTyped
  BY DEF TablesInv
<1>2. CASE UNCHANGED vars
  <2>1. UNCHANGED <<db, backup, file, watch>>
    BY <1>2 DEF vars
  <2> QED BY <2>1, FileStays DEF BackupInv, BackupHolds
<1>3. CASE Next
  <2>1. Observe
    BY <1>3 DEF Next
  <2>2. CASE backup' = backup /\ file' = file
    BY <2>1, <2>2, BackupStays, FileStays
  <2>3. CASE StartBackup
    <3>1. BackupInv'
      BY <1>1, <2>3, BackupBegins DEF StartBackup, TableNames
    <3> QED BY <2>3, <3>1, FileStays DEF StartBackup, Start
  <2>4. CASE \E u \in Users, scope \in Scopes : ExportAll(u, scope)
    <3>1. BackupInv'
      BY <1>1, <2>4, BackupBegins DEF ExportAll, TableNames
    <3> QED BY <2>4, <3>1, FileStays DEF ExportAll, Start
  <2>5. CASE ReadTable
    <3>1. BackupInv'
      BY <1>1, <2>1, <2>5, BackupReads
    <3> QED BY <2>5, <3>1, FileStays DEF ReadTable
  <2>6. CASE FinishBackup
    <3>1. backup'.at = "idle"
      BY <2>6 DEF FinishBackup, NoBackup
    <3> QED BY <1>1, <2>6, <3>1, FileKept DEF BackupInv
  <2>7. CASE Disconnect
    <3>1. backup'.at = "idle"
      BY <2>7 DEF Disconnect, NoBackup
    <3> QED BY <1>1, <2>7, <3>1, FileCutOff DEF BackupInv
  <2>8. CASE DoRestore
    BY <2>1, <2>8, BackupStays, FileStays DEF DoRestore
  <2> QED BY <1>3, <2>2, <2>3, <2>4, <2>5, <2>6, <2>7, <2>8 DEF Next, BackupStep
<1> QED BY <1>2, <1>3

(* While nothing is added, what a backup has read resolves and covers the   *)
(* tables; while nothing changes, it is a copy of them; an export refers to *)
(* its own entries. The same is true of the file that results.              *)
THEOREM FilesInvariant == Spec => [](TablesInv /\ BackupInv /\ FileInv)
<1>1. Init => BackupInv /\ FileInv
  BY DEF Init, BackupInit, NoBackup, NoFile, BackupInv, FileInv, FileIsClosed
<1>2. TablesInv /\ (BackupInv /\ FileInv) /\ [Next]_vars => (BackupInv /\ FileInv)'
  BY FilesStay
<1> QED BY <1>1, <1>2, TablesInvariant, PTL DEF Spec

(* The references of a file that was cut off, or written while the tables   *)
(* changed, resolve in it unless something was added or a table ended early *)
(* (FileIsClosed).                                                          *)
THEOREM FileIsClosedHolds == Spec => []FileIsClosed
<1>1. FileInv => FileIsClosed
  BY DEF FileInv
<1> QED BY <1>1, FilesInvariant, PTL

(* Restoring a backup during which nothing changed brings the tables it     *)
(* covers back as they were (RestoreBringsBack).                            *)
THEOREM RestoreBringsBackHolds == Spec => RestoreBringsBack
<1>1. ASSUME FileTyped, FileInv, DoRestore, file.quiet, ~file.torn
      PROVE  /\ \A i \in Ids : file.was.entries[i].at \in {"live", "trash"}
                                 => db'.entries[i] = file.was.entries[i]
             /\ \A i \in Ids : file.was.entries[i].at \notin {"live", "trash"}
                                 => db'.entries[i].at \in {"unused", "gone"}
             /\ [db' EXCEPT !.entries = db.entries, !.pages = {}]
                  = [file.was EXCEPT !.entries = db.entries, !.pages = {}]
  <2>1. PICK f, w, n : f = file.tables /\ w = file.was /\ n = db'
    OBVIOUS
  <2>2. CopyTyped(f) /\ CopySound(f) /\ w \in Database /\ CopyOf(f, w, "end")
    BY <1>1, <2>1 DEF DoRestore, FileTyped, FileInv, Files, NoFile
  <2>3. n = Restored(f)
    BY <1>1, <2>1 DEF DoRestore
  <2>4. /\ n \in Database /\ n.users = f["users"] /\ n.tags = f["tags"]
        /\ n.links = f["links"] /\ n.notes = f["notes"] /\ n.promoted = f["promoted"]
        /\ n.rules = f["rules"] /\ n.sites = f["sites"]
        /\ \A i \in Ids : n.entries[i] = RestoredRow(f, i)
    BY <2>2, <2>3, RestoredFits
  <2>5. Left("end") = {}
    BY LeftFacts
  <2>6. /\ f["users"] = w.users /\ f["tags"] = w.tags /\ f["links"] = w.links
        /\ f["notes"] = w.notes /\ f["promoted"] = w.promoted
        /\ f["rules"] = w.rules /\ f["sites"] = w.sites
        /\ f["entries"] = {[id |-> i, row |-> w.entries[i]] : i \in PresentIn(w)}
    BY <2>2, <2>5 DEF CopyOf
  <2>7. ASSUME NEW i \in Ids, w.entries[i].at \in {"live", "trash"}
        PROVE  n.entries[i] = w.entries[i]
    <3>1. PICK e : e = [id |-> i, row |-> w.entries[i]]
      OBVIOUS
    <3>2. i \in PresentIn(w)
      BY <2>7 DEF PresentIn
    <3>3. e \in f["entries"] /\ e.id = i /\ e.row = w.entries[i]
      BY <2>6, <3>1, <3>2
    <3>4. RestoredRow(f, i) = e.row
      BY <2>2, <3>3, RestoredRowFits
    <3> QED BY <2>4, <3>3, <3>4
  <2>8. ASSUME NEW i \in Ids, w.entries[i].at \notin {"live", "trash"}
        PROVE  n.entries[i].at \in {"unused", "gone"}
    <3>1. i \notin PresentIn(w)
      BY <2>8 DEF PresentIn
    <3>2. i \notin IdsIn(f)
      BY <2>6, <3>1 DEF IdsIn
    <3> QED BY <2>2, <2>4, <3>2, RestoredRowFits
  <2>9. \A x : [n EXCEPT !.entries = x, !.pages = {}] = [w EXCEPT !.entries = x, !.pages = {}]
    <3> TAKE x
    <3>1. /\ n.users = w.users /\ n.tags = w.tags /\ n.links = w.links /\ n.notes = w.notes
          /\ n.promoted = w.promoted /\ n.rules = w.rules /\ n.sites = w.sites
      BY <2>4, <2>6
    <3>2. n \in Database /\ w \in Database
      BY <2>2, <2>4
    <3> QED BY <3>1, <3>2 DEF Database
  <2> QED BY <2>1, <2>7, <2>8, <2>9
<1>2. TablesInv /\ BackupInv /\ FileInv =>
         [DoRestore /\ file.quiet /\ ~file.torn =>
            /\ \A i \in Ids : file.was.entries[i].at \in {"live", "trash"}
                                 => db'.entries[i] = file.was.entries[i]
            /\ \A i \in Ids : file.was.entries[i].at \notin {"live", "trash"}
                                 => db'.entries[i].at \in {"unused", "gone"}
            /\ [db' EXCEPT !.entries = db.entries, !.pages = {}]
                 = [file.was EXCEPT !.entries = db.entries, !.pages = {}]]_vars
  BY <1>1, Zenon DEF TablesInv
<1> QED BY <1>2, FilesInvariant, PTL DEF RestoreBringsBack

-----------------------------------------------------------------------------
(* Pages. Entries are in a strict order, by time and id; the rank of one in *)
(* a list is the number of those before it.                                 *)

(* Entry i is listed before entry j.                                        *)
Precedes(i, j) == Before(Created[i], i, Created[j], j)

(* Of two entries, one is first.                                            *)
LEMMA StrictOrder ==
    /\ \A i \in Ids : ~Precedes(i, i)
    /\ \A i, j \in Ids : i = j \/ Precedes(i, j) \/ Precedes(j, i)
    /\ \A i, j, k \in Ids : Precedes(i, j) /\ Precedes(j, k) => Precedes(i, k)
<1>1. Ids \subseteq Nat /\ \A i \in Ids : Created[i] \in Nat
  BY TablesAssumption
<1> QED BY <1>1 DEF Precedes, Before

(* Lists are finite.                                                        *)
LEMMA ListsAreFinite ==
    ASSUME NEW S \in SUBSET Ids
    PROVE  IsFiniteSet(S) /\ Cardinality(S) \in Nat
BY TablesAssumption, FS_Subset, FS_CardinalityType

(* Those before an entry.                                                   *)
LEMMA AheadFacts ==
    ASSUME NEW S \in SUBSET Ids, NEW i \in Ids
    PROVE  /\ Ahead(S, i) = {j \in S : Precedes(j, i)}
           /\ Ahead(S, i) \in SUBSET S /\ Ahead(S, i) \in SUBSET Ids
           /\ IsFiniteSet(Ahead(S, i)) /\ Rank(S, i) \in Nat
<1>1. Ahead(S, i) = {j \in S : Precedes(j, i)}
  BY DEF Ahead, Precedes
<1>2. Ahead(S, i) \in SUBSET S /\ Ahead(S, i) \in SUBSET Ids
  BY <1>1
<1> QED BY <1>1, <1>2, ListsAreFinite DEF Rank

(* The rank of an entry is less than that of those after it, and than the   *)
(* length of the list.                                                      *)
LEMMA RankFacts ==
    ASSUME NEW S \in SUBSET Ids
    PROVE  /\ \A i \in Ids : Rank(S, i) \in Nat
           /\ \A i \in S : Rank(S, i) < Cardinality(S)
           /\ \A i, j \in S : Precedes(i, j) => Rank(S, i) < Rank(S, j)
<1>1. \A i \in Ids : Rank(S, i) \in Nat
  BY AheadFacts
<1>2. ASSUME NEW i \in S
      PROVE  Rank(S, i) < Cardinality(S)
  <2>1. Ahead(S, i) \in SUBSET S /\ i \notin Ahead(S, i)
    BY AheadFacts, StrictOrder
  <2>2. /\ Cardinality(Ahead(S, i)) <= Cardinality(S)
        /\ Cardinality(S) = Cardinality(Ahead(S, i)) => S = Ahead(S, i)
    BY <2>1, ListsAreFinite, FS_Subset
  <2>3. Rank(S, i) \in Nat /\ Cardinality(S) \in Nat
    BY <1>1, ListsAreFinite
  <2> QED BY <2>1, <2>2, <2>3 DEF Rank
<1>3. ASSUME NEW i \in S, NEW j \in S, Precedes(i, j)
      PROVE  Rank(S, i) < Rank(S, j)
  <2>1. Ahead(S, i) \in SUBSET Ahead(S, j)
    BY <1>3, AheadFacts, StrictOrder
  <2>2. i \in Ahead(S, j) /\ i \notin Ahead(S, i)
    BY <1>3, AheadFacts, StrictOrder
  <2>3. IsFiniteSet(Ahead(S, j))
    BY AheadFacts
  <2>4. /\ Cardinality(Ahead(S, i)) <= Cardinality(Ahead(S, j))
        /\ Cardinality(Ahead(S, j)) = Cardinality(Ahead(S, i)) => Ahead(S, j) = Ahead(S, i)
    BY <2>1, <2>3, FS_Subset
  <2>5. Rank(S, i) \in Nat /\ Rank(S, j) \in Nat
    BY <1>1
  <2> QED BY <2>2, <2>4, <2>5 DEF Rank
<1> QED BY <1>1, <1>2, <1>3

(* Ranks order a list as it is ordered.                                     *)
LEMMA RankOrders ==
    ASSUME NEW S \in SUBSET Ids, NEW i \in S, NEW j \in S
    PROVE  /\ Rank(S, i) = Rank(S, j) => i = j
           /\ Rank(S, i) < Rank(S, j) => Precedes(i, j)
<1>1. Rank(S, i) \in Nat /\ Rank(S, j) \in Nat
  BY RankFacts
<1>2. Precedes(i, j) => Rank(S, i) < Rank(S, j)
  BY RankFacts
<1>3. Precedes(j, i) => Rank(S, j) < Rank(S, i)
  BY RankFacts
<1> QED BY <1>1, <1>2, <1>3, StrictOrder

(* Every rank below the length of a list is that of an entry.               *)
LEMMA RanksAreAll ==
    ASSUME NEW S \in SUBSET Ids, NEW k \in Nat, k < Cardinality(S)
    PROVE  \E i \in S : Rank(S, i) = k
<1>1. PICK n \in Nat : n = Cardinality(S)
  BY ListsAreFinite
<1>2. PICK f : f = [i \in S |-> Rank(S, i)]
  OBVIOUS
<1>3. PICK T : T = 0 .. n - 1
  OBVIOUS
<1>4. IsFiniteSet(T) /\ Cardinality(T) = n
  BY <1>1, <1>3, FS_Interval
<1>5. f \in [S -> T]
  BY <1>1, <1>2, <1>3, RankFacts
<1>6. f \in Injection(S, T)
  BY <1>2, <1>5, RankOrders DEF Injection, IsInjective
<1>7. f \in Surjection(S, T)
  BY <1>1, <1>4, <1>6, FS_Injection
<1>8. k \in T
  BY <1>1, <1>3
<1> QED BY <1>2, <1>7, <1>8 DEF Surjection

(* A page of a list.                                                        *)
Page(S, o) == {i \in S : Rank(S, i) \in o .. o + PerPage - 1}

(* A page is full as long as there is an entry after it; and it has no more *)
(* than per_page.                                                           *)
LEMMA PageFacts ==
    ASSUME NEW S \in SUBSET Ids, NEW o \in Nat
    PROVE  /\ Page(S, o) \in SUBSET S /\ Cardinality(Page(S, o)) \in Nat
           /\ Cardinality(Page(S, o)) <= PerPage
           /\ \A i \in S : Rank(S, i) >= o + PerPage => Cardinality(Page(S, o)) = PerPage
<1>1. PICK P \in SUBSET S : P = Page(S, o)
  BY DEF Page
<1>2. PerPage \in Nat \ {0}
  BY ListingAssumption
<1>3. IsFiniteSet(P) /\ Cardinality(P) \in Nat
  BY ListsAreFinite
<1>4. PICK T : T = o .. o + PerPage - 1
  OBVIOUS
<1>5. IsFiniteSet(T) /\ Cardinality(T) = PerPage
  BY <1>2, <1>4, FS_Interval
<1>6. PICK f : f = [i \in P |-> Rank(S, i)]
  OBVIOUS
<1>7. f \in [P -> T]
  BY <1>1, <1>4, <1>6 DEF Page
<1>8. f \in Injection(P, T)
  BY <1>6, <1>7, RankOrders DEF Injection, IsInjective
<1>9. Cardinality(P) <= PerPage
  BY <1>5, <1>8, FS_Injection
<1>10. ASSUME NEW i \in S, Rank(S, i) >= o + PerPage
       PROVE  Cardinality(P) = PerPage
  <2>1. \A k \in T : \E j \in P : f[j] = k
    <3> TAKE k \in T
    <3>1. k \in Nat /\ k < o + PerPage
      BY <1>2, <1>4
    <3>2. Rank(S, i) < Cardinality(S) /\ Rank(S, i) \in Nat /\ Cardinality(S) \in Nat
      BY RankFacts, ListsAreFinite
    <3>3. k < Cardinality(S)
      BY <1>2, <1>10, <3>1, <3>2
    <3>4. PICK j \in S : Rank(S, j) = k
      BY <3>1, <3>3, RanksAreAll
    <3>5. j \in P
      BY <1>1, <1>4, <3>4 DEF Page
    <3> QED BY <1>6, <3>4, <3>5
  <2>2. f \in Surjection(P, T)
    BY <1>7, <2>1 DEF Surjection
  <2> QED BY <1>5, <1>8, <2>2, FS_Injection
<1> QED BY <1>1, <1>3, <1>9, <1>10

-----------------------------------------------------------------------------
(* The walk of a client.                                                    *)

(* The cursor after entry i.                                                *)
CursorAt(i) == [at |-> "time", created |-> Created[i], id |-> i]

(* What is beyond it.                                                       *)
LEMMA CursorFacts ==
    /\ \A i \in Ids : CursorAt(i) \in Cursors
    /\ \A i, j \in Ids : IsBeyond(j, CursorAt(i)) <=> Precedes(i, j)
    /\ \A i \in Ids : IsBeyond(i, [at |-> "start"])
    /\ [at |-> "start"] \in Cursors
<1>1. \A i \in Ids : Created[i] \in Nat
  BY TablesAssumption
<1> QED BY <1>1 DEF CursorAt, Cursors, IsBeyond, Precedes

(* What is after an entry beyond a cursor is beyond the cursor.             *)
LEMMA BeyondFollows ==
    ASSUME NEW c \in Cursors, NEW i \in Ids, NEW j \in Ids, IsBeyond(i, c), Precedes(i, j)
    PROVE  IsBeyond(j, c)
<1>1. Ids \subseteq Nat /\ Created[i] \in Nat /\ Created[j] \in Nat
  BY TablesAssumption
<1>2. CASE c.at = "start"
  BY <1>2 DEF IsBeyond
<1>3. CASE c.at # "start"
  <2>1. c.created \in Nat /\ c.id \in Nat
    BY <1>1, <1>3 DEF Cursors
  <2> QED BY <1>1, <1>3, <2>1 DEF IsBeyond, Precedes, Before
<1> QED BY <1>2, <1>3

(* A full page from a cursor has a last row, and beyond it there is all that*)
(* was beyond the cursor and is not on the page.                            *)
LEMMA FullPage ==
    ASSUME NEW c \in Cursors, NEW S \in SUBSET Ids, NEW R, R = {i \in S : IsBeyond(i, c)},
           NEW P, P = Page(R, 0), ~(Cardinality(P) < PerPage),
           NEW k, k = NextCursorFrom(P, c)
    PROVE  /\ k \in Cursors
           /\ \A i \in Ids : IsBeyond(i, k) => IsBeyond(i, c) /\ i \notin P
           /\ \A i \in R : ~IsBeyond(i, k) => i \in P
<1>1. PerPage \in Nat \ {0}
  BY ListingAssumption
<1>2. R \in SUBSET Ids /\ 0 \in Nat
  OBVIOUS
<1>3. P \in SUBSET R /\ Cardinality(P) = PerPage
  <2>1. /\ Page(R, 0) \in SUBSET R /\ Cardinality(Page(R, 0)) \in Nat
        /\ Cardinality(Page(R, 0)) <= PerPage
    BY <1>2, PageFacts
  <2> QED BY <1>1, <2>1
<1>4. P \in SUBSET Ids /\ PerPage - 1 \in Nat /\ PerPage - 1 < Cardinality(P)
  BY <1>1, <1>2, <1>3
<1>5. \E i \in P : Cardinality(Ahead(P, i)) = PerPage - 1
  BY <1>4, RanksAreAll DEF Rank
<1>6. PICK last : last = CHOOSE i \in P : Cardinality(Ahead(P, i)) = PerPage - 1
  OBVIOUS
<1>7. last \in P /\ Rank(P, last) = PerPage - 1
  BY <1>5, <1>6 DEF Rank
<1>8. k = CursorAt(last)
  BY <1>6 DEF NextCursorFrom, CursorAt
<1>9. last \in Ids /\ last \in R /\ IsBeyond(last, c)
  BY <1>2, <1>3, <1>7
<1>10. \A i \in Ids : IsBeyond(i, k) <=> Precedes(last, i)
  BY <1>8, <1>9, CursorFacts
<1>11. \A i \in P : ~Precedes(last, i)
  <2> SUFFICES ASSUME NEW i \in P, Precedes(last, i)
               PROVE  FALSE
    OBVIOUS
  <2>1. Rank(P, last) < Rank(P, i)
    BY <1>4, <1>7, RankFacts
  <2>2. Rank(P, i) < Cardinality(P) /\ Rank(P, i) \in Nat
    BY <1>4, RankFacts
  <2> QED BY <1>1, <1>3, <1>7, <2>1, <2>2
<1>12. ASSUME NEW i \in R, ~Precedes(last, i)
       PROVE  i \in P
  <2>1. i = last \/ Precedes(i, last)
    BY <1>2, <1>9, <1>12, StrictOrder
  <2>2. Rank(R, i) <= Rank(R, last)
    <3>1. Rank(R, i) \in Nat /\ Rank(R, last) \in Nat
      BY <1>2, <1>9, RankFacts
    <3>2. Precedes(i, last) => Rank(R, i) < Rank(R, last)
      BY <1>2, <1>9, RankFacts
    <3> QED BY <2>1, <3>1, <3>2
  <2>3. Rank(R, last) \in 0 .. 0 + PerPage - 1
    BY <1>7 DEF Page
  <2>4. Rank(R, i) \in Nat
    BY <1>2, RankFacts
  <2>5. Rank(R, i) \in 0 .. 0 + PerPage - 1
    BY <1>1, <2>2, <2>3, <2>4
  <2> QED BY <2>5 DEF Page
<1>13. \A i \in Ids : IsBeyond(i, k) => IsBeyond(i, c)
  BY <1>9, <1>10, BeyondFollows
<1> QED BY <1>2, <1>8, <1>9, <1>10, <1>11, <1>12, <1>13, CursorFacts

(* After a page that is not full there is nothing.                          *)
LEMMA LastPage ==
    ASSUME NEW S \in SUBSET Ids, NEW o \in Nat, Cardinality(Page(S, o)) < PerPage, NEW i \in S
    PROVE  Rank(S, i) < o + PerPage
<1>1. Rank(S, i) \in Nat /\ PerPage \in Nat
  BY RankFacts, ListingAssumption
<1>2. ~(Rank(S, i) >= o + PerPage)
  BY <1>1, PageFacts
<1> QED BY <1>1, <1>2

(* What the list of a page returns.                                         *)
LEMMA ListsPages ==
    ASSUME NEW w \in Walk, w.at = "next", NEW S, S = FindIdsMatching(w.filter, w.user)
    PROVE  /\ S \in SUBSET Ids
           /\ w.mode = "cursor" => ListEntries(w) = Page({i \in S : IsBeyond(i, w.cursor)}, 0)
           /\ w.mode # "cursor" => ListEntries(w) = Page(S, (w.page - 1) * PerPage)
<1>1. S \in SUBSET Ids
  BY DEF FindIdsMatching
<1>2. Beyond(S, w.cursor) = {i \in S : IsBeyond(i, w.cursor)}
  BY DEF Beyond, IsBeyond
<1>3. w.mode = "cursor" => ListEntries(w) = Page(Beyond(S, w.cursor), 0)
  BY DEF ListEntries, Page, Rank
<1>4. w.mode # "cursor" => ListEntries(w) = Page(S, (w.page - 1) * PerPage)
  BY DEF ListEntries, Page, Rank
<1> QED BY <1>1, <1>2, <1>3, <1>4

(* A page that is read.                                                     *)
Turned(w, page) ==
    [w EXCEPT
       !.at = IF Cardinality(page) < PerPage THEN "done" ELSE "next",
       !.cursor = IF w.mode = "cursor" THEN NextCursorFrom(page, @) ELSE @,
       !.page = IF w.mode = "page" THEN @ + 1 ELSE @,
       !.seen = [i \in Ids |-> IF i \in page THEN @[i] + 1 ELSE @[i]]]

(* Its record.                                                              *)
LEMMA TurnedFits ==
    ASSUME NEW w \in Walk, w.at = "next", w.mode = "page" => w.page <= MaxPage,
           NEW page \in SUBSET Ids,
           w.mode = "cursor" => NextCursorFrom(page, w.cursor) \in Cursors,
           NEW t, t = Turned(w, page)
    PROVE  /\ t \in Walk /\ t.mode = w.mode /\ t.filter = w.filter /\ t.user = w.user
           /\ t.at = IF Cardinality(page) < PerPage THEN "done" ELSE "next"
           /\ t.mode = "cursor" => t.cursor = NextCursorFrom(page, w.cursor)
           /\ t.mode = "page" => t.page = w.page + 1
           /\ \A i \in Ids : t.seen[i] = IF i \in page THEN w.seen[i] + 1 ELSE w.seen[i]
<1>1. /\ w \in [at : {"next", "done"}, mode : {"cursor", "page"}, user : Users,
              filter : Filters, cursor : Cursors, page : 1..MaxPage + 1,
              seen : [Ids -> Nat]]
  BY DEF Walk, NoWalk
<1>2. PICK at \in {"next", "done"} : at = IF Cardinality(page) < PerPage THEN "done" ELSE "next"
  OBVIOUS
<1>3. PICK c \in Cursors :
         c = IF w.mode = "cursor" THEN NextCursorFrom(page, w.cursor) ELSE w.cursor
  BY <1>1
<1>4. w.page \in 1 .. MaxPage + 1 /\ MaxPage \in Nat
  BY <1>1, ListingAssumption
<1>5. PICK p \in 1 .. MaxPage + 1 : p = IF w.mode = "page" THEN w.page + 1 ELSE w.page
  BY <1>4
<1>6. w.seen \in [Ids -> Nat]
  BY <1>1
<1>7. PICK seen : seen = [i \in Ids |-> IF i \in page THEN w.seen[i] + 1 ELSE w.seen[i]]
  OBVIOUS
<1>8. seen \in [Ids -> Nat]
  BY <1>6, <1>7
<1>9. t = [w EXCEPT !.at = at, !.cursor = c, !.page = p, !.seen = seen]
  BY <1>2, <1>3, <1>5, <1>7 DEF Turned
<1>10. /\ t \in Walk /\ t.mode = w.mode /\ t.filter = w.filter /\ t.user = w.user
       /\ t.at = at /\ t.cursor = c /\ t.page = p /\ t.seen = seen
  BY <1>1, <1>8, <1>9 DEF Walk
<1> QED BY <1>2, <1>3, <1>5, <1>7, <1>10

(* A walk by cursors has seen what it passed, once.                         *)
LEMMA CursorTurns ==
    ASSUME NEW w \in Walk, w.at = "next", w.mode = "cursor",
           NEW M, M = FindIdsMatching(w.filter, w.user), NEW K \in SUBSET Ids,
           CursorHolds(w, K, M),
           NEW t, t = Turned(w, ListEntries(w))
    PROVE  /\ t \in Walk /\ t.mode = w.mode /\ t.filter = w.filter /\ t.user = w.user
           /\ t.at \in {"next", "done"}
           /\ CursorHolds(t, K \cap M, M)
<1>1. PICK R : R = {i \in M : IsBeyond(i, w.cursor)}
  OBVIOUS
<1>2. PICK P : P = Page(R, 0)
  OBVIOUS
<1>3. M \in SUBSET Ids /\ ListEntries(w) = P
  BY <1>1, <1>2, ListsPages
<1>4. R \in SUBSET Ids /\ P \in SUBSET R /\ P \in SUBSET Ids /\ 0 \in Nat
  BY <1>1, <1>2, <1>3 DEF Page
<1>5. w.cursor \in Cursors /\ w.seen \in [Ids -> Nat]
  BY DEF Walk, NoWalk
<1>6. PICK c \in Cursors : c = w.cursor
  BY <1>5
<1>7. PICK k : k = NextCursorFrom(P, c)
  OBVIOUS
<1>8. ASSUME ~(Cardinality(P) < PerPage)
      PROVE  /\ k \in Cursors
             /\ \A i \in Ids : IsBeyond(i, k) => IsBeyond(i, c) /\ i \notin P
             /\ \A i \in R : ~IsBeyond(i, k) => i \in P
  <2>1. R = {i \in M : IsBeyond(i, c)}
    BY <1>1, <1>6
  <2> QED BY <1>2, <1>3, <1>7, <1>8, <2>1, FullPage
<1>9. k \in Cursors
  <2>1. CASE Cardinality(P) < PerPage
    BY <1>6, <1>7, <2>1 DEF NextCursorFrom
  <2> QED BY <1>8, <2>1
<1>10. t = Turned(w, P)
  BY <1>3
<1>11. /\ t \in Walk /\ t.mode = w.mode /\ t.filter = w.filter /\ t.user = w.user
       /\ t.at = IF Cardinality(P) < PerPage THEN "done" ELSE "next"
       /\ t.cursor = k
       /\ \A i \in Ids : t.seen[i] = IF i \in P THEN w.seen[i] + 1 ELSE w.seen[i]
  BY <1>4, <1>6, <1>7, <1>9, <1>10, TurnedFits
<1>12. /\ \A i \in Ids : w.seen[i] \in Nat /\ w.seen[i] <= 1
       /\ \A i \in Ids : IsBeyond(i, c) => w.seen[i] = 0
       /\ K \subseteq M
       /\ \A i \in K : ~IsBeyond(i, c) => w.seen[i] = 1
  BY <1>5, <1>6 DEF CursorHolds
<1>13. \A i \in P : IsBeyond(i, c)
  BY <1>1, <1>4, <1>6
<1>14. \A i \in Ids : t.seen[i] <= 1
  BY <1>4, <1>11, <1>12, <1>13
<1>15. ASSUME t.at = "next", NEW i \in Ids, IsBeyond(i, t.cursor)
       PROVE  t.seen[i] = 0
  BY <1>8, <1>11, <1>12, <1>15
<1>16. ASSUME NEW i \in K \cap M, t.at = "done" \/ ~IsBeyond(i, t.cursor)
       PROVE  t.seen[i] = 1
  <2>1. CASE ~IsBeyond(i, c)
    BY <1>11, <1>12, <1>13, <2>1
  <2>2. CASE IsBeyond(i, c)
    <3>1. i \in R /\ w.seen[i] = 0
      BY <1>1, <1>6, <1>12, <2>2
    <3>2. i \in P
      <4>1. CASE Cardinality(P) < PerPage
        <5>1. Rank(R, i) < 0 + PerPage /\ Rank(R, i) \in Nat /\ PerPage \in Nat
          BY <1>2, <1>4, <3>1, <4>1, LastPage, RankFacts, ListingAssumption
        <5> QED BY <1>2, <3>1, <5>1 DEF Page
      <4>2. CASE ~(Cardinality(P) < PerPage)
        BY <1>8, <1>11, <1>16, <3>1, <4>2
      <4> QED BY <4>1, <4>2
    <3> QED BY <1>11, <3>1, <3>2
  <2> QED BY <2>1, <2>2
<1>17. CursorHolds(t, K \cap M, M)
  BY <1>14, <1>15, <1>16 DEF CursorHolds
<1> QED BY <1>11, <1>17

(* A walk by numbers has seen the pages it passed.                          *)
LEMMA PageTurns ==
    ASSUME NEW w \in Walk, w.at = "next", w.mode = "page", w.page <= MaxPage,
           NEW M, M = FindIdsMatching(w.filter, w.user), NEW K \in SUBSET Ids,
           PageHolds(w, K, M),
           NEW t, t = Turned(w, ListEntries(w))
    PROVE  /\ t \in Walk /\ t.mode = w.mode /\ t.filter = w.filter /\ t.user = w.user
           /\ t.at \in {"next", "done"}
           /\ PageHolds(t, K, M)
<1>1. w.page \in Nat \ {0} /\ w.seen \in [Ids -> Nat]
  BY ListingAssumption DEF Walk, NoWalk
<1>2. PerPage \in Nat
  BY ListingAssumption
<1>3. (w.page - 1) * PerPage \in Nat /\ w.page * PerPage = (w.page - 1) * PerPage + PerPage
  BY <1>1, <1>2
<1>4. PICK o \in Nat : o = (w.page - 1) * PerPage /\ w.page * PerPage = o + PerPage
  BY <1>3
<1>5. PICK P : P = Page(M, o)
  OBVIOUS
<1>6. M \in SUBSET Ids /\ ListEntries(w) = P
  BY <1>4, <1>5, ListsPages
<1>7. P \in SUBSET Ids
  BY <1>5, <1>6 DEF Page
<1>8. t = Turned(w, P)
  BY <1>6
<1>9. /\ t \in Walk /\ t.mode = w.mode /\ t.filter = w.filter /\ t.user = w.user
      /\ t.at = IF Cardinality(P) < PerPage THEN "done" ELSE "next"
      /\ t.page = w.page + 1
      /\ \A i \in Ids : t.seen[i] = IF i \in P THEN w.seen[i] + 1 ELSE w.seen[i]
  BY <1>7, <1>8, TurnedFits
<1>10. (t.page - 1) * PerPage = o + PerPage
  <2>1. t.page - 1 = w.page
    BY <1>1, <1>9
  <2> QED BY <1>4, <2>1
<1>11. PageHolds(t, K, M)
  <2>1. CASE K = {}
    BY <2>1 DEF PageHolds
  <2>2. CASE K # {}
    <3>1. K = M /\ \A i \in K : w.seen[i] = IF Rank(K, i) < o THEN 1 ELSE 0
      BY <1>4, <2>2 DEF PageHolds
    <3>2. \A i \in K : t.seen[i] = IF Rank(K, i) < o + PerPage THEN 1 ELSE 0
      <4> TAKE i \in K
      <4>1. Rank(K, i) \in Nat
        BY RankFacts
      <4>2. i \in P <=> Rank(K, i) \in o .. o + PerPage - 1
        BY <1>5, <3>1 DEF Page
      <4> QED BY <1>2, <1>9, <3>1, <4>1, <4>2
    <3>3. t.at = "done" => \A i \in K : Rank(K, i) < o + PerPage
      BY <1>5, <1>6, <1>9, <3>1, LastPage
    <3> QED BY <1>9, <1>10, <3>1, <3>2, <3>3 DEF PageHolds
  <2> QED BY <2>1, <2>2
<1> QED BY <1>9, <1>11

(* A client begins to read.                                                 *)
Fresh(mode, u, f) ==
    [at |-> "next", mode |-> mode, user |-> u, filter |-> f,
     cursor |-> [at |-> "start"], page |-> 1, seen |-> [i \in Ids |-> 0]]

(* It has seen nothing.                                                     *)
LEMMA FreshHolds ==
    ASSUME NEW mode \in {"cursor", "page"}, NEW u \in Users, NEW f \in Filters,
           NEW w, w = Fresh(mode, u, f), NEW M \in SUBSET Ids
    PROVE  w.at = "next" /\ w.filter = f /\ w.user = u /\ WalkHolds(w, M, M)
<1>1. PICK c \in Cursors : c = [at |-> "start"]
  BY CursorFacts
<1>2. PICK seen \in [Ids -> Nat] : seen = [i \in Ids |-> 0]
  OBVIOUS
<1>3. w = [at |-> "next", mode |-> mode, user |-> u, filter |-> f, cursor |-> c, page |-> 1,
           seen |-> seen]
  BY <1>1, <1>2 DEF Fresh
<1>4. /\ w \in Walk /\ w.at = "next" /\ w.mode = mode /\ w.user = u /\ w.filter = f
      /\ w.cursor = c /\ w.page = 1 /\ w.seen = seen
  BY <1>3, ListingAssumption DEF Walk
<1>5. \A i \in Ids : w.seen[i] = 0 /\ IsBeyond(i, w.cursor)
  BY <1>1, <1>2, <1>4, CursorFacts
<1>6. CursorHolds(w, M, M)
  BY <1>4, <1>5 DEF CursorHolds
<1>7. PageHolds(w, M, M)
  <2>1. (w.page - 1) * PerPage = 0
    BY <1>4, ListingAssumption
  <2>2. \A i \in M : Rank(M, i) \in Nat
    BY RankFacts
  <2> QED BY <1>4, <1>5, <2>1, <2>2 DEF PageHolds
<1> QED BY <1>4, <1>6, <1>7 DEF WalkHolds

(* What matched all along, in a step that leaves a walk alone.              *)
LEMMA WalkLasts ==
    ASSUME NEW w, NEW K, NEW M, WalkHolds(w, K, M), w.at # "idle", NEW N,
           NEW L, L = IF w.at = "done" THEN K
                      ELSE IF w.mode = "cursor" THEN K \cap N
                      ELSE IF N = M THEN K ELSE {}
    PROVE  WalkHolds(w, L, N)
<1>1. w \in Walk /\ K \subseteq Ids /\ w.at \in {"next", "done"} /\ w.mode \in {"cursor", "page"}
  BY DEF WalkHolds, Walk, NoWalk
<1>2. L \subseteq K
  OBVIOUS
<1>3. CASE w.mode = "cursor"
  <2>1. CursorHolds(w, K, M)
    BY <1>1, <1>3 DEF WalkHolds
  <2>2. CursorHolds(w, L, N)
    BY <1>1, <1>2, <1>3, <2>1 DEF CursorHolds
  <2> QED BY <1>1, <1>2, <1>3, <2>2 DEF WalkHolds
<1>4. CASE w.mode = "page"
  <2>1. PageHolds(w, K, M)
    BY <1>1, <1>4 DEF WalkHolds
  <2>2. PageHolds(w, L, N)
    <3>1. CASE w.at = "done"
      BY <2>1, <3>1 DEF PageHolds
    <3>2. CASE w.at = "next" /\ N = M
      BY <1>4, <2>1, <3>2 DEF PageHolds
    <3>3. CASE w.at = "next" /\ N # M
      BY <1>4, <3>3 DEF PageHolds
    <3> QED BY <1>1, <3>1, <3>2, <3>3
  <2> QED BY <1>1, <1>2, <1>4, <2>2 DEF WalkHolds
<1> QED BY <1>1, <1>3, <1>4

(* A client that does not read holds nothing.                               *)
LEMMA NoWalkHolds ==
    ASSUME NEW M
    PROVE  WalkHolds(NoWalk, {}, M)
BY DEF WalkHolds, NoWalk, Walk

(* The walk, in every step.                                                 *)
LEMMA WalkStays ==
    ASSUME WalkInv, [Next]_vars
    PROVE  WalkInv'
<1>1. PICK w, K, M, v, L, N : /\ w = walk /\ K = steady /\ M = Matching
                              /\ v = walk' /\ L = steady' /\ N = Matching'
  OBVIOUS
<1>2. WalkHolds(w, K, M)
  BY <1>1 DEF WalkInv
<1>3. SUFFICES WalkHolds(v, L, N)
  BY <1>1 DEF WalkInv, WalkHolds, CursorHolds, PageHolds
<1>4. N \in SUBSET Ids
  BY <1>1 DEF Matching, FindIdsMatching
<1>5. CASE UNCHANGED vars
  <2>1. UNCHANGED <<db, walk, steady>>
    BY <1>5 DEF vars
  <2>2. N = M
    BY <1>1, <2>1 DEF Matching, FindIdsMatching, Matches, Live, LabelsOf
  <2> QED BY <1>1, <1>2, <2>1, <2>2
<1>6. CASE Next
  <2>1. /\ v.at = "idle" => L = {}
        /\ v.at # "idle" /\ w.at = "idle" => L = N
        /\ v.at # "idle" /\ w.at = "done" => L = K
        /\ v.at # "idle" /\ w.at = "next" /\ w.mode = "cursor" => L = K \cap N
        /\ v.at # "idle" /\ w.at = "next" /\ w.mode # "cursor" => L = IF N = M THEN K ELSE {}
    BY <1>1, <1>6 DEF Next, Observe
  <2>2. w \in Walk /\ (w = NoWalk \/ (w.at \in {"next", "done"} /\ w.mode \in {"cursor", "page"}))
    BY <1>2 DEF WalkHolds, Walk
  <2>3. CASE v = w
    <3>1. CASE w = NoWalk
      <4>1. L = {}
        BY <2>1, <2>3, <3>1 DEF NoWalk
      <4> QED BY <2>3, <3>1, <4>1, NoWalkHolds
    <3>2. CASE w # NoWalk
      <4>1. w.at # "idle"
        BY <2>2, <3>2
      <4>2. L = IF w.at = "done" THEN K
                ELSE IF w.mode = "cursor" THEN K \cap N
                ELSE IF N = M THEN K ELSE {}
        BY <2>1, <2>2, <2>3, <3>2
      <4> QED BY <1>2, <2>3, <4>1, <4>2, WalkLasts
    <3> QED BY <3>1, <3>2
  <2>4. ASSUME NEW mode \in {"cursor", "page"}, NEW u \in Users, NEW f \in Filters,
               StartWalk(mode, u, f)
        PROVE  WalkHolds(v, L, N)
    <3>1. v = Fresh(mode, u, f) /\ w.at = "idle"
      BY <1>1, <2>4 DEF StartWalk, Fresh
    <3>2. v.at = "next" /\ WalkHolds(v, N, N)
      BY <1>4, <3>1, FreshHolds
    <3> QED BY <2>1, <3>1, <3>2
  <2>5. CASE ListPage
    <3>1. /\ w.at = "next" /\ (w.mode = "page" => w.page <= MaxPage)
          /\ db' = db /\ v = Turned(w, ListEntries(w))
      BY <1>1, <2>5 DEF ListPage, Turned
    <3>2. M = FindIdsMatching(w.filter, w.user) /\ K \in SUBSET Ids
      BY <1>1, <1>2 DEF Matching, WalkHolds
    <3>3. v.filter = w.filter /\ v.user = w.user => N = M
      BY <1>1, <3>1 DEF Matching, FindIdsMatching, Matches, Live, LabelsOf
    <3>4. CASE w.mode = "cursor"
      <4>1. CursorHolds(w, K, M)
        BY <1>2, <3>1, <3>4 DEF WalkHolds
      <4>2. /\ v \in Walk /\ v.mode = w.mode /\ v.filter = w.filter /\ v.user = w.user
            /\ v.at \in {"next", "done"} /\ CursorHolds(v, K \cap M, M)
        BY <2>2, <3>1, <3>2, <3>4, <4>1, CursorTurns
      <4>3. N = M /\ L = K \cap M
        BY <2>1, <3>1, <3>3, <3>4, <4>2
      <4> QED BY <3>2, <3>4, <4>2, <4>3 DEF WalkHolds
    <3>5. CASE w.mode = "page"
      <4>1. PageHolds(w, K, M)
        BY <1>2, <3>1, <3>5 DEF WalkHolds
      <4>2. /\ v \in Walk /\ v.mode = w.mode /\ v.filter = w.filter /\ v.user = w.user
            /\ v.at \in {"next", "done"} /\ PageHolds(v, K, M)
        BY <2>2, <3>1, <3>2, <3>5, <4>1, PageTurns
      <4>3. N = M /\ L = K
        BY <2>1, <3>1, <3>3, <3>5, <4>2
      <4> QED BY <3>2, <3>5, <4>2, <4>3 DEF WalkHolds
    <3> QED BY <2>2, <3>1, <3>4, <3>5 DEF NoWalk
  <2>6. CASE EndWalk
    <3>1. v = NoWalk
      BY <1>1, <2>6 DEF EndWalk
    <3>2. L = {}
      BY <2>1, <3>1 DEF NoWalk
    <3> QED BY <3>1, <3>2, NoWalkHolds
  <2>7. v = w \/ ListStep
    BY <1>1, <1>6 DEF Next, FlagStep, FindEntry, UpdateEntry, BulkMatch, BulkUpdate
  <2> QED BY <2>3, <2>4, <2>5, <2>6, <2>7 DEF ListStep
<1> QED BY <1>5, <1>6

(* All of it, for every number of users, entries, tags, filters, requests   *)
(* and statements.                                                          *)
THEOREM ReadersInvariant == Spec => []ReadersInv
<1>1. Init => WalkInv
  BY NoWalkHolds DEF Init, ListingInit, WalkInv
<1>2. WalkInv /\ [Next]_vars => WalkInv'
  BY WalkStays
<1> QED BY <1>1, <1>2, FilesInvariant, PTL DEF Spec, ReadersInv

(* The variables have their types, and every reference of the tables its    *)
(* row (TypeOK).                                                            *)
THEOREM TypeCorrect == Spec => []TypeOK
<1>1. ReadersInv => TypeOK
  <2> SUFFICES ASSUME ReadersInv
               PROVE  TypeOK
    OBVIOUS
  <2>1. /\ DbOK(db) /\ events \in 0 .. MaxEvents /\ RequestsOK
        /\ BackupTyped /\ FileTyped /\ WatchTyped
    BY DEF ReadersInv, TablesInv
  <2>2. walk \in Walk /\ steady \subseteq Ids
    BY DEF ReadersInv, WalkInv, WalkHolds
  <2>3. backup.at \in TableNames \cup {"idle", "end"}
    BY <2>1 DEF BackupTyped, NoBackup, Writing
  <2>4. file.kind \in {"none", "backup", "export"}
    BY <2>1 DEF FileTyped, NoFile, Files
  <2>5. /\ db \in Database /\ db.links \subseteq Present \X db.tags
        /\ db.notes \subseteq Present /\ db.promoted \subseteq Present
        /\ \A i \in Present : Owner[i] \in db.users
    BY <2>1, PresentIsPresent DEF DbOK, DbTyped, DbOwned
  <2> QED BY <2>1, <2>2, <2>3, <2>4, <2>5 DEF TypeOK, RequestsOK, WatchTyped
<1> QED BY <1>1, ReadersInvariant, PTL

(* A client that reads to the end sees every entry that matched all along   *)
(* exactly once, and by cursors none twice (WalkComplete).                  *)
THEOREM WalkCompleteHolds == Spec => []WalkComplete
<1>1. ReadersInv => WalkComplete
  <2> SUFFICES ASSUME ReadersInv, walk.at = "done"
               PROVE  /\ \A i \in steady : walk.seen[i] = 1
                      /\ walk.mode = "cursor" => \A i \in Ids : walk.seen[i] <= 1
    BY DEF WalkComplete
  <2>1. WalkHolds(walk, steady, Matching)
    BY DEF ReadersInv, WalkInv
  <2>2. walk.mode \in {"cursor", "page"}
    BY <2>1 DEF WalkHolds, Walk, NoWalk
  <2>3. CASE walk.mode = "cursor"
    BY <2>1, <2>3 DEF WalkHolds, CursorHolds
  <2>4. CASE walk.mode = "page"
    BY <2>1, <2>4 DEF WalkHolds, PageHolds
  <2> QED BY <2>2, <2>3, <2>4
<1> QED BY <1>1, ReadersInvariant, PTL
=============================================================================
