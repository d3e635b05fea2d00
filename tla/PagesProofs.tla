---------------------------- MODULE PagesProofs ----------------------------
(***************************************************************************)
(* Proofs about published pages, for any pages, uploads, requests and       *)
(* failures. What a request has in hand fits where it stands (PagesInv);    *)
(* from it follow the types, and that what the owner says of a page stays.  *)
(* Who places files is alone with its page and its directory or marked, and *)
(* has got as far as it says (WholeInv); from that, and from what stays of  *)
(* what the owner says, it follows that a page is published as a whole.     *)
(***************************************************************************)
EXTENDS Pages, FiniteSetTheorems, SequenceTheorems, TLAPS

(* What a new page is made with.                                            *)
Given == [status : {"active"}, pass : Passwords \cup {NoPassword}, entry : Names]

(* What is known of the files of a page from its row.                       *)
FilesOf(row) == row.file_count

(* What a request has in hand where it stands; pages are those that exist.  *)
RequestOK(q, pages) ==
    /\ q \in Request
    /\ q.at \in {"insert", "clear", "list", "copy", "count", "remove"} => q.upload \in Uploads
    /\ q.at = "insert" => q.edit \in Given
    /\ q.at \in {"write", "upgrade"} => q.row.at = "here"
    /\ q.at = "upgrade" => q.row.password.pass \in Passwords
    /\ q.at \notin {"idle", "insert"} => q.page \in pages

RequestsOK ==
    /\ req \in [Requests -> Request]
    /\ \A r \in Requests : RequestOK(req[r], Present)

(* The types of everything else.                                            *)
RestOK ==
    /\ storage \in Storages
    /\ rows \in [Slugs -> Row]
    /\ files \in [Slugs -> [Names -> Uploads \cup {NoUpload}]]
    /\ staged \in [Uploads -> Directory]
    /\ timers \subseteq Uploads /\ removing \subseteq Uploads
    /\ events \in 0..MaxEvents /\ torn \subseteq Slugs /\ crossed \subseteq Slugs
    /\ said \in [Slugs -> [status : Status, pass : Passwords \cup {NoPassword}, entry : Names]]
    /\ \A u \in Uploads : staged[u].at # "there" => u \notin removing

PagesInv == RestOK /\ RequestsOK

-----------------------------------------------------------------------------
(* Files are counted among the names there are.                             *)
LEMMA CountFacts ==
  ASSUME NEW S \in SUBSET Names
  PROVE  IsFiniteSet(S) /\ Cardinality(S) \in 0..Cardinality(Names)
<1>1. IsFiniteSet(S) /\ Cardinality(S) <= Cardinality(Names)
  BY FS_Subset, PagesAssumption
<1>2. Cardinality(S) \in Nat /\ Cardinality(Names) \in Nat
  BY <1>1, FS_CardinalityType, PagesAssumption
<1>. QED  BY <1>1, <1>2

(* A row that is here, and what the statements make of one.                 *)
Here == {row \in Row : row.at = "here"}

WithFiles(row, c) == [row EXCEPT !.file_count = c]
WithSay(row, s, w, n) == [row EXCEPT !.status = s, !.password = w, !.entry_file = n]

(* The deletion mark and the password of a row change nothing else in it.   *)
LEMMA RowFacts ==
  ASSUME NEW row \in Here
  PROVE  /\ row.deleted \in BOOLEAN /\ row.status \in Status /\ row.password \in Password
         /\ row.entry_file \in Names /\ row.file_count \in 0..Cardinality(Names)
         /\ \A d \in BOOLEAN :
               /\ [row EXCEPT !.deleted = d] \in Here
               /\ Says([row EXCEPT !.deleted = d]) = Says(row)
               /\ FilesOf([row EXCEPT !.deleted = d]) = FilesOf(row)
         /\ \A w \in Password :
               /\ [row EXCEPT !.password = w] \in Here
               /\ Says([row EXCEPT !.password = w]) =
                    [status |-> row.status, pass |-> w.pass, entry |-> row.entry_file]
               /\ FilesOf([row EXCEPT !.password = w]) = FilesOf(row)
<1>1. row \in [at : {"here"}, deleted : BOOLEAN, status : Status, password : Password,
               entry_file : Names, file_count : 0..Cardinality(Names)]
  BY DEF Here, Row
<1>. QED  BY <1>1 DEF Here, Row, Says, FilesOf

(* The statement that writes the files of a page leaves what it says.       *)
LEMMA WithFilesFacts ==
  ASSUME NEW row \in Here, NEW c \in 0..Cardinality(Names)
  PROVE  /\ WithFiles(row, c) \in Here
         /\ Says(WithFiles(row, c)) = Says(row)
         /\ FilesOf(WithFiles(row, c)) = c
<1>1. row \in [at : {"here"}, deleted : BOOLEAN, status : Status, password : Password,
               entry_file : Names, file_count : 0..Cardinality(Names)]
  BY DEF Here, Row
<1>. QED  BY <1>1 DEF Here, Row, Says, FilesOf, WithFiles

(* The statement that writes what a page says leaves its files.             *)
LEMMA WithSayFacts ==
  ASSUME NEW row \in Here, NEW s \in Status, NEW w \in Password, NEW n \in Names
  PROVE  /\ WithSay(row, s, w, n) \in Here
         /\ Says(WithSay(row, s, w, n)) = [status |-> s, pass |-> w.pass, entry |-> n]
         /\ FilesOf(WithSay(row, s, w, n)) = FilesOf(row)
<1>1. row \in [at : {"here"}, deleted : BOOLEAN, status : Status, password : Password,
               entry_file : Names, file_count : 0..Cardinality(Names)]
  BY DEF Here, Row
<1>. QED  BY <1>1 DEF Here, Row, Says, FilesOf, WithSay

(* A stored password is the one that was typed, hashed or not.              *)
LEMMA PasswordFacts ==
  /\ \A pass \in Passwords \cup {NoPassword} : /\ Stored(pass) \in Password
                                               /\ Stored(pass).pass = pass
  /\ \A pass \in Passwords, h \in BOOLEAN : [pass |-> pass, hashed |-> h] \in Password
  /\ \A w \in Password : w.pass \in Passwords \cup {NoPassword}
  BY PagesAssumption DEF Stored, Password

(* Requests, and what becomes of one.                                       *)
LEMMA RequestFacts ==
  ASSUME NEW q \in Request
  PROVE  /\ [q EXCEPT !.mixed = TRUE] \in Request
         /\ \A at \in Stages : [q EXCEPT !.at = at] \in Request
         /\ \A at \in Stages, todo \in SUBSET Names :
               [[q EXCEPT !.todo = todo] EXCEPT !.at = at] \in Request
         /\ \A at \in Stages, c \in 0..Cardinality(Names) :
               [[q EXCEPT !.at = at] EXCEPT !.count = c] \in Request
         /\ \A at \in Stages, row \in Row :
               [[q EXCEPT !.at = at] EXCEPT !.row = row] \in Request
  BY DEF Request

(* No request is a request.                                                 *)
LEMMA IdleFacts == Idle \in Request
<1>1. 0 \in 0..Cardinality(Names)
  BY CountFacts
<1>. QED  BY <1>1, PagesAssumption DEF Idle, Request, Stages, Nothing, Edit, NoRow, Row

(* A request is all right where it was, also if it shares files now.        *)
Shared(q) == [q EXCEPT !.mixed = TRUE]

(* That holds in every later state that has the same pages or more.         *)
LEMMA StaysOK ==
  ASSUME NEW P, NEW P2, P \subseteq P2, NEW q, RequestOK(q, P)
  PROVE  RequestOK(q, P2) /\ RequestOK(Shared(q), P2)
<1>1. q \in Request
  BY DEF RequestOK
<1>2. [q EXCEPT !.mixed = TRUE] \in Request
  BY <1>1, RequestFacts
<1>3. /\ [q EXCEPT !.mixed = TRUE].at = q.at /\ [q EXCEPT !.mixed = TRUE].upload = q.upload
      /\ [q EXCEPT !.mixed = TRUE].edit = q.edit /\ [q EXCEPT !.mixed = TRUE].row = q.row
      /\ [q EXCEPT !.mixed = TRUE].page = q.page
  BY <1>1 DEF Request
<1>. QED  BY <1>2, <1>3 DEF RequestOK, Shared

(* A request that has ended has nothing in hand.                            *)
LEMMA IdleOK == \A P : RequestOK(Idle, P)
  BY IdleFacts DEF RequestOK, Idle

(* All requests are all right if the one that moves is.                     *)
LEMMA OneMoves ==
  ASSUME PagesInv, NEW r \in Requests, NEW new, RequestOK(new, Present'),
         Present \subseteq Present',
         req' = [q \in Requests |-> req'[q]],
         req'[r] = new,
         \A q \in Requests \ {r} : req'[q] \in {req[q], Shared(req[q])}
  PROVE  RequestsOK'
<1>1. \A q \in Requests : RequestOK(req'[q], Present')
  BY StaysOK DEF PagesInv, RequestsOK
<1>2. \A q \in Requests : req'[q] \in Request
  BY <1>1 DEF RequestOK
<1>3. req' \in [Requests -> Request]
  BY <1>2
<1>. QED  BY <1>1, <1>3 DEF RequestsOK

(* The same for a step that changes one request only.                       *)
LEMMA OneChanges ==
  ASSUME PagesInv, NEW r \in Requests, NEW new, RequestOK(new, Present'),
         Present \subseteq Present', req' = [req EXCEPT ![r] = new]
  PROVE  RequestsOK'
<1>0. req \in [Requests -> Request]
  BY DEF PagesInv, RequestsOK
<1>1. req'[r] = new /\ \A q \in Requests \ {r} : req'[q] = req[q]
  BY <1>0
<1>2. \A q \in Requests : RequestOK(req'[q], Present')
  BY <1>1, StaysOK DEF PagesInv, RequestsOK
<1>3. \A q \in Requests : req'[q] \in Request
  BY <1>2 DEF RequestOK
<1>. QED  BY <1>0, <1>2, <1>3 DEF RequestsOK

-----------------------------------------------------------------------------
(* Each action keeps the types and what requests have in hand.              *)

(* What a request that only moves on must have in hand.                     *)
LEMMA StageFacts ==
  /\ \A at \in {"idle", "insert", "clear", "list", "copy", "count", "remove", "read", "write",
                "upgrade"} : at \in Stages
  /\ Event /\ RestOK => events' \in 0..MaxEvents
  BY PagesAssumption DEF Stages, Event, RestOK

(* Uploads and removals of directories touch no request and no page.        *)
LEMMA StagedNext ==
  ASSUME PagesInv, NEW u \in Uploads,
         Upload(u) \/ UploadFails(u) \/ Unlink(u) \/ RemoveDirectory(u)
  PROVE  PagesInv'
<1>1. req' = req /\ Present' = Present
  BY DEF Upload, UploadFails, Unlink, RemoveDirectory, Present
<1>2. RequestsOK'
  BY <1>1 DEF PagesInv, RequestsOK
<1>3. staged \in [Uploads -> Directory] /\ RestOK
  BY DEF PagesInv, RestOK
<1>4. PICK d \in Directory : /\ staged' = [staged EXCEPT ![u] = d]
                             /\ d.at # "there" => u \notin removing'
  <2>1. staged[u] \in Directory /\ Contents[u] \subseteq Names
    BY <1>3, PagesAssumption
  <2>2. CASE Upload(u)
    <3>1. [at |-> "there", files |-> Contents[u]] \in Directory
      BY <2>1 DEF Directory
    <3>. QED  BY <2>2, <3>1 DEF Upload
  <2>3. CASE UploadFails(u)
    <3>1. PICK at \in {"left", "gone"} : staged' = [staged EXCEPT ![u].at = at]
      BY <2>3 DEF UploadFails
    <3>2. [staged[u] EXCEPT !.at = at] \in Directory
      BY <2>1 DEF Directory
    <3>3. u \notin removing'
      BY <1>3, <2>3 DEF UploadFails, RestOK
    <3>. QED  BY <3>1, <3>2, <3>3
  <2>4. CASE Unlink(u)
    <3>1. PICK n \in staged[u].files : staged' = [staged EXCEPT ![u].files = @ \ {n}]
      BY <2>4 DEF Unlink
    <3>2. /\ [staged[u] EXCEPT !.files = staged[u].files \ {n}] \in Directory
          /\ [staged[u] EXCEPT !.files = staged[u].files \ {n}].at = staged[u].at
      BY <2>1 DEF Directory
    <3>3. staged[u].at = "there"
      BY <1>3, <2>4 DEF Unlink, RestOK
    <3>. QED  BY <3>1, <3>2, <3>3
  <2>5. CASE RemoveDirectory(u)
    <3>1. staged' = [staged EXCEPT ![u].at = "gone"] /\ u \notin removing'
      BY <2>5 DEF RemoveDirectory
    <3>2. [staged[u] EXCEPT !.at = "gone"] \in Directory
      BY <2>1 DEF Directory
    <3>. QED  BY <3>1, <3>2
  <2>. QED  BY <2>2, <2>3, <2>4, <2>5
<1>5. staged' \in [Uploads -> Directory]
  BY <1>3, <1>4
<1>6. \A v \in Uploads : staged'[v].at # "there" => v \notin removing'
  <2>1. \A v \in Uploads \ {u} : staged'[v] = staged[v]
    BY <1>3, <1>4
  <2>2. removing' \subseteq removing
    BY DEF Upload, UploadFails, Unlink, RemoveDirectory
  <2>3. staged'[u] = d
    BY <1>3, <1>4
  <2>. QED  BY <1>3, <1>4, <2>1, <2>2, <2>3 DEF RestOK
<1>7. RestOK'
  <2>1. events' \in 0..MaxEvents
    BY <1>3, StageFacts DEF Upload, UploadFails, Unlink, RemoveDirectory, RestOK
  <2>. QED
    BY <1>3, <1>5, <1>6, <2>1 DEF Upload, UploadFails, Unlink, RemoveDirectory, RestOK
<1>. QED  BY <1>2, <1>7 DEF PagesInv

(* A page is marked as deleted, or restored.                                *)
LEMMA DeletionNext ==
  ASSUME PagesInv, NEW p \in Slugs, DeletePage(p) \/ RestorePage(p)
  PROVE  PagesInv'
<1>1. rows \in [Slugs -> Row] /\ rows[p].at = "here" /\ RestOK
  <2>1. p \in Present
    BY DEF DeletePage, RestorePage, Found
  <2>. QED  BY <2>1 DEF PagesInv, RestOK, Present
<1>2. PICK d \in BOOLEAN : rows' = [rows EXCEPT ![p].deleted = d]
  BY DEF DeletePage, RestorePage
<1>3. [rows[p] EXCEPT !.deleted = d] \in Here
  BY <1>1, RowFacts DEF Here
<1>4. rows' \in [Slugs -> Row] /\ \A q \in Slugs : rows'[q].at = rows[q].at
  BY <1>1, <1>2, <1>3 DEF Here
<1>5. Present' = Present
  BY <1>4 DEF Present
<1>6. events' \in 0..MaxEvents
  BY <1>1, StageFacts DEF DeletePage, RestorePage, RestOK
<1>7. RequestsOK'
  BY <1>5 DEF DeletePage, RestorePage, PagesInv, RequestsOK
<1>8. RestOK'
  BY <1>1, <1>4, <1>6 DEF DeletePage, RestorePage, RestOK
<1>. QED  BY <1>7, <1>8 DEF PagesInv

(* What requests that begin or go on look like.                             *)
LEMMA BeginEditNext ==
  ASSUME PagesInv, NEW r \in Requests, NEW p \in Slugs, NEW edit \in Edits["edit"],
         BeginEdit(r, p, edit)
  PROVE  PagesInv'
<1> DEFINE new == [Idle EXCEPT !.op = "edit", !.at = "read", !.page = p, !.edit = edit]
<1>1. edit \in Edit
  BY PagesAssumption DEF Edit, Status
<1>2. new \in Request /\ new.at = "read" /\ new.page = p
  BY <1>1, IdleFacts, StageFacts DEF Idle, Request, AllOps
<1>3. req' = [req EXCEPT ![r] = new] /\ p \in Present /\ Present' = Present
  BY DEF BeginEdit, Present
<1>. HIDE DEF new
<1>4. RequestOK(new, Present')
  BY <1>2, <1>3 DEF RequestOK
<1>5. RequestsOK'
  BY <1>3, <1>4, OneChanges
<1>6. RestOK'
  BY StageFacts DEF BeginEdit, RestOK, PagesInv
<1>. QED  BY <1>5, <1>6 DEF PagesInv

(* A visitor has the password in hand that the row held.                    *)
LEMMA VisitNext ==
  ASSUME PagesInv, NEW r \in Requests, NEW p \in Slugs, Visit(r, p)
  PROVE  PagesInv'
<1> DEFINE new == [Idle EXCEPT !.op = "visit", !.at = "upgrade", !.page = p, !.row = rows[p]]
<1>1. rows[p] \in Row /\ rows[p].at = "here" /\ rows[p].password.pass # NoPassword /\ p \in Present
  BY DEF Visit, Found, Present, PagesInv, RestOK
<1>2. rows[p].password.pass \in Passwords
  BY <1>1, RowFacts, PasswordFacts DEF Here
<1>3. new \in Request /\ new.at = "upgrade" /\ new.page = p /\ new.row = rows[p]
  BY <1>1, IdleFacts, StageFacts DEF Idle, Request, AllOps
<1>4. req' = [req EXCEPT ![r] = new] /\ Present' = Present
  BY DEF Visit, Present
<1>. HIDE DEF new
<1>5. RequestOK(new, Present')
  BY <1>1, <1>2, <1>3, <1>4 DEF RequestOK
<1>6. RequestsOK'
  BY <1>4, <1>5, OneChanges
<1>7. RestOK'
  BY StageFacts DEF Visit, RestOK, PagesInv
<1>. QED  BY <1>6, <1>7 DEF PagesInv

(* A request that goes on to at.                                            *)
LEMMA GoesOn ==
  ASSUME PagesInv, NEW r \in Requests, NEW at \in Stages,
         req' = [req EXCEPT ![r] = [req[r] EXCEPT !.at = at]],
         Present \subseteq Present',
         at \in {"list", "copy", "count", "remove"} => req[r].upload \in Uploads,
         at \notin {"insert", "clear", "write", "upgrade"},
         at # "idle" => req[r].page \in Present'
  PROVE  RequestsOK'
<1> DEFINE new == [req[r] EXCEPT !.at = at]
<1>1. req[r] \in Request
  BY DEF PagesInv, RequestsOK
<1>2. new \in Request /\ new.at = at /\ new.upload = req[r].upload /\ new.page = req[r].page
  BY <1>1, RequestFacts DEF Request
<1>. HIDE DEF new
<1>3. RequestOK(new, Present')
  BY <1>2 DEF RequestOK
<1>. QED  BY <1>3, OneChanges DEF new

(* An inserted page is a row of the right types.                            *)
LEMMA InsertPageNext ==
  ASSUME PagesInv, NEW r \in Requests, InsertPage(r)
  PROVE  PagesInv'
<1> DEFINE p == req[r].page
           row == [at |-> "here", deleted |-> FALSE, status |-> "active",
                   password |-> Stored(req[r].edit.pass),
                   entry_file |-> req[r].edit.entry, file_count |-> req[r].count]
<1>1. req[r] \in Request /\ req[r].upload \in Uploads /\ req[r].edit \in Given /\ RestOK
  BY DEF InsertPage, PagesInv, RequestsOK, RequestOK
<1>2. row \in Here
  <2>1. Stored(req[r].edit.pass) \in Password
    BY <1>1, PasswordFacts DEF Given
  <2>2. req[r].edit.entry \in Names /\ req[r].count \in 0..Cardinality(Names)
    BY <1>1 DEF Request, Given
  <2>. QED  BY <2>1, <2>2 DEF Here, Row, Status
<1>3. p \in Slugs
  BY <1>1 DEF Request
<1>4. rows' = [rows EXCEPT ![p] = row] /\ said' = [said EXCEPT ![p] = req[r].edit]
      /\ req' = [req EXCEPT ![r] = [req[r] EXCEPT !.at = "list"]]
  BY DEF InsertPage
<1>. HIDE DEF row
<1>5. rows' \in [Slugs -> Row] /\ Present \subseteq Present' /\ p \in Present'
  BY <1>1, <1>2, <1>3, <1>4 DEF RestOK, Present, Here
<1>6. RequestsOK'
  BY <1>1, <1>4, <1>5, GoesOn, StageFacts
<1>7. said' \in [Slugs -> [status : Status, pass : Passwords \cup {NoPassword},
                          entry : Names]]
  BY <1>1, <1>4 DEF Given, Status, RestOK
<1>8. RestOK'
  BY <1>1, <1>5, <1>7 DEF InsertPage, RestOK
<1>. QED  BY <1>6, <1>8 DEF PagesInv

(* The steps between the row and the directories: ClearFiles, ListStaged,   *)
(* CopyFile and CountFiles.                                                 *)
LEMMA FilesNext ==
  ASSUME PagesInv, NEW r \in Requests, NEW n \in Names,
         ClearFiles(r) \/ ListStaged(r) \/ CopyFile(r, n) \/ CountFiles(r)
  PROVE  PagesInv'
<1>1. /\ req[r] \in Request /\ req[r].upload \in Uploads /\ req[r].page \in Present /\ RestOK
      /\ req[r].page \in Slugs
  BY DEF ClearFiles, ListStaged, CopyFile, CountFiles, PagesInv, RequestsOK, RequestOK, Present
<1>2. Present' = Present
  BY DEF ClearFiles, ListStaged, CopyFile, CountFiles, Present
<1>3. CASE ClearFiles(r)
  <2>1. req' = [req EXCEPT ![r] = [req[r] EXCEPT !.at = "list"]]
    BY <1>3 DEF ClearFiles
  <2>2. RequestsOK'
    BY <1>1, <1>2, <2>1, GoesOn, StageFacts
  <2>3. [m \in Names |-> IF Cleared(m) THEN NoUpload ELSE files[req[r].page][m]]
          \in [Names -> Uploads \cup {NoUpload}]
    BY <1>1 DEF RestOK
  <2>4. files' \in [Slugs -> [Names -> Uploads \cup {NoUpload}]]
    BY <1>1, <1>3, <2>3 DEF ClearFiles, RestOK
  <2>. QED  BY <1>1, <1>3, <2>2, <2>4 DEF ClearFiles, RestOK, PagesInv
<1>4. ASSUME NEW todo \in SUBSET Names, req' = Onward(r, todo)
      PROVE  RequestsOK'
  <2>1. PICK at \in {"copy", "remove", "count"} :
          req' = [req EXCEPT ![r].todo = todo, ![r].at = at]
    BY <1>4 DEF Onward
  <2> DEFINE new == [[req[r] EXCEPT !.todo = todo] EXCEPT !.at = at]
  <2>2. req' = [req EXCEPT ![r] = new]
    BY <2>1 DEF PagesInv, RequestsOK
  <2>3. at \in Stages
    BY StageFacts
  <2>4. new \in Request /\ new.at = at /\ new.upload = req[r].upload /\ new.page = req[r].page
    BY <1>1, <2>3, RequestFacts DEF Request
  <2>. HIDE DEF new
  <2>5. RequestOK(new, Present')
    BY <1>1, <1>2, <2>4 DEF RequestOK
  <2>. QED  BY <1>2, <2>2, <2>5, OneChanges
<1>5. CASE ListStaged(r)
  <2>1. staged[req[r].upload].files \in SUBSET Names
    BY <1>1 DEF RestOK, Directory
  <2>. QED  BY <1>1, <1>4, <1>5, <2>1 DEF ListStaged, RestOK, PagesInv
<1>6. CASE CopyFile(r, n)
  <2>1. req[r].todo \ {n} \in SUBSET Names
    BY <1>1 DEF Request
  <2>2. RequestsOK'
    BY <1>4, <1>6, <2>1 DEF CopyFile
  <2>3. files' \in [Slugs -> [Names -> Uploads \cup {NoUpload}]]
    BY <1>1, <1>6 DEF CopyFile, RestOK
  <2>. QED  BY <1>1, <1>6, <2>2, <2>3 DEF CopyFile, RestOK, PagesInv
<1>7. CASE CountFiles(r)
  <2> DEFINE c == Cardinality(staged[req[r].upload].files)
             new == [[req[r] EXCEPT !.at = "remove"] EXCEPT !.count = c]
  <2>1. c \in 0..Cardinality(Names)
    BY <1>1, CountFacts DEF RestOK, Directory
  <2>2. req' = [req EXCEPT ![r] = new]
    BY <1>7 DEF CountFiles, PagesInv, RequestsOK
  <2>3. new \in Request /\ new.at = "remove" /\ new.upload = req[r].upload
          /\ new.page = req[r].page
    BY <1>1, <2>1, StageFacts, RequestFacts DEF Request
  <2>. HIDE DEF new, c
  <2>4. RequestOK(new, Present')
    BY <1>1, <1>2, <2>3 DEF RequestOK
  <2>5. RequestsOK'
    BY <1>2, <2>2, <2>4, OneChanges
  <2>. QED  BY <1>1, <1>7, <2>5 DEF CountFiles, RestOK, PagesInv
<1>. QED  BY <1>3, <1>5, <1>6, <1>7

(* What a PUT makes of the row it has read.                                 *)
LEMMA EditedFacts ==
  ASSUME NEW row \in Here, NEW edit \in Edit
  PROVE  /\ Edited(row, edit) \in Here
         /\ FilesOf(Edited(row, edit)) = FilesOf(row)
         /\ Says(Edited(row, edit)) =
              [status |-> IF edit.status = "keep" THEN row.status ELSE edit.status,
               pass |-> IF edit.pass = "keep" THEN row.password.pass ELSE edit.pass,
               entry |-> IF edit.entry = NoName THEN row.entry_file ELSE edit.entry]
<1> DEFINE s == IF edit.status = "keep" THEN row.status ELSE edit.status
           w == IF edit.pass = "keep" THEN row.password ELSE Stored(edit.pass)
           n == IF edit.entry = NoName THEN row.entry_file ELSE edit.entry
<1>1. s \in Status /\ n \in Names
  BY RowFacts DEF Edit
<1>2. w \in Password
        /\ w.pass = IF edit.pass = "keep" THEN row.password.pass ELSE edit.pass
  BY RowFacts, PasswordFacts DEF Edit
<1>3. Edited(row, edit) = WithSay(row, s, w, n)
  BY DEF Edited, WithSay, Here, Row
<1>. HIDE DEF s, w, n
<1>4. /\ Edited(row, edit) \in Here
      /\ FilesOf(Edited(row, edit)) = FilesOf(row)
      /\ Says(Edited(row, edit)) = [status |-> s, pass |-> w.pass, entry |-> n]
  BY <1>1, <1>2, <1>3, WithSayFacts
<1>. QED  BY <1>2, <1>4 DEF s, n

(* The row a request with new files writes.                                 *)
LEMMA NewFilesFacts ==
  ASSUME NEW row \in Here, NEW r, req[r] \in Request
  PROVE  /\ NewFiles(row, r) \in Here
         /\ Says(NewFiles(row, r)) = Says(row)
         /\ FilesOf(NewFiles(row, r)) =
              IF req[r].upload = NoUpload THEN FilesOf(row)
              ELSE req[r].count
<1>1. CASE req[r].upload = NoUpload
  BY <1>1 DEF NewFiles
<1>2. CASE req[r].upload # NoUpload
  <2> DEFINE c == req[r].count
  <2>1. c \in 0..Cardinality(Names)
    BY DEF Request
  <2>2. NewFiles(row, r) = WithFiles(row, c)
    BY <1>2 DEF NewFiles, WithFiles, Here, Row
  <2>. HIDE DEF c
  <2>3. NewFiles(row, r) \in Here /\ Says(NewFiles(row, r)) = Says(row)
          /\ FilesOf(NewFiles(row, r)) = c
    BY <2>1, <2>2, WithFilesFacts
  <2>. QED  BY <1>2, <2>3 DEF c
<1>. QED  BY <1>1, <1>2

(* A request that is over.                                                  *)
LEMMA EndsOK ==
  ASSUME PagesInv, NEW r \in Requests, req' = [req EXCEPT ![r] = Idle], Present \subseteq Present'
  PROVE  RequestsOK'
  BY IdleOK, OneChanges

(* What WriteRow writes: what the request says of the row it read.          *)
LEMMA WriteRowFacts ==
  ASSUME PagesInv, NEW r \in Requests, WriteRow(r)
  PROVE  LET p == req[r].page
             old == [req[r].row EXCEPT !.deleted = rows[p].deleted]
         IN  /\ p \in Present /\ p \in Slugs
             /\ rows[p] \in Here /\ req[r].row \in Here
             /\ rows' = [rows EXCEPT ![p] = NewFiles(Edited(old, req[r].edit), r)]
             /\ old \in Here /\ Edited(old, req[r].edit) \in Here
             /\ Says(old) = Says(req[r].row) /\ FilesOf(old) = FilesOf(req[r].row)
             /\ rows'[p] \in Here
             /\ rows' \in [Slugs -> Row]
             /\ \A q \in Slugs \ {p} : rows'[q] = rows[q]
             /\ Present' = Present
<1> DEFINE p == req[r].page
           old == [req[r].row EXCEPT !.deleted = rows[p].deleted]
<1>1. /\ req[r] \in Request /\ p \in Present /\ p \in Slugs /\ rows \in [Slugs -> Row]
      /\ req[r].row.at = "here" /\ req[r].row \in Row /\ req[r].edit \in Edit
  BY DEF WriteRow, PagesInv, RequestsOK, RequestOK, RestOK, Present, Request
<1>2. rows[p] \in Here /\ req[r].row \in Here
  BY <1>1 DEF Present, Here
<1>3. old \in Here /\ Says(old) = Says(req[r].row) /\ FilesOf(old) = FilesOf(req[r].row)
  BY <1>2, RowFacts
<1>4. rows' = [rows EXCEPT ![p] = NewFiles(Edited(old, req[r].edit), r)]
  BY DEF WriteRow
<1>. HIDE DEF old
<1>5. Edited(old, req[r].edit) \in Here /\ NewFiles(Edited(old, req[r].edit), r) \in Here
  BY <1>1, <1>3, EditedFacts, NewFilesFacts
<1>6. rows'[p] \in Here /\ rows' \in [Slugs -> Row] /\ \A q \in Slugs \ {p} : rows'[q] = rows[q]
  BY <1>1, <1>4, <1>5 DEF Here
<1>7. Present' = Present
  <2>1. rows[p].at = "here" /\ rows'[p].at = "here"
    BY <1>2, <1>6 DEF Here
  <2>. QED  BY <1>6, <2>1 DEF Present
<1>. QED  BY <1>1, <1>2, <1>3, <1>4, <1>5, <1>6, <1>7 DEF old

(* The steps that read and write the row.                                   *)
LEMMA RowsNext ==
  ASSUME PagesInv, NEW r \in Requests, ReadRow(r) \/ WriteRow(r) \/ UpgradePassword(r)
  PROVE  PagesInv'
<1> DEFINE p == req[r].page
<1>1. req[r] \in Request /\ p \in Present /\ p \in Slugs /\ rows \in [Slugs -> Row] /\ RestOK
  BY DEF ReadRow, WriteRow, UpgradePassword, PagesInv, RequestsOK, RequestOK, RestOK, Present
<1>2. rows[p] \in Here
  BY <1>1 DEF Present, Here
<1>3. CASE ReadRow(r)
  <2> DEFINE new == [[req[r] EXCEPT !.at = "write"] EXCEPT !.row = rows[p]]
  <2>1. req' = [req EXCEPT ![r] = new] /\ Present' = Present
    BY <1>3 DEF ReadRow, Present, PagesInv, RequestsOK
  <2>2. new \in Request /\ new.at = "write" /\ new.page = p /\ new.row = rows[p]
    BY <1>1, <1>2, StageFacts, RequestFacts DEF Here, Request
  <2>. HIDE DEF new
  <2>3. RequestOK(new, Present')
    BY <1>1, <1>2, <2>1, <2>2 DEF RequestOK, Here
  <2>4. RequestsOK'
    BY <2>1, <2>3, OneChanges
  <2>. QED  BY <1>1, <1>3, <2>4 DEF ReadRow, RestOK, PagesInv
<1>4. CASE WriteRow(r)
  <2>1. rows' \in [Slugs -> Row] /\ Present' = Present
    BY <1>4, WriteRowFacts
  <2>2. RequestsOK'
    BY <1>4, <2>1, EndsOK DEF WriteRow
  <2>3. req[r].edit \in Edit /\ said' = Said(p, req[r].edit)
    BY <1>1, <1>4 DEF Request, WriteRow
  <2>4. said' \in [Slugs -> [status : Status, pass : Passwords \cup {NoPassword}, entry : Names]]
    <3> DEFINE new == [status |-> IF req[r].edit.status = "keep" THEN said[p].status
                                  ELSE req[r].edit.status,
                       pass |-> IF req[r].edit.pass = "keep" THEN said[p].pass
                                ELSE req[r].edit.pass,
                       entry |-> IF req[r].edit.entry = NoName THEN said[p].entry
                                 ELSE req[r].edit.entry]
    <3>1. new \in [status : Status, pass : Passwords \cup {NoPassword}, entry : Names]
      BY <1>1, <2>3 DEF Edit, RestOK
    <3>2. said' = [said EXCEPT ![p] = new]
      BY <1>1, <2>3 DEF Said, RestOK
    <3>. HIDE DEF new
    <3>. QED  BY <1>1, <3>1, <3>2 DEF RestOK
  <2>5. torn' \subseteq Slugs /\ crossed' \subseteq Slugs
    BY <1>1, <1>4 DEF WriteRow, Placed, RestOK
  <2>. QED  BY <1>1, <1>4, <2>1, <2>2, <2>4, <2>5 DEF WriteRow, RestOK, PagesInv
<1>5. CASE UpgradePassword(r)
  <2> DEFINE w == [pass |-> req[r].row.password.pass, hashed |-> TRUE]
  <2>1. w \in Password
    BY <1>5, PasswordFacts DEF UpgradePassword, PagesInv, RequestsOK, RequestOK
  <2>2. rows' = [rows EXCEPT ![p] = [rows[p] EXCEPT !.password = w]]
    BY <1>1, <1>5 DEF UpgradePassword
  <2>. HIDE DEF w
  <2>3. [rows[p] EXCEPT !.password = w] \in Here
    BY <1>2, <2>1, RowFacts
  <2>4. rows' \in [Slugs -> Row] /\ Present' = Present
    BY <1>1, <2>2, <2>3 DEF Here, Present
  <2>5. RequestsOK'
    BY <1>5, <2>4, EndsOK DEF UpgradePassword
  <2>6. crossed' \subseteq Slugs
    BY <1>1, <1>5 DEF UpgradePassword, RestOK
  <2>. QED  BY <1>1, <1>5, <2>4, <2>5, <2>6 DEF UpgradePassword, RestOK, PagesInv
<1>. QED  BY <1>3, <1>4, <1>5

(* Who shares a staging directory whose removal begins goes on as it was.   *)
LEMMA SharingFacts ==
  ASSUME NEW u
  PROVE  /\ Sharing(u) = [q \in Requests |-> Sharing(u)[q]]
         /\ \A q \in Requests : Sharing(u)[q] = IF q \in Copying(u) THEN Shared(req[q]) ELSE req[q]
  BY DEF Sharing, Shared

(* What is being removed is there.                                          *)
LEMMA RemovalFacts ==
  ASSUME RestOK, NEW u \in Uploads
  PROVE  /\ removing \cup Removal(u) \subseteq Uploads
         /\ \A v \in Uploads : staged[v].at # "there" => v \notin removing \cup Removal(u)
  BY DEF RestOK, Removal, Exists

(* The clean-up begins to remove what is there.                             *)
LEMMA CleanUpNext ==
  ASSUME PagesInv, NEW u \in Uploads, CleanUp(u)
  PROVE  PagesInv'
<1>1. Present' = Present
  BY DEF CleanUp, Present
<1>2. req' = Sharing(u)
  BY DEF CleanUp
<1>3. \A q \in Requests : req'[q] \in {req[q], Shared(req[q])}
  BY <1>2, SharingFacts
<1>4. \A q \in Requests : RequestOK(req'[q], Present')
  BY <1>1, <1>3, StaysOK DEF PagesInv, RequestsOK
<1>5. req' \in [Requests -> Request]
  BY <1>2, <1>4, SharingFacts DEF RequestOK
<1>6. RestOK'
  <2>1. RestOK
    BY DEF PagesInv
  <2>. QED  BY <2>1, RemovalFacts, StageFacts DEF CleanUp, RestOK
<1>. QED  BY <1>4, <1>5, <1>6 DEF PagesInv, RequestsOK

(* A request begins to remove the directory it has copied.                  *)
LEMMA RemoveStagedNext ==
  ASSUME PagesInv, NEW r \in Requests, RemoveStaged(r)
  PROVE  PagesInv'
<1> DEFINE u == req[r].upload
           was == Sharing(u)[r]
           new == IF was.op = "create" THEN Idle ELSE [was EXCEPT !.at = "read"]
<1>1. RequestOK(req[r], Present) /\ req[r].at = "remove" /\ Present' = Present /\ RestOK
  BY DEF PagesInv, RequestsOK, RemoveStaged, Present
<1>2. u \in Uploads /\ req[r].page \in Slugs /\ req[r].page \in Present
  BY <1>1 DEF RequestOK, Present
<1>3. was = req[r]
  BY <1>1, SharingFacts DEF Copying
<1>4. req' = [Sharing(u) EXCEPT ![r] = new]
  BY DEF RemoveStaged
<1>5. RequestOK(new, Present')
  <2>1. [req[r] EXCEPT !.at = "read"] \in Request
        /\ [req[r] EXCEPT !.at = "read"].at = "read"
        /\ [req[r] EXCEPT !.at = "read"].page = req[r].page
    <3>1. req[r] \in Request
      BY <1>1 DEF RequestOK
    <3>. QED  BY <3>1, RequestFacts, StageFacts DEF Request
  <2>2. RequestOK([req[r] EXCEPT !.at = "read"], Present')
    BY <1>1, <1>2, <2>1 DEF RequestOK
  <2>. QED  BY <1>3, <2>2, IdleOK
<1>. HIDE DEF new
<1>6. /\ req' = [q \in Requests |-> req'[q]] /\ req'[r] = new
      /\ \A q \in Requests \ {r} : req'[q] \in {req[q], Shared(req[q])}
  BY <1>4, SharingFacts
<1>7. RequestsOK'
  BY <1>1, <1>5, <1>6, OneMoves
<1>8. torn' \subseteq Slugs
  BY <1>1, <1>2 DEF RemoveStaged, Placed, RestOK
<1>9. RestOK'
  BY <1>1, <1>2, <1>8, RemovalFacts DEF RemoveStaged, RestOK
<1>. QED  BY <1>7, <1>9 DEF PagesInv

(* Files taken away in part are still files.                                *)
LEMMA InterruptedFacts ==
  ASSUME RestOK, NEW R
  PROVE  Interrupted(R) \subseteq [Slugs -> [Names -> Uploads \cup {NoUpload}]]
  BY DEF Interrupted, RestOK

(* A request that gives up is idle, wherever it stood.                      *)
LEMMA GiveUpNext ==
  ASSUME PagesInv, NEW r \in Requests, GiveUp(r)
  PROVE  PagesInv'
<1>1. Present' = Present /\ req' = [req EXCEPT ![r] = Idle] /\ RestOK
  BY DEF GiveUp, Present, PagesInv
<1>2. RequestsOK'
  BY <1>1, EndsOK
<1>3. events' \in 0..MaxEvents
  BY <1>1, StageFacts DEF GiveUp, RestOK
<1>4. torn' \subseteq Slugs
  <2>1. req[r].page \in Slugs
    BY DEF PagesInv, RequestsOK, Request
  <2>. QED  BY <1>1, <2>1 DEF GiveUp, RestOK
<1>5. files' \in [Slugs -> [Names -> Uploads \cup {NoUpload}]]
  BY <1>1, InterruptedFacts DEF GiveUp
<1>6. RestOK'
  BY <1>1, <1>3, <1>4, <1>5 DEF GiveUp, RestOK
<1>. QED  BY <1>2, <1>6 DEF PagesInv

(* After a crash every request is idle.                                     *)
LEMMA CrashNext ==
  ASSUME PagesInv, Crash
  PROVE  PagesInv'
<1>1. Present' = Present /\ req' = [r \in Requests |-> Idle] /\ RestOK
  BY DEF Crash, Present, PagesInv
<1>2. RequestsOK'
  BY <1>1, IdleOK, IdleFacts DEF RequestsOK
<1>3. events' \in 0..MaxEvents
  BY <1>1, StageFacts DEF Crash
<1>4. torn' \subseteq Slugs
  <2>1. \A r \in Requests : req[r].page \in Slugs
    BY DEF PagesInv, RequestsOK, Request
  <2>. QED  BY <1>1, <2>1 DEF Crash, RestOK
<1>5. files' \in [Slugs -> [Names -> Uploads \cup {NoUpload}]]
  BY <1>1, InterruptedFacts DEF Crash
<1>6. RestOK'
  BY <1>1, <1>3, <1>4, <1>5 DEF Crash, RestOK
<1>. QED  BY <1>2, <1>6 DEF PagesInv

(* A request that joins those who place files.                              *)
LEMMA JoinFacts ==
  ASSUME NEW r \in Requests, NEW p, NEW u, NEW request, Join(r, p, u, request)
  PROVE  /\ req' = [q \in Requests |-> req'[q]]
         /\ req'[r] = [request EXCEPT !.mixed = \/ Placing(p) # {} \/ Copying(u) # {}
                                                \/ u \in removing
                                                \/ staged[u].files # Contents[u]]
         /\ \A q \in Requests \ {r} :
               req'[q] = IF q \in Placing(p) \cup Copying(u) THEN Shared(req[q]) ELSE req[q]
  BY DEF Join, Shared

(* A request to create or to replace begins with a directory that is there. *)
LEMMA BeginsNext ==
  ASSUME PagesInv, NEW r \in Requests, NEW p \in Slugs, NEW u \in Uploads,
         (\E edit \in Edits["create"] : BeginCreate(r, p, u, edit))
            \/ (\E edit \in Edits["replace"] : BeginReplace(r, p, u, edit))
  PROVE  PagesInv'
<1>1. Present' = Present /\ RestOK
  BY DEF BeginCreate, BeginReplace, Present, PagesInv
<1>2. RestOK'
  BY <1>1, StageFacts DEF BeginCreate, BeginReplace, RestOK
<1>3. ASSUME NEW request, Join(r, p, u, request),
             \A m \in BOOLEAN : RequestOK([request EXCEPT !.mixed = m], Present')
      PROVE  RequestsOK'
  <2> DEFINE m == \/ Placing(p) # {} \/ Copying(u) # {}
                  \/ u \in removing
                  \/ staged[u].files # Contents[u]
             new == [request EXCEPT !.mixed = m]
  <2>1. /\ req' = [q \in Requests |-> req'[q]] /\ req'[r] = new
        /\ \A q \in Requests \ {r} : req'[q] \in {req[q], Shared(req[q])}
    BY <1>3, JoinFacts
  <2>2. m \in BOOLEAN
    OBVIOUS
  <2>. HIDE DEF m
  <2>3. RequestOK(new, Present')
    BY <1>3, <2>2
  <2>. HIDE DEF new
  <2>. QED  BY <1>1, <2>1, <2>3, OneMoves
<1>4. ASSUME NEW edit \in Edits["create"], BeginCreate(r, p, u, edit)
      PROVE  RequestsOK'
  <2> DEFINE c == Cardinality(staged[u].files)
             request == [Idle EXCEPT !.op = "create", !.at = "insert", !.page = p, !.upload = u,
                                     !.edit = Full(edit), !.count = c]
  <2>1. edit \in Edit
    BY PagesAssumption DEF Edit, Status
  <2>2. Full(edit) \in Given /\ Full(edit) \in Edit
    BY <2>1, PagesAssumption DEF Full, Given, Edit, Status
  <2>3. c \in 0..Cardinality(Names)
    BY <1>1, CountFacts DEF RestOK, Directory
  <2>4. Join(r, p, u, request)
    BY <1>4 DEF BeginCreate
  <2>5. ASSUME NEW m \in BOOLEAN
        PROVE  RequestOK([request EXCEPT !.mixed = m], Present')
    <3> DEFINE new == [request EXCEPT !.mixed = m]
    <3>1. new \in Request /\ new.at = "insert" /\ new.upload = u /\ new.edit = Full(edit)
      BY <2>2, <2>3, <2>5, IdleFacts, StageFacts DEF Idle, Request, AllOps
    <3>. HIDE DEF new
    <3>2. RequestOK(new, Present')
      BY <2>2, <3>1 DEF RequestOK
    <3>. QED  BY <3>2 DEF new
  <2>. HIDE DEF request
  <2>. QED  BY <1>3, <2>4, <2>5
<1>5. ASSUME NEW edit \in Edits["replace"], BeginReplace(r, p, u, edit)
      PROVE  RequestsOK'
  <2> DEFINE request == [Idle EXCEPT !.op = "replace", !.at = "clear", !.page = p, !.upload = u,
                                     !.edit = edit]
  <2>1. edit \in Edit
    BY PagesAssumption DEF Edit, Status
  <2>2. Join(r, p, u, request) /\ p \in Present
    BY <1>5 DEF BeginReplace, Found
  <2>3. ASSUME NEW m \in BOOLEAN
        PROVE  RequestOK([request EXCEPT !.mixed = m], Present')
    <3> DEFINE new == [request EXCEPT !.mixed = m]
    <3>1. new \in Request /\ new.at = "clear" /\ new.upload = u /\ new.page = p
      BY <2>1, <2>3, IdleFacts, StageFacts DEF Idle, Request, AllOps
    <3>. HIDE DEF new
    <3>2. RequestOK(new, Present')
      BY <1>1, <2>2, <3>1 DEF RequestOK
    <3>. QED  BY <3>2 DEF new
  <2>. HIDE DEF request
  <2>. QED  BY <1>3, <2>2, <2>3
<1>. QED  BY <1>2, <1>4, <1>5 DEF PagesInv

(* All of it holds at the start.                                            *)
LEMMA InitMakesInv == Init => PagesInv
<1> SUFFICES ASSUME Init PROVE PagesInv
  OBVIOUS
<1>1. Old.entry \in Names /\ Old.upload \in Uploads /\ Old.page \in Slugs
      /\ Old.password \in Passwords
  BY PagesAssumption
<1>2. Cardinality(Contents[Old.upload]) \in 0..Cardinality(Names)
  BY <1>1, CountFacts, PagesAssumption
<1>3. [pass |-> Old.password, hashed |-> FALSE] \in Password
  BY <1>1, PasswordFacts
<1>4. rows \in [Slugs -> Row]
  <2> DEFINE c == Cardinality(Contents[Old.upload])
             w == [pass |-> Old.password, hashed |-> FALSE]
             row == [at |-> "here", deleted |-> FALSE, status |-> "active", password |-> w,
                     entry_file |-> Old.entry, file_count |-> c]
  <2>1. rows = [p \in Slugs |-> IF p = Old.page THEN row ELSE NoRow]
    BY DEF Init
  <2>2. c \in 0..Cardinality(Names) /\ w \in Password
    BY <1>2, <1>3
  <2>. HIDE DEF c, w
  <2>3. row \in Row /\ NoRow \in Row
    BY <1>1, <2>2 DEF Row, Status, NoRow
  <2>. HIDE DEF row
  <2>. QED  BY <2>1, <2>3
<1>5. RequestsOK
  BY IdleOK, IdleFacts DEF Init, RequestsOK
<1>6. /\ files \in [Slugs -> [Names -> Uploads \cup {NoUpload}]]
      /\ staged \in [Uploads -> Directory]
      /\ said \in [Slugs -> [status : Status, pass : Passwords \cup {NoPassword}, entry : Names]]
  <2>1. \A at \in {"none", "gone"} : [at |-> at, files |-> {}] \in Directory
    BY DEF Directory
  <2>. QED  BY <1>1, <2>1 DEF Init, Status
<1>7. storage \in Storages /\ events \in 0..MaxEvents /\ timers = {} /\ removing = {}
      /\ torn = {} /\ crossed = {}
  BY PagesAssumption DEF Init
<1>8. RestOK
  BY <1>4, <1>6, <1>7 DEF RestOK
<1>. QED  BY <1>5, <1>8 DEF PagesInv

(* And every step keeps it.                                                 *)
LEMMA InvNext == PagesInv /\ [Next]_vars => PagesInv'
<1> SUFFICES ASSUME PagesInv, [Next]_vars PROVE PagesInv'
  OBVIOUS
<1>1. ASSUME NEW r \in Requests, RequestStep(r) PROVE PagesInv'
  <2>1. ASSUME NEW n \in Names, CopyFile(r, n) PROVE PagesInv'
    BY <2>1, FilesNext
  <2>2. ASSUME ClearFiles(r) \/ ListStaged(r) \/ CountFiles(r) PROVE PagesInv'
    <3>1. \E n : n \in Names
      BY PagesAssumption
    <3>. QED  BY <2>2, <3>1, FilesNext
  <2>. QED
    BY <1>1, <2>1, <2>2, BeginsNext, BeginEditNext, VisitNext, InsertPageNext, RemoveStagedNext,
       RowsNext, GiveUpNext DEF RequestStep
<1>2. ASSUME NEW u \in Uploads,
             Upload(u) \/ UploadFails(u) \/ CleanUp(u) \/ Unlink(u) \/ RemoveDirectory(u)
      PROVE  PagesInv'
  BY <1>2, StagedNext, CleanUpNext
<1>3. ASSUME NEW p \in Slugs, DeletePage(p) \/ RestorePage(p) PROVE PagesInv'
  BY <1>3, DeletionNext
<1>4. CASE UNCHANGED vars
  BY <1>4 DEF vars, PagesInv, RestOK, RequestsOK, Present
<1>. QED  BY <1>1, <1>2, <1>3, <1>4, CrashNext DEF Next

(* What requests have in hand fits where they stand, in every reachable     *)
(* state.                                                                   *)
THEOREM PagesInvariant == Spec => []PagesInv
  BY InitMakesInv, InvNext, PTL DEF Spec

(* Pages, their files and everyone who works on them have the types of      *)
(* their columns and fields, and a request works on a page that exists.     *)
THEOREM TypeCorrect == Spec => []TypeOK
<1>1. PagesInv => TypeOK
  BY DEF PagesInv, RestOK, RequestsOK, RequestOK, TypeOK
<1>. QED  BY <1>1, PagesInvariant, PTL

-----------------------------------------------------------------------------
(* What the owner said: a step that writes a row writes it as it was said,  *)
(* unless the row has changed since it was read.                            *)
LEMMA EditStaysNext == PagesInv /\ EditStays /\ [Next]_vars => EditStays'
<1> SUFFICES ASSUME PagesInv, EditStays, [Next]_vars, NEW p \in Present', p \notin crossed'
             PROVE  Says(rows'[p]) = said'[p]
  BY DEF EditStays, Says
<1>a. /\ RestOK /\ rows \in [Slugs -> Row] /\ p \in Slugs
      /\ said \in [Slugs -> [status : Status, pass : Passwords \cup {NoPassword}, entry : Names]]
  BY DEF PagesInv, RestOK, Present
<1>b. p \in Present /\ p \notin crossed => Says(rows[p]) = said[p] /\ rows[p] \in Here
  BY <1>a DEF EditStays, Present, Here
<1>1. ASSUME rows' = rows, said' = said, crossed' = crossed
      PROVE  Says(rows'[p]) = said'[p]
  BY <1>1, <1>b DEF Present
<1>2. ASSUME NEW r \in Requests, InsertPage(r)
      PROVE  Says(rows'[p]) = said'[p]
  <2>1. req[r].edit \in Given /\ req[r].page \in Slugs
    BY <1>2 DEF InsertPage, PagesInv, RequestsOK, RequestOK, Request
  <2>2. CASE p = req[r].page
    <3>1. rows'[p].status = "active" /\ rows'[p].password = Stored(req[r].edit.pass)
          /\ rows'[p].entry_file = req[r].edit.entry /\ said'[p] = req[r].edit
      BY <1>2, <1>a, <2>1, <2>2 DEF InsertPage
    <3>2. Stored(req[r].edit.pass).pass = req[r].edit.pass
      BY <2>1, PasswordFacts DEF Given
    <3>. QED  BY <2>1, <3>1, <3>2 DEF Says, Given
  <2>3. CASE p # req[r].page
    <3>1. rows'[p] = rows[p] /\ said'[p] = said[p] /\ crossed' = crossed
      BY <1>2, <1>a, <2>3 DEF InsertPage
    <3>. QED  BY <3>1, <1>a, <1>b DEF Present
  <2>. QED  BY <2>2, <2>3
<1>3. ASSUME NEW r \in Requests, WriteRow(r)
      PROVE  Says(rows'[p]) = said'[p]
  <2> DEFINE old == [req[r].row EXCEPT !.deleted = rows[req[r].page].deleted]
  <2>1. /\ req[r].page \in Present /\ old \in Here /\ Edited(old, req[r].edit) \in Here
        /\ rows' = [rows EXCEPT ![req[r].page] = NewFiles(Edited(old, req[r].edit), r)]
        /\ \A q \in Slugs \ {req[r].page} : rows'[q] = rows[q]
        /\ Present' = Present /\ req[r].page \in Slugs
    BY <1>3, WriteRowFacts
  <2>2. /\ crossed' = IF Says(old) = Says(rows[req[r].page]) THEN crossed
                      ELSE crossed \cup {req[r].page}
        /\ said' = Said(req[r].page, req[r].edit)
    BY <1>3 DEF WriteRow
  <2>. HIDE DEF old
  <2>3. req[r] \in Request /\ req[r].edit \in Edit
    BY DEF PagesInv, RequestsOK, Request
  <2>4. CASE p = req[r].page
    <3>1. Says(old) = Says(rows[p]) /\ p \notin crossed
      BY <2>2, <2>4
    <3>2. Says(old) = said[p]
      BY <2>1, <2>4, <3>1, <1>b
    <3>3. Says(rows'[p]) = Says(Edited(old, req[r].edit))
      BY <1>a, <2>1, <2>3, <2>4, NewFilesFacts
    <3>4. old.status = said[p].status /\ old.password.pass = said[p].pass
          /\ old.entry_file = said[p].entry
      BY <3>2 DEF Says
    <3>5. Says(rows'[p]) =
            [status |-> IF req[r].edit.status = "keep" THEN said[p].status ELSE req[r].edit.status,
             pass |-> IF req[r].edit.pass = "keep" THEN said[p].pass ELSE req[r].edit.pass,
             entry |-> IF req[r].edit.entry = NoName THEN said[p].entry
                       ELSE req[r].edit.entry]
      BY <2>1, <2>3, <3>3, <3>4, EditedFacts
    <3>6. said'[p] =
            [status |-> IF req[r].edit.status = "keep" THEN said[p].status ELSE req[r].edit.status,
             pass |-> IF req[r].edit.pass = "keep" THEN said[p].pass ELSE req[r].edit.pass,
             entry |-> IF req[r].edit.entry = NoName THEN said[p].entry
                       ELSE req[r].edit.entry]
      BY <1>a, <2>2, <2>4 DEF Said
    <3>. QED  BY <3>5, <3>6
  <2>5. CASE p # req[r].page
    <3>1. rows'[p] = rows[p] /\ said'[p] = said[p] /\ p \notin crossed /\ p \in Present
      BY <1>a, <2>1, <2>2, <2>5 DEF Said
    <3>. QED  BY <3>1, <1>b
  <2>. QED  BY <2>4, <2>5
<1>4. ASSUME NEW r \in Requests, UpgradePassword(r)
      PROVE  Says(rows'[p]) = said'[p]
  <2> DEFINE w == [pass |-> req[r].row.password.pass, hashed |-> TRUE]
  <2>1. w \in Password /\ w.pass = req[r].row.password.pass
    BY <1>4, PasswordFacts DEF UpgradePassword, PagesInv, RequestsOK, RequestOK
  <2>2. req[r].page \in Present /\ req[r].page \in Slugs
    BY <1>4 DEF UpgradePassword, PagesInv, RequestsOK, RequestOK, Present
  <2>3. /\ rows' = [rows EXCEPT ![req[r].page] = [rows[req[r].page] EXCEPT !.password = w]]
        /\ said' = said
        /\ crossed' = IF rows[req[r].page].password.pass = w.pass THEN crossed
                      ELSE crossed \cup {req[r].page}
    BY <1>4, <1>a, <2>1, <2>2 DEF UpgradePassword
  <2>. HIDE DEF w
  <2>4. CASE p = req[r].page
    <3>1. rows[p].password.pass = w.pass /\ p \notin crossed /\ rows[p] \in Here
      BY <2>2, <2>3, <2>4, <1>b
    <3>2. rows'[p] = [rows[p] EXCEPT !.password = w]
      BY <1>a, <2>3, <2>4
    <3>3. Says(rows'[p]) =
            [status |-> rows[p].status, pass |-> w.pass, entry |-> rows[p].entry_file]
      BY <2>1, <3>1, <3>2, RowFacts
    <3>. QED  BY <2>2, <2>3, <2>4, <3>1, <3>3, <1>b DEF Says
  <2>5. CASE p # req[r].page
    <3>1. rows'[p] = rows[p] /\ p \notin crossed /\ p \in Present
      BY <1>a, <2>2, <2>3, <2>5 DEF Present
    <3>. QED  BY <2>3, <3>1, <1>b
  <2>. QED  BY <2>4, <2>5
<1>5. ASSUME NEW q \in Slugs, DeletePage(q) \/ RestorePage(q)
      PROVE  Says(rows'[p]) = said'[p]
  <2>1. q \in Present /\ said' = said /\ crossed' = crossed
    BY <1>5 DEF DeletePage, RestorePage, Found
  <2>2. PICK d \in BOOLEAN : rows' = [rows EXCEPT ![q].deleted = d]
    BY <1>5 DEF DeletePage, RestorePage
  <2>3. CASE p = q
    <3>1. rows'[p] = [rows[p] EXCEPT !.deleted = d] /\ rows[p] \in Here
      BY <1>a, <1>b, <2>1, <2>2, <2>3
    <3>2. Says(rows'[p]) = Says(rows[p])
      BY <3>1, RowFacts
    <3>. QED  BY <2>1, <2>3, <3>2, <1>b
  <2>4. CASE p # q
    <3>1. rows'[p] = rows[p]
      BY <1>a, <2>2, <2>4
    <3>. QED  BY <1>a, <2>1, <3>1, <1>b DEF Present
  <2>. QED  BY <2>3, <2>4
<1>6. ASSUME NEW r \in Requests, RequestStep(r)
      PROVE  Says(rows'[p]) = said'[p]
  <2>1. ASSUME NEW q \in Slugs, NEW u \in Uploads, NEW edit,
               BeginCreate(r, q, u, edit) \/ BeginReplace(r, q, u, edit)
        PROVE  Says(rows'[p]) = said'[p]
    BY <2>1, <1>1 DEF BeginCreate, BeginReplace
  <2>2. ASSUME NEW q \in Slugs, NEW edit, BeginEdit(r, q, edit) \/ Visit(r, q)
        PROVE  Says(rows'[p]) = said'[p]
    BY <2>2, <1>1 DEF BeginEdit, Visit
  <2>3. ASSUME NEW n \in Names,
               ClearFiles(r) \/ ListStaged(r) \/ CopyFile(r, n) \/ CountFiles(r)
        PROVE  Says(rows'[p]) = said'[p]
    BY <2>3, <1>1 DEF ClearFiles, ListStaged, CopyFile, CountFiles
  <2>4. ASSUME ClearFiles(r) \/ ListStaged(r) \/ CountFiles(r) \/ RemoveStaged(r) \/ ReadRow(r)
                 \/ GiveUp(r)
        PROVE  Says(rows'[p]) = said'[p]
    BY <2>4, <1>1 DEF ClearFiles, ListStaged, CountFiles, RemoveStaged, ReadRow, GiveUp
  <2>. QED  BY <1>2, <1>3, <1>4, <1>6, <2>1, <2>2, <2>3, <2>4 DEF RequestStep
<1>7. ASSUME NEW u \in Uploads,
             Upload(u) \/ UploadFails(u) \/ CleanUp(u) \/ Unlink(u) \/ RemoveDirectory(u)
      PROVE  Says(rows'[p]) = said'[p]
  BY <1>7, <1>1 DEF Upload, UploadFails, CleanUp, Unlink, RemoveDirectory
<1>8. CASE Crash \/ UNCHANGED vars
  BY <1>8, <1>1 DEF Crash, vars
<1>. QED  BY <1>5, <1>6, <1>7, <1>8 DEF Next

(* A page has the status, the password and the file to be shown that its    *)
(* owner named last, apart from writes that cross each other.               *)
THEOREM EditStaysHolds == Spec => []EditStays
<1>1. Init => EditStays
  <2> SUFFICES ASSUME Init, NEW p \in Present PROVE Says(rows[p]) = said[p]
    BY DEF EditStays
  <2>1. p = Old.page
    BY DEF Init, Present, NoRow
  <2>. QED  BY <2>1, PagesAssumption DEF Init, Says
<1>2. PagesInv /\ EditStays /\ [Next]_vars => EditStays'
  BY EditStaysNext
<1>. QED  BY <1>1, <1>2, PagesInvariant, PTL DEF Spec

-----------------------------------------------------------------------------
(* What is staged is what was meant, but for a top directory.               *)

(* The parts are sets of sequences of components; files that are sent one   *)
(* by one have names that sanitize_filename leaves as they are.             *)
SourcesArePaths ==
    \A u \in Uploads : \A part \in Source[u] : \E C : part.files \subseteq Seq(C)

FilesArePlain ==
    \A u \in Uploads : \A part \in Source[u] : part.kind = "files" =>
        \A p \in part.files : IsSafeRelativePath(p) /\ SanitizeFilename(p) = p

(* A path with more than one component is its first one and the rest.       *)
LEMMA PathParts ==
  ASSUME NEW C, NEW p \in Seq(C), Len(p) > 1
  PROVE  p = <<p[1]>> \o Tail(p)
<1>1. p # <<>> /\ Len(p) \in Nat
  BY EmptySeq, LenProperties
<1>2. Tail(p) \in Seq(C) /\ Len(Tail(p)) = Len(p) - 1
        /\ \A i \in 1..Len(Tail(p)) : Tail(p)[i] = p[i + 1]
  BY <1>1, HeadTailProperties
<1>3. p[1] \in C /\ <<p[1]>> \in Seq(C) /\ Len(<<p[1]>>) = 1
  BY <1>1
<1>. DEFINE q == <<p[1]>> \o Tail(p)
<1>4. q \in Seq(C) /\ Len(q) = 1 + Len(Tail(p))
      /\ \A i \in 1..Len(q) : q[i] = IF i <= 1 THEN <<p[1]>>[i] ELSE Tail(p)[i - 1]
  BY <1>2, <1>3, ConcatProperties
<1>. HIDE DEF q
<1>5. Len(q) = Len(p)
  BY <1>1, <1>2, <1>4
<1>6. \A i \in 1..Len(p) : q[i] = p[i]
  BY <1>1, <1>2, <1>4, <1>5
<1>7. q = p
  BY <1>4, <1>5, <1>6, SeqEqual
<1>. QED  BY <1>7 DEF q

(* The same paths, but for a top directory that all were in.                *)
Stripped(T, S) == T = S \/ \E top \in {m[1] : m \in S} : S = {<<top>> \o n : n \in T}

(* What StripCommonPrefix makes of a set of paths.                          *)
LEMMA StripFacts ==
  ASSUME NEW C, NEW S \in SUBSET Seq(C)
  PROVE  Stripped(StripCommonPrefix(S), S)
<1> DEFINE T == {Tail(p) : p \in S}
<1>1. CASE ~((\A p \in S : Len(p) > 1) /\ (\A p, q \in S : p[1] = q[1]))
  BY <1>1 DEF StripCommonPrefix, Stripped
<1>2. CASE S = {}
  <2>1. StripCommonPrefix(S) = {}
    BY <1>2 DEF StripCommonPrefix
  <2>. QED  BY <1>2, <2>1 DEF Stripped
<1>3. CASE (\A p \in S : Len(p) > 1) /\ (\A p, q \in S : p[1] = q[1]) /\ S # {}
  <2>1. StripCommonPrefix(S) = T
    BY <1>3 DEF StripCommonPrefix
  <2>2. \A p \in S : p = <<p[1]>> \o Tail(p)
    BY <1>3, PathParts
  <2>3. PICK m \in S : TRUE
    BY <1>3
  <2>4. \A p \in S : p = <<m[1]>> \o Tail(p)
    BY <1>3, <2>2
  <2>5. S = {<<m[1]>> \o n : n \in T}
    BY <2>4
  <2>. QED  BY <2>1, <2>3, <2>5 DEF Stripped
<1>. QED  BY <1>1, <1>2, <1>3

(* What is staged of a part is what its owner means, but for a top          *)
(* directory.                                                               *)
LEMMA PartInPlace ==
  ASSUME SourcesArePaths, FilesArePlain, NEW u \in Uploads, NEW part \in Source[u]
  PROVE  InPlace(part, StagedPart(part))
<1>1. part.kind \in {"directory", "archive", "files"}
  BY PagesAssumption DEF Kinds
<1>2. CASE part.kind = "files"
  <2>1. StagedPart(part) = {SanitizeFilename(p) : p \in part.files}
    BY <1>2 DEF StagedPart, PrepareUpload
  <2>2. StagedPart(part) = part.files
    BY <1>2, <2>1 DEF FilesArePlain
  <2>3. Meant(part) = part.files
    BY <1>2 DEF FilesArePlain, IsSafeRelativePath, Meant
  <2>. QED  BY <2>2, <2>3 DEF InPlace
<1>3. CASE part.kind # "files"
  <2>1. StagedPart(part) = StripCommonPrefix(Meant(part))
    <3>1. CASE part.kind = "archive"
      <4>1. StagedPart(part) = ExtractZip(part.files)
        BY <3>1 DEF StagedPart, PrepareUpload
      <4>2. {p \in part.files : IsSafeRelativePath(p)} = Meant(part)
        BY DEF IsSafeRelativePath, Meant
      <4>. QED  BY <4>1, <4>2 DEF ExtractZip
    <3>2. CASE part.kind = "directory"
      <4>1. StagedPart(part) = ExtractZip(WalkDir(part.files))
        BY <3>2 DEF StagedPart, PrepareUpload
      <4>2. {p \in WalkDir(part.files) : IsSafeRelativePath(p)} = Meant(part)
        BY StagingAssumption DEF IsSafeRelativePath, Meant, WalkDir
      <4>. QED  BY <4>1, <4>2 DEF ExtractZip
    <3>. QED  BY <1>1, <1>3, <3>1, <3>2
  <2>2. PICK C : part.files \subseteq Seq(C)
    BY DEF SourcesArePaths
  <2>3. Meant(part) \in SUBSET Seq(C)
    BY <2>2 DEF Meant
  <2>4. Stripped(StripCommonPrefix(Meant(part)), Meant(part))
    BY <2>3, StripFacts
  <2>. QED  BY <2>1, <2>4 DEF Stripped, InPlace
<1>. QED  BY <1>2, <1>3

-----------------------------------------------------------------------------
(* Where the files of a page come from. A request that places files shares  *)
(* neither page nor directory unless it is marked; one that is not marked   *)
(* has its directory still whole, has got as far with the copy as it says,  *)
(* and the row says, or will say, what it copies.                           *)
CopyStages == {"insert", "clear", "list", "copy", "count"}

StillStaged(u) == Exists(u) /\ staged[u].files = Contents[u] /\ u \notin removing

OnlyOf(served, u) ==
    \A n \in Names : served[n] \notin {NoUpload, u} => storage = "oss" /\ n \in Nested

Has(served, u, names) == \A n \in names : served[n] = u

RowIs(row, u) == FilesOf(row) = Cardinality(Contents[u])

(* What kind of request stands where.                                       *)
StepOK(q) ==
    /\ q.at = "idle" => q = Idle
    /\ q.at = "insert" => q.op = "create"
    /\ q.at \in {"clear", "count"} => q.op = "replace"
    /\ q.at \in {"list", "copy", "remove"} => q.op \in {"create", "replace"}
    /\ q.at \in {"read", "write"} => q.op \in {"edit", "replace"}
    /\ q.at = "upgrade" => q.upload = NoUpload

StepsOK == \A r \in Requests : StepOK(req[r])

(* Nothing but what an upload had is staged or served of it.                *)
StagedKnown == \A u \in Uploads : staged[u].files \subseteq Contents[u]
ServedKnown ==
    \A p \in Slugs, n \in Names : files[p][n] # NoUpload => n \in Contents[files[p][n]]

(* Nothing is served under a page there has never been.                     *)
PagesFresh == \A p \in Slugs \ Present : \A n \in Names : files[p][n] = NoUpload

(* Nobody else has to do with a page that is about to be created.           *)
CreatesAlone ==
    \A r \in Requests : req[r].at = "insert" =>
        /\ req[r].page \notin Present
        /\ \A q \in Requests \ {r} : req[q].at = "idle" \/ req[q].page # req[r].page

(* Two requests that place files under one page, or from one directory, are *)
(* both marked.                                                             *)
Places(q) == q.upload # NoUpload /\ q.at # "insert"
Copies(q) == q.upload # NoUpload /\ q.at \in CopyStages

Meet(q1, q2) ==
    \/ Places(q1) /\ Places(q2) /\ q1.page = q2.page
    \/ Copies(q1) /\ Copies(q2) /\ q1.upload = q2.upload

MeetingsMarked == \A r, q \in Requests : r # q /\ Meet(req[r], req[q]) => req[r].mixed

(* How far a request that is not marked has got.                            *)
HeldRows(p) == {req[s].row : s \in {q \in Requests : req[q].page = p /\ req[q].at = "write"}}

WellPlaced(r) ==
    LET q == req[r]
        u == req[r].upload
        p == req[r].page
    IN  u \in Uploads /\ ~q.mixed =>
          /\ q.at \in CopyStages => StillStaged(u)
          /\ q.at \notin {"insert", "clear"} => OnlyOf(files[p], u)
          /\ q.at = "copy" => Has(files[p], u, Contents[u] \ q.todo)
          /\ q.at \in {"count", "remove", "read", "write"} => Has(files[p], u, Contents[u])
          /\ q.op = "create" \/ q.at \in {"remove", "read", "write"}
                => q.count = Cardinality(Contents[u])
          /\ q.op = "create" /\ q.at # "insert" =>
                /\ RowIs(rows[p], u)
                /\ \A row \in HeldRows(p) : FilesOf(row) = FilesOf(rows[p])

PlacesWell == \A r \in Requests : WellPlaced(r)

(* The files of a page are those of the upload its row speaks of.           *)
Complete(p) ==
    \E u \in Uploads : OnlyOf(files[p], u) /\ Has(files[p], u, Contents[u]) /\ RowIs(rows[p], u)

PagesDone == \A p \in Present : p \in torn \/ Placing(p) # {} \/ Complete(p)

WholeInv ==
    /\ StepsOK /\ StagedKnown /\ ServedKnown /\ PagesFresh
    /\ CreatesAlone /\ MeetingsMarked /\ PlacesWell /\ PagesDone

-----------------------------------------------------------------------------
(* A page whose files are those its row speaks of is whole.                 *)
LEMMA CompleteIsWhole ==
  ASSUME SourcesArePaths, FilesArePlain, PagesInv, EditStays, ServedKnown,
         NEW p \in Present, Complete(p)
  PROVE  Whole(p)
<1>1. PICK u \in Uploads : /\ OnlyOf(files[p], u) /\ Has(files[p], u, Contents[u])
                           /\ RowIs(rows[p], u)
  BY DEF Complete
<1>2. PICK served : served = {n \in Names : files[p][n] = u}
  OBVIOUS
<1>3. served = Contents[u]
  BY <1>1, <1>2, PagesAssumption DEF Has, ServedKnown, Present
<1>4. rows[p].file_count = Cardinality(served)
  BY <1>1, <1>3 DEF RowIs, FilesOf
<1>5. \A n \in Names : files[p][n] # NoUpload /\ n \notin served
                           => storage = "oss" /\ n \in Nested
  BY <1>1, <1>2 DEF OnlyOf
<1>6. p \in crossed \/ rows[p].entry_file = said[p].entry
  <2>1. p \in crossed \/ Says(rows[p]) = said[p]
    BY DEF EditStays
  <2>2. Says(rows[p]).entry = rows[p].entry_file
    BY DEF Says
  <2>. QED  BY <2>1, <2>2
<1>7. \/ rows[p].entry_file \in HtmlFiles(served)
      \/ said[p].entry \notin HtmlFiles(Contents[u])
      \/ p \in crossed
  BY <1>3, <1>6
<1>8. served = UNION {StagedPart(part) : part \in Source[u]}
  BY <1>3 DEF Contents, StagedFiles
<1>9. \E placed \in [Source[u] -> SUBSET served] :
         /\ served = UNION {placed[part] : part \in Source[u]}
         /\ \A part \in Source[u] : InPlace(part, placed[part])
  <2>1. PICK placed : placed = [part \in Source[u] |-> StagedPart(part)]
    OBVIOUS
  <2>2. placed \in [Source[u] -> SUBSET served]
    BY <1>8, <2>1
  <2>3. served = UNION {placed[part] : part \in Source[u]}
    BY <1>8, <2>1
  <2>4. \A part \in Source[u] : InPlace(part, placed[part])
    BY <2>1, PartInPlace
  <2>. QED  BY <2>2, <2>3, <2>4
<1>. QED  BY <1>2, <1>4, <1>5, <1>7, <1>9 DEF Whole

-----------------------------------------------------------------------------
(* A marked request is the same request.                                    *)
LEMMA SharedFacts ==
  ASSUME NEW q \in Request
  PROVE  /\ Shared(q).op = q.op /\ Shared(q).at = q.at /\ Shared(q).page = q.page
         /\ Shared(q).upload = q.upload /\ Shared(q).row = q.row /\ Shared(q).mixed = TRUE
  BY DEF Shared, Request

(* Nobody who is idle places files or copies.                               *)
LEMMA IdlePlacesNothing == Idle.upload = NoUpload /\ Idle.at = "idle" /\ ~Idle.mixed
  BY DEF Idle

(* A request that a step leaves as it was, or marks.                        *)
Kept(q) ==
    \/ req'[q] = req[q]
    \/ req'[q] = Shared(req[q]) /\ req[q].at # "idle"

(* Such a request has its type, keeps what it had in hand, and is busy if   *)
(* it was marked.                                                           *)
LEMMA KeptFacts ==
  ASSUME PagesInv, NEW q \in Requests, Kept(q)
  PROVE  /\ req[q] \in Request
         /\ req'[q].op = req[q].op /\ req'[q].at = req[q].at /\ req'[q].page = req[q].page
         /\ req'[q].upload = req[q].upload /\ req'[q].row = req[q].row
         /\ req[q].mixed => req'[q].mixed
         /\ ~req'[q].mixed => req'[q] = req[q]
         /\ req[q].at = "idle" => req'[q] = req[q]
<1>1. req[q] \in Request
  BY DEF PagesInv, RequestsOK
<1>2. CASE req'[q] = req[q]
  BY <1>1, <1>2
<1>3. CASE req'[q] = Shared(req[q]) /\ req[q].at # "idle"
  BY <1>1, <1>3, SharedFacts
<1>. QED  BY <1>2, <1>3 DEF Kept

(* The other requests of a step that moves r.                               *)
OthersKept(r) == \A q \in Requests \ {r} : Kept(q)

(* What requests have to do with each other after r has moved.              *)
LEMMA MoveKeeps ==
  ASSUME PagesInv, StepsOK, CreatesAlone, MeetingsMarked,
         NEW r \in Requests, NEW new, req'[r] = new, OthersKept(r), StepOK(new),
         new.at = "insert" =>
             /\ new.page \notin Present'
             /\ \A q \in Requests \ {r} : req[q].at = "idle" \/ req[q].page # new.page,
         \A q \in Requests \ {r} : Meet(new, req[q]) => new.mixed /\ req'[q].mixed,
         \A q \in Requests \ {r} : req[q].at = "insert" =>
             /\ req[q].page \notin Present'
             /\ new.at = "idle" \/ new.page # req[q].page
  PROVE  StepsOK' /\ CreatesAlone' /\ MeetingsMarked'
<1>1. StepsOK'
  <2> SUFFICES ASSUME NEW q \in Requests PROVE StepOK(req'[q])
    BY DEF StepsOK
  <2>1. CASE q = r
    BY <2>1
  <2>2. CASE q # r
    <3>1. StepOK(req[q])
      BY DEF StepsOK
    <3>. QED  BY <2>2, <3>1, KeptFacts DEF OthersKept, StepOK
  <2>. QED  BY <2>1, <2>2
<1>2. CreatesAlone'
  <2> SUFFICES ASSUME NEW q \in Requests, req'[q].at = "insert"
               PROVE  /\ req'[q].page \notin Present'
                      /\ \A s \in Requests \ {q} :
                            req'[s].at = "idle" \/ req'[s].page # req'[q].page
    BY DEF CreatesAlone
  <2>0. CASE q = r
    <3>1. \A s \in Requests \ {r} : req'[s].at = "idle" \/ req'[s].page # new.page
      BY <2>0, KeptFacts DEF OthersKept
    <3>. QED  BY <2>0, <3>1
  <2> SUFFICES ASSUME q # r
               PROVE  /\ req'[q].page \notin Present'
                      /\ \A s \in Requests \ {q} :
                            req'[s].at = "idle" \/ req'[s].page # req'[q].page
    BY <2>0
  <2>1. req[q].at = "insert" /\ req'[q].page = req[q].page
    BY KeptFacts DEF OthersKept
  <2>2. ASSUME NEW s \in Requests \ {q} PROVE req'[s].at = "idle" \/ req'[s].page # req'[q].page
    <3>1. CASE s = r
      BY <2>1, <3>1
    <3>2. CASE s # r
      BY <2>1, <3>2, KeptFacts DEF OthersKept, CreatesAlone
    <3>. QED  BY <3>1, <3>2
  <2>. QED  BY <2>1, <2>2
<1>3. MeetingsMarked'
  <2> SUFFICES ASSUME NEW q \in Requests, NEW s \in Requests, q # s, Meet(req'[q], req'[s])
               PROVE  req'[q].mixed
    BY DEF MeetingsMarked, Meet, Places, Copies
  <2>1. CASE q = r
    <3>1. Meet(new, req[s])
      BY <2>1, KeptFacts DEF OthersKept, Meet, Places, Copies
    <3>. QED  BY <2>1, <3>1
  <2>2. CASE s = r
    <3>1. Meet(new, req[q])
      BY <2>2, KeptFacts DEF OthersKept, Meet, Places, Copies
    <3>. QED  BY <2>2, <3>1
  <2>3. CASE q # r /\ s # r
    <3>1. Meet(req[q], req[s])
      BY <2>3, KeptFacts DEF OthersKept, Meet, Places, Copies
    <3>. QED  BY <2>3, <3>1, KeptFacts DEF OthersKept, MeetingsMarked
  <2>. QED  BY <2>1, <2>2, <2>3
<1>. QED  BY <1>1, <1>2, <1>3

(* The same for a step that at most marks requests.                         *)
LEMMA MarkingKeeps ==
  ASSUME PagesInv, StepsOK, CreatesAlone, MeetingsMarked, \A q \in Requests : Kept(q),
         Present' = Present
  PROVE  StepsOK' /\ CreatesAlone' /\ MeetingsMarked'
<1>1. StepsOK'
  BY KeptFacts DEF StepsOK, StepOK
<1>2. CreatesAlone'
  BY KeptFacts DEF CreatesAlone
<1>3. MeetingsMarked'
  <2> SUFFICES ASSUME NEW q \in Requests, NEW s \in Requests, q # s, Meet(req'[q], req'[s])
               PROVE  req'[q].mixed
    BY DEF MeetingsMarked, Meet, Places, Copies
  <2>1. Meet(req[q], req[s])
    BY KeptFacts DEF Meet, Places, Copies
  <2>. QED  BY <2>1, KeptFacts DEF MeetingsMarked
<1>. QED  BY <1>1, <1>2, <1>3

(* A request that goes on with its page and its upload.                     *)
LEMMA GoingOnKeeps ==
  ASSUME PagesInv, StepsOK, CreatesAlone, MeetingsMarked,
         NEW r \in Requests, NEW new, req'[r] = new, OthersKept(r), StepOK(new),
         req[r].at \notin {"idle", "insert"}, new.at # "insert", Present' = Present,
         new.page = req[r].page, new.upload = req[r].upload, new.mixed = req[r].mixed,
         new.at \in CopyStages => req[r].at \in CopyStages
  PROVE  StepsOK' /\ CreatesAlone' /\ MeetingsMarked'
<1>1. ASSUME NEW q \in Requests \ {r}, Meet(new, req[q]) PROVE new.mixed /\ req'[q].mixed
  <2>1. Meet(req[r], req[q]) /\ Meet(req[q], req[r])
    BY <1>1 DEF Meet, Places, Copies
  <2>2. req[r].mixed /\ req[q].mixed
    BY <2>1 DEF MeetingsMarked
  <2>. QED  BY <2>2, KeptFacts DEF OthersKept
<1>2. ASSUME NEW q \in Requests \ {r}, req[q].at = "insert"
      PROVE  req[q].page \notin Present' /\ new.page # req[q].page
  BY <1>2 DEF CreatesAlone
<1>. QED  BY <1>1, <1>2, MoveKeeps

(* A request that is over, or is about a page without new files.            *)
LEMMA NoUploadKeeps ==
  ASSUME PagesInv, StepsOK, CreatesAlone, MeetingsMarked,
         NEW r \in Requests, NEW new, req'[r] = new, OthersKept(r), StepOK(new),
         new.at # "insert", Present' = Present, new.upload = NoUpload,
         new.at = "idle" \/ new.page \in Present
  PROVE  StepsOK' /\ CreatesAlone' /\ MeetingsMarked'
<1>1. \A q \in Requests \ {r} : ~Meet(new, req[q])
  BY DEF Meet, Places, Copies
<1>2. ASSUME NEW q \in Requests \ {r}, req[q].at = "insert"
      PROVE  /\ req[q].page \notin Present'
             /\ new.at = "idle" \/ new.page # req[q].page
  BY <1>2 DEF CreatesAlone
<1>. QED  BY <1>1, <1>2, MoveKeeps

-----------------------------------------------------------------------------
(* Where all are idle nobody meets anybody.                                 *)
LEMMA AllIdle ==
  (\A r \in Requests : req[r] = Idle) => StepsOK /\ CreatesAlone /\ MeetingsMarked
<1> SUFFICES ASSUME \A r \in Requests : req[r] = Idle
             PROVE  StepsOK /\ CreatesAlone /\ MeetingsMarked
  OBVIOUS
<1>1. StepOK(Idle) /\ ~Meet(Idle, Idle)
  BY IdlePlacesNothing DEF StepOK, Meet, Places, Copies
<1>2. StepsOK
  BY <1>1 DEF StepsOK
<1>3. CreatesAlone
  BY IdlePlacesNothing DEF CreatesAlone
<1>4. MeetingsMarked
  BY <1>1 DEF MeetingsMarked
<1>. QED  BY <1>2, <1>3, <1>4

(* A request that is marked, or has no upload, promises nothing.            *)
LEMMA MarkedPromisesNothing ==
  ASSUME NEW r \in Requests, req'[r].mixed \/ req'[r].upload = NoUpload
  PROVE  WellPlaced(r)'
  BY PagesAssumption DEF WellPlaced

(* A request that does not move is as far as it was, when its directory is  *)
(* left alone while it copies, and its page.                                *)
LEMMA PlacedStays ==
  ASSUME NEW r \in Requests, WellPlaced(r), req'[r] = req[r], storage' = storage,
         NEW u, u = req[r].upload, NEW p, p = req[r].page,
         u \in Uploads /\ ~req[r].mixed =>
            /\ req[r].at \in CopyStages /\ StillStaged(u) => StillStaged(u)'
            /\ req[r].at # "insert" => files'[p] = files[p]
            /\ req[r].op = "create" /\ req[r].at # "insert" =>
                 /\ FilesOf(rows'[p]) = FilesOf(rows[p])
                 /\ \A row \in HeldRows(p)' : row \in HeldRows(p) \/ FilesOf(row) = FilesOf(rows[p])
  PROVE  WellPlaced(r)'
<1> SUFFICES ASSUME u \in Uploads, ~req[r].mixed PROVE WellPlaced(r)'
  BY DEF WellPlaced
<1>1. req[r].at \in CopyStages => StillStaged(u)'
  BY DEF WellPlaced
<1>2. req[r].at \notin {"insert", "clear"} => OnlyOf(files[p], u)'
  BY DEF WellPlaced, OnlyOf
<1>3. req[r].at = "copy" => Has(files'[p], u, Contents[u] \ req[r].todo)
  BY DEF WellPlaced
<1>4. req[r].at \in {"count", "remove", "read", "write"} => Has(files'[p], u, Contents[u])
  BY DEF WellPlaced
<1>5. req[r].op = "create" \/ req[r].at \in {"remove", "read", "write"}
                => req[r].count = Cardinality(Contents[u])
  BY DEF WellPlaced
<1>6. req[r].op = "create" /\ req[r].at # "insert" =>
                /\ RowIs(rows'[p], u)
                /\ \A row \in HeldRows(p)' : FilesOf(row) = FilesOf(rows'[p])
  BY DEF WellPlaced, RowIs
<1>. QED  BY <1>1, <1>2, <1>3, <1>4, <1>5, <1>6 DEF WellPlaced, Has, RowIs

(* What PagesDone says of one page.                                         *)
PageDone(p) == p \in torn \/ Placing(p) # {} \/ Complete(p)

(* A page nobody touches stays as it was.                                   *)
LEMMA DoneStays ==
  ASSUME NEW p, PageDone(p), storage' = storage, files'[p] = files[p],
         FilesOf(rows'[p]) = FilesOf(rows[p]),
         p \in torn => p \in torn' \/ Placing(p)' # {},
         Placing(p) # {} => p \in torn' \/ Placing(p)' # {}
  PROVE  PageDone(p)'
<1>1. Complete(p) => Complete(p)'
  BY DEF Complete, OnlyOf, Has, RowIs
<1>. QED  BY <1>1 DEF PageDone

-----------------------------------------------------------------------------
(* What every step keeps.                                                   *)

(* Uploads and removals concern directories that nobody who is not marked   *)
(* copies from.                                                             *)
LEMMA StagedWhole ==
  ASSUME PagesInv, WholeInv, NEW u \in Uploads,
         Upload(u) \/ UploadFails(u) \/ Unlink(u) \/ RemoveDirectory(u)
  PROVE  WholeInv'
<1>1. /\ req' = req /\ rows' = rows /\ files' = files /\ torn' = torn /\ storage' = storage
      /\ staged \in [Uploads -> Directory]
  BY DEF Upload, UploadFails, Unlink, RemoveDirectory, PagesInv, RestOK
<1>2. /\ Present' = Present
      /\ \A p \in Slugs : Placing(p)' = Placing(p) /\ HeldRows(p)' = HeldRows(p)
  BY <1>1 DEF Present, Placing, HeldRows
<1>3. StepsOK' /\ ServedKnown' /\ PagesFresh' /\ CreatesAlone' /\ MeetingsMarked'
  BY <1>1, <1>2 DEF WholeInv, StepsOK, ServedKnown, PagesFresh, CreatesAlone, MeetingsMarked
<1>4. StagedKnown' /\ \A v \in Uploads : StillStaged(v) => StillStaged(v)'
  <2>1. StagedKnown
    BY DEF WholeInv
  <2>2. CASE Upload(u)
    <3>1. staged' = [staged EXCEPT ![u] = [at |-> "there", files |-> Contents[u]]]
            /\ removing' = removing /\ staged[u].at = "none"
      BY <2>2 DEF Upload
    <3>. QED  BY <1>1, <2>1, <3>1 DEF StagedKnown, StillStaged, Exists
  <2>3. CASE UploadFails(u)
    <3>1. PICK at \in {"left", "gone"} : staged' = [staged EXCEPT ![u].at = at]
      BY <2>3 DEF UploadFails
    <3>2. removing' = removing /\ staged[u].at = "none"
      BY <2>3 DEF UploadFails
    <3>3. \A v \in Uploads : staged'[v].files = staged[v].files
                              /\ (v # u => staged'[v] = staged[v])
      BY <1>1, <3>1 DEF Directory
    <3>. QED  BY <2>1, <3>2, <3>3 DEF StagedKnown, StillStaged, Exists
  <2>4. CASE Unlink(u)
    <3>1. PICK n \in staged[u].files : staged' = [staged EXCEPT ![u].files = @ \ {n}]
      BY <2>4 DEF Unlink
    <3>2. removing' = removing /\ u \in removing
      BY <2>4 DEF Unlink
    <3>3. /\ \A v \in Uploads : v # u => staged'[v] = staged[v]
          /\ staged'[u].files \subseteq staged[u].files
      BY <1>1, <3>1 DEF Directory
    <3>. QED  BY <2>1, <3>2, <3>3 DEF StagedKnown, StillStaged, Exists
  <2>5. CASE RemoveDirectory(u)
    <3>1. staged' = [staged EXCEPT ![u].at = "gone"] /\ u \in removing
            /\ removing' = removing \ {u}
      BY <2>5 DEF RemoveDirectory
    <3>2. \A v \in Uploads : staged'[v].files = staged[v].files
                              /\ (v # u => staged'[v] = staged[v])
      BY <1>1, <3>1 DEF Directory
    <3>. QED  BY <2>1, <3>1, <3>2 DEF StagedKnown, StillStaged, Exists
  <2>. QED  BY <2>2, <2>3, <2>4, <2>5
<1>5. PlacesWell'
  <2> SUFFICES ASSUME NEW r \in Requests PROVE WellPlaced(r)'
    BY DEF PlacesWell
  <2>1. PICK v : v = req[r].upload
    OBVIOUS
  <2>2. PICK p : p = req[r].page
    OBVIOUS
  <2>3. WellPlaced(r) /\ p \in Slugs
    BY <2>2 DEF WholeInv, PlacesWell, PagesInv, RequestsOK, Request
  <2>. QED  BY <1>1, <1>2, <1>4, <2>1, <2>2, <2>3, PlacedStays
<1>6. PagesDone'
  <2>1. \A p \in Present : PageDone(p)'
    BY <1>1, <1>2, DoneStays DEF WholeInv, PagesDone, PageDone, Present
  <2>. QED  BY <1>2, <2>1 DEF PagesDone, PageDone
<1>. QED  BY <1>3, <1>4, <1>5, <1>6 DEF WholeInv

(* A page is marked as deleted, or restored: its files are the same.        *)
LEMMA DeletionWhole ==
  ASSUME PagesInv, WholeInv, NEW s \in Slugs, DeletePage(s) \/ RestorePage(s)
  PROVE  WholeInv'
<1>1. /\ req' = req /\ files' = files /\ torn' = torn /\ storage' = storage
      /\ staged' = staged /\ removing' = removing /\ rows \in [Slugs -> Row] /\ rows[s] \in Here
  BY DEF DeletePage, RestorePage, PagesInv, RestOK, Found, Present, Here
<1>2. PICK d \in BOOLEAN : rows' = [rows EXCEPT ![s].deleted = d]
  BY DEF DeletePage, RestorePage
<1>3. \A p \in Slugs : rows'[p].at = rows[p].at /\ FilesOf(rows'[p]) = FilesOf(rows[p])
  <2>1. [rows[s] EXCEPT !.deleted = d] \in Here
          /\ FilesOf([rows[s] EXCEPT !.deleted = d]) = FilesOf(rows[s])
    BY <1>1, RowFacts
  <2>. QED  BY <1>1, <1>2, <2>1 DEF Here
<1>4. /\ Present' = Present
      /\ \A p \in Slugs : Placing(p)' = Placing(p) /\ HeldRows(p)' = HeldRows(p)
  BY <1>1, <1>3 DEF Present, Placing, HeldRows
<1>5. StepsOK' /\ ServedKnown' /\ PagesFresh' /\ CreatesAlone' /\ MeetingsMarked' /\ StagedKnown'
  BY <1>1, <1>4 DEF WholeInv, StepsOK, ServedKnown, PagesFresh, CreatesAlone, MeetingsMarked,
     StagedKnown
<1>6. PlacesWell'
  <2> SUFFICES ASSUME NEW r \in Requests PROVE WellPlaced(r)'
    BY DEF PlacesWell
  <2>1. PICK v : v = req[r].upload
    OBVIOUS
  <2>2. PICK p : p = req[r].page
    OBVIOUS
  <2>3. WellPlaced(r) /\ p \in Slugs
    BY <2>2 DEF WholeInv, PlacesWell, PagesInv, RequestsOK, Request
  <2>4. StillStaged(v) => StillStaged(v)'
    BY <1>1 DEF StillStaged, Exists
  <2>. QED  BY <1>1, <1>3, <1>4, <2>1, <2>2, <2>3, <2>4, PlacedStays
<1>7. PagesDone'
  <2>1. \A p \in Present : PageDone(p)'
    BY <1>1, <1>3, <1>4, DoneStays DEF WholeInv, PagesDone, PageDone, Present
  <2>. QED  BY <1>4, <2>1 DEF PagesDone, PageDone
<1>. QED  BY <1>5, <1>6, <1>7 DEF WholeInv

(* The others of a step that moves r are as far as they were.               *)
LEMMA OthersPlaced ==
  ASSUME PagesInv, WholeInv, NEW r \in Requests, OthersKept(r), storage' = storage,
         req'[r].at = "write" => FilesOf(req'[r].row) = FilesOf(rows[req'[r].page]),
         NEW s \in Requests \ {r}, NEW u, u = req[s].upload, NEW p, p = req[s].page,
         u \in Uploads /\ ~req'[s].mixed =>
            /\ req[s].at \in CopyStages /\ StillStaged(u) => StillStaged(u)'
            /\ req[s].at # "insert" => files'[p] = files[p]
            /\ req[s].op = "create" /\ req[s].at # "insert"
                 => FilesOf(rows'[p]) = FilesOf(rows[p])
  PROVE  WellPlaced(s)'
<1>1. CASE req'[s].mixed
  BY <1>1, MarkedPromisesNothing
<1>2. CASE ~req'[s].mixed
  <2>1. req'[s] = req[s] /\ WellPlaced(s)
    BY <1>2, KeptFacts DEF OthersKept, WholeInv, PlacesWell
  <2>2. ASSUME NEW row \in HeldRows(p)'
        PROVE  row \in HeldRows(p) \/ FilesOf(row) = FilesOf(rows[p])
    <3>1. PICK q \in Requests : req'[q].page = p /\ req'[q].at = "write" /\ row = req'[q].row
      BY <2>2 DEF HeldRows
    <3>2. CASE q = r
      BY <3>1, <3>2
    <3>3. CASE q # r
      <4>1. req[q].page = p /\ req[q].at = "write" /\ row = req[q].row
        BY <3>1, <3>3, KeptFacts DEF OthersKept
      <4>. QED  BY <4>1 DEF HeldRows
    <3>. QED  BY <3>2, <3>3
  <2>. QED  BY <1>2, <2>1, <2>2, PlacedStays
<1>. QED  BY <1>1, <1>2

(* And pages are done if they were.                                         *)
LEMMA OthersDone ==
  ASSUME PagesInv, NEW r \in Requests, OthersKept(r), storage' = storage,
         NEW p, PageDone(p), files'[p] = files[p], FilesOf(rows'[p]) = FilesOf(rows[p]),
         p \in torn => p \in torn' \/ Placing(p)' # {},
         r \in Placing(p) => r \in Placing(p)' \/ p \in torn'
  PROVE  PageDone(p)'
<1>1. \A s \in Requests \ {r} : s \in Placing(p) => s \in Placing(p)'
  BY KeptFacts DEF OthersKept, Placing
<1>2. Placing(p) # {} => p \in torn' \/ Placing(p)' # {}
  <2> SUFFICES ASSUME NEW s \in Placing(p) PROVE p \in torn' \/ Placing(p)' # {}
    OBVIOUS
  <2>1. s \in Requests
    BY DEF Placing
  <2>. QED  BY <1>1, <2>1
<1>. QED  BY <1>2, DoneStays

(* A request that begins an edit or a visit promises nothing.               *)
LEMMA EditVisitWhole ==
  ASSUME PagesInv, WholeInv, NEW r \in Requests, NEW p \in Slugs,
         (\E edit \in Edits["edit"] : BeginEdit(r, p, edit)) \/ Visit(r, p)
  PROVE  WholeInv'
<1>1. /\ files' = files /\ torn' = torn /\ storage' = storage /\ rows' = rows
      /\ staged' = staged /\ removing' = removing /\ req \in [Requests -> Request]
      /\ Present' = Present
  BY DEF BeginEdit, Visit, PagesInv, RequestsOK, Present
<1>2. PICK new : /\ req' = [req EXCEPT ![r] = new] /\ new.page = p /\ new.upload = NoUpload
                 /\ StepOK(new) /\ new.at \in {"read", "upgrade"}
  <2>1. ASSUME NEW edit, BeginEdit(r, p, edit)
        PROVE  \E new : /\ req' = [req EXCEPT ![r] = new] /\ new.page = p
                        /\ new.upload = NoUpload /\ StepOK(new) /\ new.at \in {"read", "upgrade"}
    <3> DEFINE new == [Idle EXCEPT !.op = "edit", !.at = "read", !.page = p, !.edit = edit]
    <3>1. /\ req' = [req EXCEPT ![r] = new] /\ new.page = p /\ new.upload = NoUpload
          /\ new.op = "edit" /\ new.at = "read"
      BY <2>1 DEF BeginEdit, Idle
    <3>. HIDE DEF new
    <3>2. StepOK(new)
      BY <3>1 DEF StepOK
    <3>. QED  BY <3>1, <3>2
  <2>2. CASE Visit(r, p)
    <3> DEFINE new == [Idle EXCEPT !.op = "visit", !.at = "upgrade", !.page = p, !.row = rows[p]]
    <3>1. /\ req' = [req EXCEPT ![r] = new] /\ new.page = p /\ new.upload = NoUpload
          /\ new.at = "upgrade"
      BY <2>2 DEF Visit, Idle
    <3>. HIDE DEF new
    <3>2. StepOK(new)
      BY <3>1 DEF StepOK
    <3>. QED  BY <3>1, <3>2
  <2>. QED  BY <2>1, <2>2
<1>3. req'[r] = new /\ OthersKept(r) /\ req[r] = Idle /\ p \in Present
  BY <1>1, <1>2 DEF OthersKept, Kept, BeginEdit, Visit, May, Found
<1>4. StepsOK' /\ CreatesAlone' /\ MeetingsMarked'
  BY <1>1, <1>2, <1>3, NoUploadKeeps DEF WholeInv
<1>5. ServedKnown' /\ PagesFresh' /\ StagedKnown'
  BY <1>1 DEF WholeInv, ServedKnown, PagesFresh, StagedKnown
<1>6. PlacesWell'
  <2>1. WellPlaced(r)'
    BY <1>2, <1>3, MarkedPromisesNothing
  <2>2. ASSUME NEW s \in Requests \ {r} PROVE WellPlaced(s)'
    <3>1. PICK u : u = req[s].upload
      OBVIOUS
    <3>2. PICK q : q = req[s].page
      OBVIOUS
    <3>3. StillStaged(u) => StillStaged(u)'
      BY <1>1 DEF StillStaged, Exists
    <3>. QED  BY <1>1, <1>2, <1>3, <3>1, <3>2, <3>3, OthersPlaced
  <2>. QED  BY <2>1, <2>2 DEF PlacesWell
<1>7. PagesDone'
  <2>1. r \notin Placing(p) /\ \A q : r \notin Placing(q)
    BY <1>3, IdlePlacesNothing DEF Placing
  <2>2. \A q \in Present : PageDone(q)'
    BY <1>1, <1>3, <2>1, OthersDone DEF WholeInv, PagesDone, PageDone
  <2>. QED  BY <1>1, <2>2 DEF PagesDone, PageDone
<1>. QED  BY <1>4, <1>5, <1>6, <1>7 DEF WholeInv

(* Whoever copies from the directory that the clean-up begins to remove is  *)
(* marked.                                                                  *)
LEMMA CleanUpWhole ==
  ASSUME PagesInv, WholeInv, NEW v \in Uploads, CleanUp(v)
  PROVE  WholeInv'
<1>1. /\ files' = files /\ torn' = torn /\ storage' = storage /\ rows' = rows
      /\ staged' = staged /\ removing' = removing \cup Removal(v) /\ req' = Sharing(v)
      /\ Present' = Present
  BY DEF CleanUp, Present
<1>2. \A q \in Requests : /\ Kept(q)
                          /\ q \in Copying(v) => req'[q] = Shared(req[q])
  BY <1>1, SharingFacts DEF Kept, Copying
<1>3. StepsOK' /\ CreatesAlone' /\ MeetingsMarked'
  BY <1>1, <1>2, MarkingKeeps DEF WholeInv
<1>4. ServedKnown' /\ PagesFresh' /\ StagedKnown'
  BY <1>1 DEF WholeInv, ServedKnown, PagesFresh, StagedKnown
<1>5. \A q \in Requests : req[q] \in Request
  BY DEF PagesInv, RequestsOK
<1>6. \A p : Placing(p)' = Placing(p) /\ HeldRows(p)' = HeldRows(p)
  <2>1. \A q \in Requests : /\ req'[q].page = req[q].page /\ req'[q].upload = req[q].upload
                            /\ req'[q].at = req[q].at /\ req'[q].row = req[q].row
    BY <1>2, KeptFacts
  <2>. QED  BY <2>1 DEF Placing, HeldRows
<1>7. PlacesWell'
  <2> SUFFICES ASSUME NEW r \in Requests PROVE WellPlaced(r)'
    BY DEF PlacesWell
  <2>1. CASE req'[r].mixed
    BY <2>1, MarkedPromisesNothing
  <2>2. CASE ~req'[r].mixed
    <3>1. PICK u : u = req[r].upload
      OBVIOUS
    <3>2. PICK p : p = req[r].page
      OBVIOUS
    <3>3. req'[r] = req[r] /\ WellPlaced(r)
      BY <1>2, <2>2, KeptFacts DEF WholeInv, PlacesWell
    <3>4. r \notin Copying(v)
      BY <1>2, <1>5, <2>2, SharedFacts
    <3>5. req[r].at \in CopyStages /\ StillStaged(u) => StillStaged(u)'
      <4>1. req[r].at \in CopyStages => u # v
        BY <3>1, <3>4 DEF Copying, CopyStages
      <4>. QED  BY <1>1, <4>1 DEF StillStaged, Exists, Removal
    <3>. QED  BY <1>1, <1>6, <3>1, <3>2, <3>3, <3>5, PlacedStays
  <2>. QED  BY <2>1, <2>2
<1>8. PagesDone'
  <2>1. \A p \in Present : PageDone(p)'
    BY <1>1, <1>6, DoneStays DEF WholeInv, PagesDone, PageDone
  <2>. QED  BY <1>1, <2>1 DEF PagesDone, PageDone
<1>. QED  BY <1>3, <1>4, <1>7, <1>8 DEF WholeInv

(* Who is about to write is still the same, but for the one who moves.      *)
LEMMA HeldStays ==
  ASSUME PagesInv, NEW r \in Requests, OthersKept(r), req'[r].at # "write", NEW p
  PROVE  HeldRows(p)' \subseteq HeldRows(p)
<1> SUFFICES ASSUME NEW q \in Requests, req'[q].page = p, req'[q].at = "write"
             PROVE  req'[q].row \in HeldRows(p)
  BY DEF HeldRows
<1>1. q # r /\ req[q].page = p /\ req[q].at = "write" /\ req'[q].row = req[q].row
  BY KeptFacts DEF OthersKept
<1>. QED  BY <1>1 DEF HeldRows

(* A request that begins to place files is marked, with those it meets, or  *)
(* has a whole directory for itself.                                        *)
LEMMA BeginsWhole ==
  ASSUME PagesInv, WholeInv, NEW r \in Requests, NEW p \in Slugs, NEW u \in Uploads,
         (\E edit \in Edits["create"] : BeginCreate(r, p, u, edit))
            \/ (\E edit \in Edits["replace"] : BeginReplace(r, p, u, edit))
  PROVE  WholeInv'
<1>1. /\ files' = files /\ torn' = torn /\ storage' = storage /\ rows' = rows
      /\ staged' = staged /\ removing' = removing /\ Present' = Present
      /\ req[r] = Idle /\ Exists(u)
  BY DEF BeginCreate, BeginReplace, Present, May
<1> DEFINE m == \/ Placing(p) # {} \/ Copying(u) # {}
                \/ u \in removing
                \/ staged[u].files # Contents[u]
<1>2. PICK request : /\ Join(r, p, u, request) /\ req'[r] = [request EXCEPT !.mixed = m]
                     /\ request.upload = u /\ request.page = p
                     /\ [request EXCEPT !.mixed = m].mixed = m
                     /\ \A f \in {"op", "at", "page", "upload", "count"} :
                           [request EXCEPT !.mixed = m][f] = request[f]
                     /\ \/ /\ request.at = "insert" /\ request.op = "create" /\ p \notin Present
                           /\ request.count = Cardinality(staged[u].files)
                           /\ \A q \in Requests : req[q].page = p => req[q] = Idle
                        \/ request.at = "clear" /\ request.op = "replace" /\ p \in Present
  <2>1. ASSUME NEW edit, BeginCreate(r, p, u, edit)
        PROVE  \E request : /\ Join(r, p, u, request) /\ request.upload = u /\ request.page = p
                            /\ DOMAIN request = DOMAIN Idle
                            /\ request.at = "insert" /\ request.op = "create" /\ p \notin Present
                            /\ request.count = Cardinality(staged[u].files)
    <3> DEFINE request == [Idle EXCEPT !.op = "create", !.at = "insert", !.page = p, !.upload = u,
                                  !.edit = Full(edit), !.count = Cardinality(staged[u].files)]
    <3>1. Join(r, p, u, request) /\ p \notin Present
      BY <2>1 DEF BeginCreate, Present
    <3>2. /\ request.upload = u /\ request.page = p /\ request.at = "insert"
          /\ request.op = "create" /\ request.count = Cardinality(staged[u].files)
          /\ DOMAIN request = DOMAIN Idle
      BY DEF Idle
    <3>. HIDE DEF request
    <3>. QED  BY <3>1, <3>2
  <2>2. ASSUME NEW edit, BeginReplace(r, p, u, edit)
        PROVE  \E request : /\ Join(r, p, u, request) /\ request.upload = u /\ request.page = p
                            /\ DOMAIN request = DOMAIN Idle
                            /\ request.at = "clear" /\ request.op = "replace" /\ p \in Present
    <3> DEFINE request == [Idle EXCEPT !.op = "replace", !.at = "clear", !.page = p,
                                       !.upload = u, !.edit = edit]
    <3>1. Join(r, p, u, request) /\ p \in Present
      BY <2>2 DEF BeginReplace, Found
    <3>2. /\ request.upload = u /\ request.page = p /\ request.at = "clear"
          /\ request.op = "replace" /\ DOMAIN request = DOMAIN Idle
      BY DEF Idle
    <3>. HIDE DEF request
    <3>. QED  BY <3>1, <3>2
  <2>3. ASSUME NEW request, DOMAIN request = DOMAIN Idle, Join(r, p, u, request)
        PROVE  /\ req'[r] = [request EXCEPT !.mixed = m]
               /\ [request EXCEPT !.mixed = m].mixed = m
               /\ \A f \in {"op", "at", "page", "upload", "count"} :
                     [request EXCEPT !.mixed = m][f] = request[f]
    <3>1. req'[r] = [request EXCEPT !.mixed = m]
      BY <2>3, JoinFacts
    <3>2. "mixed" \in DOMAIN request
            /\ {"op", "at", "page", "upload", "count"} \subseteq DOMAIN request
      BY <2>3 DEF Idle
    <3>. HIDE DEF m
    <3>. QED  BY <3>1, <3>2
  <2>4. ASSUME NEW edit, BeginCreate(r, p, u, edit)
        PROVE  \A q \in Requests : req[q].page = p => req[q] = Idle
    BY <2>4 DEF BeginCreate
  <2>. HIDE DEF m
  <2>. QED  BY <2>1, <2>2, <2>3, <2>4
<1>3. PICK new : new = req'[r]
  OBVIOUS
<1>4. /\ new.op = request.op /\ new.at = request.at /\ new.page = p /\ new.upload = u
      /\ new.count = request.count /\ new.mixed = m
  BY <1>2, <1>3
<1>5. \A q \in Requests \ {r} :
         /\ Kept(q)
         /\ q \in Placing(p) \cup Copying(u) => req'[q] = Shared(req[q]) /\ m
  <2>1. \A q \in Placing(p) \cup Copying(u) : req[q].at # "idle"
    BY IdlePlacesNothing DEF Placing, Copying, WholeInv, StepsOK, StepOK
  <2>. QED  BY <1>2, <2>1, JoinFacts DEF Kept
<1>. HIDE DEF m
<1>6. StepsOK' /\ CreatesAlone' /\ MeetingsMarked'
  <2>1. StepOK(new)
    BY <1>2, <1>4 DEF StepOK
  <2>2. OthersKept(r)
    BY <1>5 DEF OthersKept
  <2>3. ASSUME NEW q \in Requests \ {r}, Meet(new, req[q]) PROVE new.mixed /\ req'[q].mixed
    <3>1. q \in Placing(p) \cup Copying(u)
      BY <1>4, <2>3 DEF Meet, Places, Copies, Placing, Copying, CopyStages
    <3>2. req[q] \in Request
      BY DEF PagesInv, RequestsOK
    <3>. QED  BY <1>4, <1>5, <3>1, <3>2, SharedFacts
  <2>4. ASSUME NEW q \in Requests \ {r}, req[q].at = "insert"
        PROVE  /\ req[q].page \notin Present'
               /\ new.at = "idle" \/ new.page # req[q].page
    <3>1. req[q].page \notin Present
      BY <2>4 DEF WholeInv, CreatesAlone
    <3>2. CASE request.at = "clear"
      BY <1>1, <1>2, <1>4, <3>1, <3>2
    <3>3. CASE request.at = "insert"
      BY <1>1, <1>2, <1>4, <2>4, <3>1, <3>3, IdlePlacesNothing
    <3>. QED  BY <1>2, <3>2, <3>3
  <2>5. new.at = "insert" =>
             /\ new.page \notin Present'
             /\ \A q \in Requests \ {r} : req[q].at = "idle" \/ req[q].page # new.page
    BY <1>1, <1>2, <1>4, IdlePlacesNothing
  <2>. QED  BY <1>3, <2>1, <2>2, <2>3, <2>4, <2>5, MoveKeeps DEF WholeInv
<1>7. ServedKnown' /\ PagesFresh' /\ StagedKnown'
  BY <1>1 DEF WholeInv, ServedKnown, PagesFresh, StagedKnown
<1>8. PlacesWell'
  <2>1. WellPlaced(r)'
    <3> SUFFICES ASSUME ~new.mixed PROVE WellPlaced(r)'
      BY <1>3, MarkedPromisesNothing
    <3>1. u \notin removing /\ staged[u].files = Contents[u]
      BY <1>4 DEF m
    <3>2. StillStaged(u)'
      BY <1>1, <3>1 DEF StillStaged, Exists
    <3>. QED  BY <1>2, <1>3, <1>4, <3>1, <3>2 DEF WellPlaced
  <2>2. ASSUME NEW s \in Requests \ {r} PROVE WellPlaced(s)'
    <3>1. PICK v : v = req[s].upload
      OBVIOUS
    <3>2. PICK q : q = req[s].page
      OBVIOUS
    <3>3. StillStaged(v) => StillStaged(v)'
      BY <1>1 DEF StillStaged, Exists
    <3>4. OthersKept(r) /\ new.at # "write"
      BY <1>2, <1>4, <1>5 DEF OthersKept
    <3>. QED  BY <1>1, <1>3, <3>1, <3>2, <3>3, <3>4, OthersPlaced
  <2>. QED  BY <2>1, <2>2 DEF PlacesWell
<1>9. PagesDone'
  <2>1. \A q : r \notin Placing(q)
    BY <1>1, IdlePlacesNothing DEF Placing
  <2>2. OthersKept(r)
    BY <1>5 DEF OthersKept
  <2>3. \A q \in Present : PageDone(q)'
    BY <1>1, <2>1, <2>2, OthersDone DEF WholeInv, PagesDone, PageDone
  <2>. QED  BY <1>1, <2>3 DEF PagesDone, PageDone
<1>. QED  BY <1>6, <1>7, <1>8, <1>9 DEF WholeInv

(* A page is inserted before its files are there, and while nobody else     *)
(* knows of it.                                                             *)
LEMMA InsertPageWhole ==
  ASSUME PagesInv, WholeInv, NEW r \in Requests, InsertPage(r)
  PROVE  WholeInv'
<1>1. PICK p : p = req[r].page
  OBVIOUS
<1>2. PICK u : u = req[r].upload
  OBVIOUS
<1>3. PICK new : new = [req[r] EXCEPT !.at = "list"]
  OBVIOUS
<1>4. /\ files' = files /\ torn' = torn /\ storage' = storage
      /\ staged' = staged /\ removing' = removing
      /\ req[r].at = "insert" /\ req[r] \in Request /\ u \in Uploads /\ p \in Slugs
      /\ req \in [Requests -> Request] /\ rows \in [Slugs -> Row]
      /\ files \in [Slugs -> [Names -> Uploads \cup {NoUpload}]]
  BY <1>1, <1>2 DEF InsertPage, PagesInv, RestOK, RequestsOK, RequestOK, Request
<1>5. /\ req' = [req EXCEPT ![r] = new] /\ new.at = "list" /\ new.op = req[r].op
      /\ new.page = p /\ new.upload = u /\ new.mixed = req[r].mixed /\ new.count = req[r].count
  BY <1>1, <1>2, <1>3, <1>4 DEF InsertPage, Request
<1>6. req'[r] = new /\ OthersKept(r) /\ req[r].op = "create"
  BY <1>4, <1>5 DEF OthersKept, Kept, WholeInv, StepsOK, StepOK
<1>7. /\ rows'[p].at = "here" /\ FilesOf(rows'[p]) = req[r].count
      /\ \A q \in Slugs \ {p} : rows'[q] = rows[q]
  BY <1>1, <1>2, <1>4 DEF InsertPage, FilesOf
<1>8. Present' = Present \cup {p} /\ p \notin Present
  BY <1>1, <1>4, <1>7 DEF Present, WholeInv, CreatesAlone
<1>9. \A q \in Requests \ {r} : req[q] = Idle \/ req[q].page # p
  BY <1>1, <1>4 DEF WholeInv, CreatesAlone, StepsOK, StepOK
<1>10. StepsOK' /\ CreatesAlone' /\ MeetingsMarked'
  <2>1. StepOK(new)
    BY <1>5, <1>6 DEF StepOK
  <2>2. ASSUME NEW q \in Requests \ {r}, Meet(new, req[q]) PROVE new.mixed /\ req'[q].mixed
    <3>1. ~(Places(new) /\ Places(req[q]) /\ new.page = req[q].page)
      BY <1>5, <1>9, IdlePlacesNothing DEF Places
    <3>2. Meet(req[r], req[q]) /\ Meet(req[q], req[r])
      BY <1>2, <1>4, <1>5, <2>2, <3>1 DEF Meet, Copies, CopyStages
    <3>3. req[r].mixed /\ req[q].mixed
      BY <3>2 DEF WholeInv, MeetingsMarked
    <3>. QED  BY <1>5, <1>6, <3>3, KeptFacts DEF OthersKept
  <2>3. ASSUME NEW q \in Requests \ {r}, req[q].at = "insert"
        PROVE  req[q].page \notin Present' /\ new.page # req[q].page
    <3>1. req[q].page # p
      BY <1>9, <2>3, IdlePlacesNothing
    <3>2. req[q].page \notin Present
      BY <2>3 DEF WholeInv, CreatesAlone
    <3>. QED  BY <1>5, <1>8, <3>1, <3>2
  <2>. QED  BY <1>5, <1>6, <2>1, <2>2, <2>3, MoveKeeps DEF WholeInv
<1>11. ServedKnown' /\ PagesFresh' /\ StagedKnown'
  BY <1>4, <1>8 DEF WholeInv, ServedKnown, PagesFresh, StagedKnown
<1>12. PlacesWell'
  <2>1. WellPlaced(r)'
    <3> SUFFICES ASSUME ~new.mixed PROVE WellPlaced(r)'
      BY <1>6, MarkedPromisesNothing
    <3>1. StillStaged(u) /\ req[r].count = Cardinality(Contents[u])
      BY <1>2, <1>4, <1>5, <1>6 DEF WholeInv, PlacesWell, WellPlaced, CopyStages
    <3>2. StillStaged(u)'
      BY <1>4, <3>1 DEF StillStaged, Exists
    <3>3. OnlyOf(files[p], u)'
      BY <1>4, <1>8 DEF WholeInv, PagesFresh, OnlyOf
    <3>4. RowIs(rows'[p], u)
      BY <1>7, <3>1 DEF RowIs
    <3>5. HeldRows(p)' = {}
      <4>1. \A q \in Requests : ~(req'[q].page = p /\ req'[q].at = "write")
        BY <1>5, <1>6, <1>9, IdlePlacesNothing, KeptFacts DEF OthersKept
      <4>. QED  BY <4>1 DEF HeldRows
    <3>6. /\ req'[r].at = "list" /\ req'[r].page = p /\ req'[r].upload = u
          /\ req'[r].count = Cardinality(Contents[u])
      BY <1>5, <1>6, <3>1
    <3>. QED  BY <3>2, <3>3, <3>4, <3>5, <3>6 DEF WellPlaced, RowIs
  <2>2. ASSUME NEW s \in Requests \ {r} PROVE WellPlaced(s)'
    <3>1. PICK v : v = req[s].upload
      OBVIOUS
    <3>2. PICK q : q = req[s].page
      OBVIOUS
    <3>3. StillStaged(v) => StillStaged(v)'
      BY <1>4 DEF StillStaged, Exists
    <3>4. q \in Slugs
      BY <3>2 DEF PagesInv, RequestsOK, Request
    <3>5. v \in Uploads => q # p
      BY <1>9, <3>1, <3>2, IdlePlacesNothing, PagesAssumption
    <3>6. v \in Uploads => rows'[q] = rows[q]
      BY <1>7, <3>4, <3>5
    <3>7. req'[r].at # "write"
      BY <1>5, <1>6
    <3>. QED  BY <1>4, <1>6, <3>1, <3>2, <3>3, <3>6, <3>7, OthersPlaced
  <2>. QED  BY <2>1, <2>2 DEF PlacesWell
<1>13. PagesDone'
  <2>1. \A q : r \notin Placing(q)
    BY <1>4 DEF Placing
  <2>2. \A q \in Present : rows'[q] = rows[q]
    BY <1>7, <1>8 DEF Present
  <2>3. \A q \in Present : PageDone(q)'
    BY <1>4, <1>6, <2>1, <2>2, OthersDone DEF WholeInv, PagesDone, PageDone
  <2>4. r \in Placing(p)'
    BY <1>4, <1>5, <1>6, PagesAssumption DEF Placing
  <2>. QED  BY <1>8, <2>3, <2>4 DEF PagesDone, PageDone
<1>. QED  BY <1>10, <1>11, <1>12, <1>13 DEF WholeInv

(* A request that is not marked has its page and its directory to itself.   *)
LEMMA UnmarkedIsAlone ==
  ASSUME WholeInv, NEW r \in Requests, NEW s \in Requests \ {r},
         Places(req[r]), ~req[s].mixed
  PROVE  /\ Places(req[s]) => req[s].page # req[r].page
         /\ Copies(req[r]) /\ Copies(req[s]) => req[s].upload # req[r].upload
  BY DEF WholeInv, MeetingsMarked, Meet

(* The statements between the row and the directories, for the request that *)
(* executes them: what is left to show is how far it has got.               *)
LEMMA FileStepWhole ==
  ASSUME PagesInv, WholeInv, NEW r \in Requests, NEW new, NEW p, NEW u,
         p = req[r].page, u = req[r].upload,
         req[r].at \in {"clear", "list", "copy", "count"},
         req' = [req EXCEPT ![r] = new], StepOK(new), new.at \notin {"idle", "insert", "write"},
         new.page = p, new.upload = u, new.mixed = req[r].mixed, new.op = req[r].op,
         UNCHANGED <<storage, rows, staged, removing, torn>>,
         \A q \in Slugs \ {p} : files'[q] = files[q],
         ServedKnown',
         ~new.mixed /\ StillStaged(u) =>
            /\ OnlyOf(files[p], u)'
            /\ new.at = "copy" => Has(files'[p], u, Contents[u] \ new.todo)
            /\ new.at \in {"count", "remove", "read"} => Has(files'[p], u, Contents[u])
            /\ new.op = "create" \/ new.at \in {"remove", "read"}
                 => new.count = Cardinality(Contents[u])
  PROVE  WholeInv'
<1>1. /\ req[r] \in Request /\ u \in Uploads /\ p \in Present /\ p \in Slugs
      /\ req \in [Requests -> Request] /\ Present' = Present
  BY DEF PagesInv, RequestsOK, RequestOK, Present, Request
<1>2. req'[r] = new /\ OthersKept(r)
  BY <1>1 DEF OthersKept, Kept
<1>3. StepsOK' /\ CreatesAlone' /\ MeetingsMarked'
  BY <1>1, <1>2, GoingOnKeeps DEF WholeInv, CopyStages
<1>4. PagesFresh' /\ StagedKnown'
  BY <1>1 DEF WholeInv, PagesFresh, StagedKnown
<1>5. Places(req[r]) /\ Copies(req[r])
  BY <1>1, PagesAssumption DEF Places, Copies, CopyStages
<1>6. PlacesWell'
  <2>1. WellPlaced(r)'
    <3> SUFFICES ASSUME ~new.mixed PROVE WellPlaced(r)'
      BY <1>2, MarkedPromisesNothing
    <3>1. /\ StillStaged(u)
          /\ req[r].op = "create" => /\ RowIs(rows[p], u)
                                     /\ \A row \in HeldRows(p) : FilesOf(row) = FilesOf(rows[p])
      BY <1>1 DEF WholeInv, PlacesWell, WellPlaced, CopyStages
    <3>2. StillStaged(u)'
      BY <3>1 DEF StillStaged, Exists
    <3>3. HeldRows(p)' \subseteq HeldRows(p)
      BY <1>2, HeldStays
    <3>4. req'[r].page = p /\ req'[r].upload = u
      BY <1>2
    <3>. QED  BY <1>2, <3>1, <3>2, <3>3, <3>4 DEF WellPlaced, RowIs, Has
  <2>2. ASSUME NEW s \in Requests \ {r} PROVE WellPlaced(s)'
    <3>1. PICK v : v = req[s].upload
      OBVIOUS
    <3>2. PICK q : q = req[s].page
      OBVIOUS
    <3>3. StillStaged(v) => StillStaged(v)'
      BY DEF StillStaged, Exists
    <3>4. q \in Slugs
      BY <3>2 DEF PagesInv, RequestsOK, Request
    <3>5. v \in Uploads /\ ~req'[s].mixed /\ req[s].at # "insert" => q # p
      <4>1. ~req'[s].mixed => ~req[s].mixed
        BY <1>2, KeptFacts DEF OthersKept
      <4>. QED  BY <1>5, <3>1, <3>2, <4>1, UnmarkedIsAlone, PagesAssumption DEF Places
    <3>. QED  BY <1>2, <3>1, <3>2, <3>3, <3>4, <3>5, OthersPlaced
  <2>. QED  BY <2>1, <2>2 DEF PlacesWell
<1>7. PagesDone'
  <2>1. r \in Placing(p)'
    BY <1>1, <1>2, PagesAssumption DEF Placing
  <2>2. ASSUME NEW q \in Present, q # p PROVE PageDone(q)'
    <3>1. q \in Slugs /\ PageDone(q)
      BY DEF WholeInv, PagesDone, PageDone, Present
    <3>2. r \notin Placing(q)
      BY <2>2 DEF Placing
    <3>. QED  BY <1>2, <2>2, <3>1, <3>2, OthersDone
  <2>. QED  BY <1>1, <2>1, <2>2 DEF PagesDone, PageDone
<1>. QED  BY <1>3, <1>4, <1>6, <1>7 DEF WholeInv

(* Taking the old files away, listing the directory, copying a file and     *)
(* counting.                                                                *)
LEMMA FilesWhole ==
  ASSUME PagesInv, WholeInv, NEW r \in Requests, NEW n \in Names,
         ClearFiles(r) \/ ListStaged(r) \/ CopyFile(r, n) \/ CountFiles(r)
  PROVE  WholeInv'
<1>1. PICK p : p = req[r].page
  OBVIOUS
<1>2. PICK u : u = req[r].upload
  OBVIOUS
<1>3. /\ req[r] \in Request /\ u \in Uploads /\ p \in Present /\ p \in Slugs
      /\ req \in [Requests -> Request] /\ RestOK
      /\ files \in [Slugs -> [Names -> Uploads \cup {NoUpload}]]
      /\ req[r].at \in {"clear", "list", "copy", "count"}
      /\ UNCHANGED <<storage, rows, staged, removing, torn>>
  BY <1>1, <1>2 DEF ClearFiles, ListStaged, CopyFile, CountFiles, PagesInv, RequestsOK, RequestOK,
     Present, Request, RestOK
<1>4. ServedKnown /\ StagedKnown /\ StepOK(req[r]) /\ WellPlaced(r)
  BY DEF WholeInv, StepsOK, PlacesWell
<1>5. CASE ClearFiles(r)
  <2>1. PICK new : new = [req[r] EXCEPT !.at = "list"]
    OBVIOUS
  <2>2. /\ req' = [req EXCEPT ![r] = new] /\ new.at = "list"
        /\ new.page = p /\ new.upload = u /\ new.mixed = req[r].mixed /\ new.op = req[r].op
    BY <1>1, <1>2, <1>3, <1>5, <2>1 DEF ClearFiles, Request
  <2>3. StepOK(new) /\ new.op = "replace"
    BY <1>4, <1>5, <2>2 DEF StepOK, ClearFiles
  <2>4. /\ files'[p] = [k \in Names |-> IF Cleared(k) THEN NoUpload ELSE files[p][k]]
        /\ \A q \in Slugs \ {p} : files'[q] = files[q]
    BY <1>1, <1>3, <1>5 DEF ClearFiles
  <2>5. ServedKnown'
    BY <1>3, <1>4, <2>4 DEF ServedKnown
  <2>6. OnlyOf(files[p], u)'
    <3>1. storage \in {"local", "oss"} /\ storage' = storage
      BY <1>3, PagesAssumption DEF RestOK
    <3>. QED  BY <2>4, <3>1 DEF OnlyOf, Cleared
  <2>. QED  BY <1>1, <1>2, <1>3, <2>2, <2>3, <2>4, <2>5, <2>6, FileStepWhole
<1>6. ASSUME NEW todo \in SUBSET Names, req' = Onward(r, todo), req[r].at \in {"list", "copy"}
      PROVE  \E new : /\ req' = [req EXCEPT ![r] = new] /\ StepOK(new) /\ new.page = p
                      /\ new.upload = u /\ new.mixed = req[r].mixed /\ new.op = req[r].op
                      /\ new.todo = todo /\ new.count = req[r].count
                      /\ \/ todo # {} /\ new.at = "copy"
                         \/ todo = {} /\ new.at = "remove" /\ new.op = "create"
                         \/ todo = {} /\ new.at = "count" /\ new.op = "replace"
  <2> DEFINE at == IF todo # {} THEN "copy" ELSE IF req[r].op = "create" THEN "remove" ELSE "count"
             new == [[req[r] EXCEPT !.todo = todo] EXCEPT !.at = at]
  <2>1. req' = [req EXCEPT ![r] = new]
    BY <1>3, <1>6 DEF Onward
  <2>2. /\ new.at = at /\ new.page = p /\ new.upload = u /\ new.mixed = req[r].mixed
        /\ new.op = req[r].op /\ new.todo = todo /\ new.count = req[r].count
    BY <1>1, <1>2, <1>3 DEF Request
  <2>3. req[r].op \in {"create", "replace"}
    BY <1>4, <1>6 DEF StepOK
  <2>. HIDE DEF new
  <2>4. StepOK(new)
    BY <2>2, <2>3 DEF StepOK
  <2>. QED  BY <2>1, <2>2, <2>3, <2>4
<1>7. CASE ListStaged(r)
  <2>1. staged[u].files \in SUBSET Names
    BY <1>3 DEF RestOK, Directory
  <2>2. PICK new : /\ req' = [req EXCEPT ![r] = new] /\ StepOK(new) /\ new.page = p
                   /\ new.upload = u /\ new.mixed = req[r].mixed /\ new.op = req[r].op
                   /\ new.todo = staged[u].files /\ new.count = req[r].count
                   /\ \/ staged[u].files # {} /\ new.at = "copy"
                      \/ staged[u].files = {} /\ new.at = "remove" /\ new.op = "create"
                      \/ staged[u].files = {} /\ new.at = "count" /\ new.op = "replace"
    BY <1>2, <1>6, <1>7, <2>1 DEF ListStaged
  <2>3. files' = files /\ req[r].at = "list"
    BY <1>7 DEF ListStaged
  <2>4. ServedKnown'
    BY <1>4, <2>3 DEF ServedKnown
  <2>5. ASSUME ~new.mixed, StillStaged(u)
        PROVE  /\ OnlyOf(files[p], u)'
               /\ new.at = "copy" => Has(files'[p], u, Contents[u] \ new.todo)
               /\ new.at \in {"count", "remove", "read"} => Has(files'[p], u, Contents[u])
               /\ new.op = "create" \/ new.at \in {"remove", "read"}
                    => new.count = Cardinality(Contents[u])
    <3>1. OnlyOf(files[p], u) /\ (req[r].op = "create" => req[r].count = Cardinality(Contents[u]))
      BY <1>1, <1>2, <1>3, <1>4, <2>2, <2>3, <2>5 DEF WellPlaced
    <3>2. OnlyOf(files[p], u)'
      BY <1>3, <2>3, <3>1 DEF OnlyOf
    <3>3. staged[u].files = Contents[u]
      BY <2>5 DEF StillStaged
    <3>. QED  BY <2>2, <3>1, <3>2, <3>3 DEF Has
  <2>. QED  BY <1>1, <1>2, <1>3, <2>2, <2>3, <2>4, <2>5, FileStepWhole
<1>8. CASE CopyFile(r, n)
  <2>1. req[r].todo \ {n} \in SUBSET Names
    BY <1>3 DEF Request
  <2>2. PICK new : /\ req' = [req EXCEPT ![r] = new] /\ StepOK(new) /\ new.page = p
                   /\ new.upload = u /\ new.mixed = req[r].mixed /\ new.op = req[r].op
                   /\ new.todo = req[r].todo \ {n} /\ new.count = req[r].count
                   /\ \/ req[r].todo \ {n} # {} /\ new.at = "copy"
                      \/ req[r].todo \ {n} = {} /\ new.at = "remove" /\ new.op = "create"
                      \/ req[r].todo \ {n} = {} /\ new.at = "count" /\ new.op = "replace"
    BY <1>6, <1>8, <2>1 DEF CopyFile
  <2>3. /\ files' = [files EXCEPT ![p][n] = u] /\ req[r].at = "copy" /\ n \in staged[u].files
    BY <1>1, <1>2, <1>8 DEF CopyFile
  <2>4. /\ \A q \in Slugs \ {p} : files'[q] = files[q]
        /\ \A k \in Names : files'[p][k] = IF k = n THEN u ELSE files[p][k]
    BY <1>3, <2>3
  <2>5. ServedKnown'
    <3>1. n \in Contents[u]
      BY <1>3, <1>4, <2>3 DEF StagedKnown
    <3>. QED  BY <1>3, <1>4, <2>4, <3>1 DEF ServedKnown
  <2>6. ASSUME ~new.mixed, StillStaged(u)
        PROVE  /\ OnlyOf(files[p], u)'
               /\ new.at = "copy" => Has(files'[p], u, Contents[u] \ new.todo)
               /\ new.at \in {"count", "remove", "read"} => Has(files'[p], u, Contents[u])
               /\ new.op = "create" \/ new.at \in {"remove", "read"}
                    => new.count = Cardinality(Contents[u])
    <3>1. /\ OnlyOf(files[p], u) /\ Has(files[p], u, Contents[u] \ req[r].todo)
          /\ req[r].op = "create" => req[r].count = Cardinality(Contents[u])
      BY <1>1, <1>2, <1>3, <1>4, <2>2, <2>3, <2>6 DEF WellPlaced
    <3>2. OnlyOf(files[p], u)'
      BY <1>3, <2>4, <3>1 DEF OnlyOf
    <3>3. Contents[u] \subseteq Names
      BY <1>3, PagesAssumption
    <3>4. Has(files'[p], u, Contents[u] \ (req[r].todo \ {n}))
      BY <2>4, <3>1, <3>3 DEF Has
    <3>. QED  BY <2>2, <3>1, <3>2, <3>4 DEF Has
  <2>7. /\ req' = [req EXCEPT ![r] = new] /\ StepOK(new) /\ new.page = p
        /\ new.upload = u /\ new.mixed = req[r].mixed /\ new.op = req[r].op
        /\ new.at \notin {"idle", "insert", "write"}
        /\ \A q \in Slugs \ {p} : files'[q] = files[q]
    BY <2>2, <2>4
  <2>. QED  BY <1>1, <1>2, <1>3, <2>5, <2>6, <2>7, FileStepWhole
<1>9. CASE CountFiles(r)
  <2>1. PICK c : c = Cardinality(staged[u].files)
    OBVIOUS
  <2>2. PICK new : new = [[req[r] EXCEPT !.at = "remove"] EXCEPT !.count = c]
    OBVIOUS
  <2>3. /\ req' = [req EXCEPT ![r] = new] /\ new.at = "remove" /\ new.count = c
        /\ new.page = p /\ new.upload = u /\ new.mixed = req[r].mixed /\ new.op = req[r].op
    BY <1>1, <1>2, <1>3, <1>9, <2>1, <2>2 DEF CountFiles, Request
  <2>4. StepOK(new) /\ new.op = "replace" /\ files' = files /\ req[r].at = "count"
    BY <1>4, <1>9, <2>3 DEF StepOK, CountFiles
  <2>5. ServedKnown'
    BY <1>4, <2>4 DEF ServedKnown
  <2>6. ASSUME ~new.mixed, StillStaged(u)
        PROVE  /\ OnlyOf(files[p], u)' /\ Has(files'[p], u, Contents[u])
               /\ new.count = Cardinality(Contents[u])
    <3>1. OnlyOf(files[p], u) /\ Has(files[p], u, Contents[u])
      BY <1>1, <1>2, <1>3, <1>4, <2>3, <2>4, <2>6 DEF WellPlaced
    <3>. QED  BY <1>3, <2>1, <2>3, <2>4, <2>6, <3>1 DEF OnlyOf, StillStaged
  <2>. QED  BY <1>1, <1>2, <1>3, <2>3, <2>4, <2>5, <2>6, FileStepWhole
<1>. QED  BY <1>5, <1>7, <1>8, <1>9

(* A request that is over, or reads the row: its files are in their place.  *)
LEMMA RemoveStagedWhole ==
  ASSUME PagesInv, WholeInv, NEW r \in Requests, RemoveStaged(r)
  PROVE  WholeInv'
<1>1. PICK p : p = req[r].page
  OBVIOUS
<1>2. PICK u : u = req[r].upload
  OBVIOUS
<1>3. /\ req[r] \in Request /\ u \in Uploads /\ p \in Present /\ p \in Slugs
      /\ req[r].at = "remove" /\ Present' = Present
      /\ UNCHANGED <<storage, rows, staged, files>>
      /\ removing' = removing \cup Removal(u)
  BY <1>1, <1>2 DEF RemoveStaged, PagesInv, RequestsOK, RequestOK, Present, Request
<1>4. StepOK(req[r]) /\ WellPlaced(r)
  BY DEF WholeInv, StepsOK, PlacesWell
<1>5. PICK new : /\ req'[r] = new
                 /\ \A s \in Requests \ {r} : req'[s] = Sharing(u)[s]
                 /\ \/ req[r].op = "create" /\ new = Idle
                    \/ req[r].op = "replace" /\ new = [req[r] EXCEPT !.at = "read"]
  <2> DEFINE was == Sharing(u)[r]
             new == IF was.op = "create" THEN Idle ELSE [was EXCEPT !.at = "read"]
  <2>1. req' = [Sharing(u) EXCEPT ![r] = new]
    BY <1>2 DEF RemoveStaged
  <2>2. was = req[r]
    BY <1>3, SharingFacts DEF Copying
  <2>3. req[r].op \in {"create", "replace"}
    BY <1>3, <1>4 DEF StepOK
  <2>4. new = IF req[r].op = "create" THEN Idle ELSE [req[r] EXCEPT !.at = "read"]
    BY <2>2
  <2>. HIDE DEF new, was
  <2>5. req'[r] = new /\ \A s \in Requests \ {r} : req'[s] = Sharing(u)[s]
    BY <2>1, SharingFacts
  <2>. QED  BY <2>3, <2>4, <2>5
<1>6. OthersKept(r) /\ \A s \in Requests \ {r} : s \in Copying(u) => req'[s] = Shared(req[s])
  BY <1>5, SharingFacts DEF OthersKept, Kept, Copying
<1>7. req[r].op = "replace" =>
        /\ new.at = "read" /\ new.page = p /\ new.upload = u /\ new.mixed = req[r].mixed
        /\ new.op = "replace" /\ new.count = req[r].count
  BY <1>1, <1>2, <1>3, <1>5, IdlePlacesNothing DEF Request, Idle
<1>8. StepsOK' /\ CreatesAlone' /\ MeetingsMarked'
  <2>1. CASE req[r].op = "create"
    <3>1. new = Idle /\ StepOK(Idle)
      BY <1>5, <2>1 DEF StepOK, Idle
    <3>. QED  BY <1>3, <1>5, <1>6, <3>1, IdlePlacesNothing, NoUploadKeeps DEF WholeInv
  <2>2. CASE req[r].op = "replace"
    <3>1. StepOK(new)
      BY <1>7, <2>2 DEF StepOK
    <3>2. new.at \notin CopyStages /\ new.at # "insert"
      BY <1>7, <2>2 DEF CopyStages
    <3>. QED  BY <1>1, <1>2, <1>3, <1>5, <1>6, <1>7, <2>2, <3>1, <3>2, GoingOnKeeps DEF WholeInv
  <2>. QED  BY <1>5, <2>1, <2>2
<1>9. ServedKnown' /\ PagesFresh' /\ StagedKnown'
  BY <1>3 DEF WholeInv, ServedKnown, PagesFresh, StagedKnown
<1>10. PlacesWell'
  <2>1. WellPlaced(r)'
    <3>1. CASE req[r].op = "create"
      BY <1>5, <3>1, IdlePlacesNothing, MarkedPromisesNothing
    <3>2. CASE req[r].op = "replace"
      <4> SUFFICES ASSUME ~req[r].mixed PROVE WellPlaced(r)'
        BY <1>5, <1>7, <3>2, MarkedPromisesNothing
      <4>1. /\ OnlyOf(files[p], u) /\ Has(files[p], u, Contents[u])
            /\ req[r].count = Cardinality(Contents[u])
        BY <1>1, <1>2, <1>3, <1>4 DEF WellPlaced
      <4>2. OnlyOf(files[p], u)' /\ Has(files[p], u, Contents[u])'
        BY <1>3, <4>1 DEF OnlyOf, Has
      <4>. QED  BY <1>5, <1>7, <3>2, <4>1, <4>2 DEF WellPlaced, CopyStages
    <3>. QED  BY <1>5, <3>1, <3>2
  <2>2. ASSUME NEW s \in Requests \ {r} PROVE WellPlaced(s)'
    <3>1. PICK v : v = req[s].upload
      OBVIOUS
    <3>2. PICK q : q = req[s].page
      OBVIOUS
    <3>3. req[s] \in Request
      BY DEF PagesInv, RequestsOK
    <3>4. ~req'[s].mixed /\ req[s].at \in CopyStages /\ StillStaged(v) => StillStaged(v)'
      <4>1. ~req'[s].mixed => s \notin Copying(u)
        BY <1>6, <3>3, SharedFacts
      <4>2. ~req'[s].mixed /\ req[s].at \in CopyStages => v # u
        BY <3>1, <4>1 DEF Copying, CopyStages
      <4>. QED  BY <1>3, <4>2 DEF StillStaged, Exists, Removal
    <3>5. req'[r].at # "write"
      BY <1>5, <1>7, IdlePlacesNothing
    <3>. QED  BY <1>3, <1>6, <3>1, <3>2, <3>4, <3>5, OthersPlaced
  <2>. QED  BY <2>1, <2>2 DEF PlacesWell
<1>11. PagesDone'
  <2>1. ASSUME NEW q \in Present, q # p PROVE PageDone(q)'
    <3>1. PageDone(q) /\ r \notin Placing(q)
      BY <1>1, <2>1 DEF WholeInv, PagesDone, PageDone, Placing
    <3>2. q \in torn => q \in torn'
      BY <1>1, <2>1 DEF RemoveStaged, Placed
    <3>. QED  BY <1>3, <1>6, <3>1, <3>2, OthersDone
  <2>2. CASE req[r].op = "replace"
    <3>1. r \in Placing(p)'
      BY <1>3, <1>5, <1>7, <2>2, PagesAssumption DEF Placing
    <3>. QED  BY <1>3, <2>1, <3>1 DEF PagesDone, PageDone
  <2>3. CASE req[r].op = "create" /\ req[r].mixed
    <3>1. p \in torn'
      BY <1>1, <2>3 DEF RemoveStaged, Placed
    <3>. QED  BY <1>3, <2>1, <3>1 DEF PagesDone, PageDone
  <2>4. CASE req[r].op = "create" /\ ~req[r].mixed
    <3>1. OnlyOf(files[p], u) /\ Has(files[p], u, Contents[u]) /\ RowIs(rows[p], u)
      BY <1>1, <1>2, <1>3, <1>4, <2>4 DEF WellPlaced
    <3>2. Complete(p)'
      BY <1>3, <3>1 DEF Complete, OnlyOf, Has, RowIs
    <3>. QED  BY <1>3, <2>1, <3>2 DEF PagesDone, PageDone
  <2>. QED  BY <1>5, <2>2, <2>3, <2>4
<1>. QED  BY <1>8, <1>9, <1>10, <1>11 DEF WholeInv

(* Reading the row: it is read with the files it has.                       *)
LEMMA ReadRowWhole ==
  ASSUME PagesInv, WholeInv, NEW r \in Requests, ReadRow(r)
  PROVE  WholeInv'
<1>1. PICK p : p = req[r].page
  OBVIOUS
<1>2. PICK u : u = req[r].upload
  OBVIOUS
<1>3. PICK new : new = [[req[r] EXCEPT !.at = "write"] EXCEPT !.row = rows[p]]
  OBVIOUS
<1>4. /\ req[r] \in Request /\ p \in Present /\ p \in Slugs
      /\ req[r].at = "read" /\ Present' = Present
      /\ UNCHANGED <<storage, rows, staged, files, removing, torn>>
      /\ req' = [req EXCEPT ![r] = new] /\ req \in [Requests -> Request]
  BY <1>1, <1>3 DEF ReadRow, PagesInv, RequestsOK, RequestOK, Present, Request
<1>5. /\ new.at = "write" /\ new.page = p /\ new.upload = u /\ new.mixed = req[r].mixed
      /\ new.op = req[r].op /\ new.count = req[r].count /\ new.row = rows[p]
  BY <1>1, <1>2, <1>3, <1>4 DEF Request
<1>6. req'[r] = new /\ OthersKept(r)
  BY <1>4 DEF OthersKept, Kept
<1>7. StepOK(req[r]) /\ WellPlaced(r)
  BY DEF WholeInv, StepsOK, PlacesWell
<1>8. StepOK(new) /\ new.op # "create"
  BY <1>4, <1>5, <1>7 DEF StepOK
<1>9. StepsOK' /\ CreatesAlone' /\ MeetingsMarked'
  <2>1. new.at \notin CopyStages /\ new.at # "insert"
    BY <1>5 DEF CopyStages
  <2>. QED  BY <1>1, <1>2, <1>4, <1>5, <1>6, <1>8, <2>1, GoingOnKeeps DEF WholeInv
<1>10. ServedKnown' /\ PagesFresh' /\ StagedKnown'
  BY <1>4 DEF WholeInv, ServedKnown, PagesFresh, StagedKnown
<1>11. PlacesWell'
  <2>1. WellPlaced(r)'
    <3> SUFFICES ASSUME ~req[r].mixed, u \in Uploads PROVE WellPlaced(r)'
      BY <1>5, <1>6, MarkedPromisesNothing DEF WellPlaced
    <3>1. /\ OnlyOf(files[p], u) /\ Has(files[p], u, Contents[u])
          /\ req[r].count = Cardinality(Contents[u])
      BY <1>1, <1>2, <1>4, <1>7 DEF WellPlaced
    <3>2. OnlyOf(files[p], u)' /\ Has(files[p], u, Contents[u])'
      BY <1>4, <3>1 DEF OnlyOf, Has
    <3>. QED  BY <1>5, <1>6, <1>8, <3>1, <3>2 DEF WellPlaced, CopyStages
  <2>2. ASSUME NEW s \in Requests \ {r} PROVE WellPlaced(s)'
    <3>1. PICK v : v = req[s].upload
      OBVIOUS
    <3>2. PICK q : q = req[s].page
      OBVIOUS
    <3>3. StillStaged(v) => StillStaged(v)'
      BY <1>4 DEF StillStaged, Exists
    <3>4. FilesOf(req'[r].row) = FilesOf(rows[req'[r].page])
      BY <1>5, <1>6
    <3>. QED  BY <1>4, <1>6, <3>1, <3>2, <3>3, <3>4, OthersPlaced
  <2>. QED  BY <2>1, <2>2 DEF PlacesWell
<1>12. PagesDone'
  <2>1. ASSUME NEW q \in Present PROVE PageDone(q)'
    <3>1. PageDone(q) /\ (r \in Placing(q) => r \in Placing(q)')
      BY <1>1, <1>2, <1>4, <1>5, <1>6 DEF WholeInv, PagesDone, PageDone, Placing
    <3>. QED  BY <1>4, <1>6, <3>1, OthersDone
  <2>. QED  BY <1>4, <2>1 DEF PagesDone, PageDone
<1>. QED  BY <1>9, <1>10, <1>11, <1>12 DEF WholeInv

(* A request that ends, with its row written or without: the others are as  *)
(* they were, if its page is no other's that is not marked.                 *)
LEMMA EndWhole ==
  ASSUME PagesInv, WholeInv, NEW r \in Requests, NEW p, p = req[r].page,
         req' = [req EXCEPT ![r] = Idle], Present' = Present,
         UNCHANGED <<storage, staged, removing>>, ServedKnown', PagesFresh',
         \A q \in Slugs \ {p} : files'[q] = files[q] /\ FilesOf(rows'[q]) = FilesOf(rows[q]),
         \A q \in Slugs \ {p} : q \in torn => q \in torn',
         Places(req[r]) \/ files'[p] = files[p],
         \/ Places(req[r]) \/ FilesOf(rows'[p]) = FilesOf(rows[p])
         \/ req[r].row \in HeldRows(p) /\ FilesOf(rows'[p]) = FilesOf(req[r].row),
         p \in Present => PageDone(p)'
  PROVE  WholeInv'
<1>1. req \in [Requests -> Request] /\ p \in Slugs
  BY DEF PagesInv, RequestsOK, Request
<1>2. req'[r] = Idle /\ OthersKept(r)
  BY <1>1 DEF OthersKept, Kept
<1>3. StepsOK' /\ CreatesAlone' /\ MeetingsMarked'
  <2>1. StepOK(Idle)
    BY DEF StepOK, Idle
  <2>. QED  BY <1>2, <2>1, IdlePlacesNothing, NoUploadKeeps DEF WholeInv
<1>4. StagedKnown'
  BY DEF WholeInv, StagedKnown
<1>5. PlacesWell'
  <2>1. WellPlaced(r)'
    BY <1>2, IdlePlacesNothing, MarkedPromisesNothing
  <2>2. ASSUME NEW s \in Requests \ {r} PROVE WellPlaced(s)'
    <3>1. PICK v : v = req[s].upload
      OBVIOUS
    <3>2. PICK q : q = req[s].page
      OBVIOUS
    <3>3. StillStaged(v) => StillStaged(v)'
      BY DEF StillStaged, Exists
    <3>4. q \in Slugs /\ req'[s] = req[s] /\ WellPlaced(s)
      BY <1>1, <3>2 DEF PagesInv, RequestsOK, Request, WholeInv, PlacesWell
    <3>5. ASSUME v \in Uploads, ~req[s].mixed, req[s].at # "insert"
          PROVE  /\ files'[q] = files[q]
                 /\ req[s].op = "create" => FilesOf(rows'[q]) = FilesOf(rows[q])
      <4>1. CASE q # p
        BY <3>4, <4>1
      <4>2. CASE q = p
        <5>1. ~Places(req[r])
          BY <3>1, <3>2, <3>5, <4>2, UnmarkedIsAlone, PagesAssumption DEF Places
        <5>2. req[s].op = "create" => \A row \in HeldRows(q) : FilesOf(row) = FilesOf(rows[q])
          BY <3>1, <3>2, <3>4, <3>5 DEF WellPlaced
        <5>. QED  BY <4>2, <5>1, <5>2
      <4>. QED  BY <4>1, <4>2
    <3>6. req'[r].at # "write"
      BY <1>2, IdlePlacesNothing
    <3>. QED  BY <1>2, <3>1, <3>2, <3>3, <3>4, <3>5, <3>6, OthersPlaced
  <2>. QED  BY <2>1, <2>2 DEF PlacesWell
<1>6. PagesDone'
  <2>1. ASSUME NEW q \in Present, q # p PROVE PageDone(q)'
    <3>1. PageDone(q) /\ r \notin Placing(q) /\ q \in Slugs
      BY <2>1 DEF WholeInv, PagesDone, PageDone, Placing, Present
    <3>. QED  BY <1>2, <2>1, <3>1, OthersDone
  <2>. QED  BY <2>1 DEF PagesDone, PageDone
<1>. QED  BY <1>3, <1>4, <1>5, <1>6 DEF WholeInv

(* Writing the row: with the new files that are in place, or, for an edit,  *)
(* with the files of the row it has read.                                   *)
LEMMA WriteRowWhole ==
  ASSUME PagesInv, WholeInv, NEW r \in Requests, WriteRow(r)
  PROVE  WholeInv'
<1>1. PICK p : p = req[r].page
  OBVIOUS
<1>2. PICK u : u = req[r].upload
  OBVIOUS
<1>3. PICK old : old = [req[r].row EXCEPT !.deleted = rows[p].deleted]
  OBVIOUS
<1>4. /\ req[r] \in Request /\ p \in Present /\ p \in Slugs /\ req[r].at = "write"
      /\ UNCHANGED <<storage, staged, files, removing>>
      /\ req' = [req EXCEPT ![r] = Idle] /\ Present' = Present
      /\ rows' = [rows EXCEPT ![p] = NewFiles(Edited(old, req[r].edit), r)]
      /\ rows \in [Slugs -> Row] /\ \A q \in Slugs \ {p} : rows'[q] = rows[q]
      /\ Edited(old, req[r].edit) \in Here /\ old \in Here
      /\ FilesOf(old) = FilesOf(req[r].row)
  BY <1>1, <1>3, WriteRowFacts DEF WriteRow, PagesInv, RequestsOK, RestOK
<1>5. req[r].edit \in Edit
  BY <1>4 DEF Request
<1>6. FilesOf(rows'[p]) = IF u = NoUpload THEN FilesOf(req[r].row) ELSE req[r].count
  <2>1. rows'[p] = NewFiles(Edited(old, req[r].edit), r)
    BY <1>4
  <2>2. FilesOf(Edited(old, req[r].edit)) = FilesOf(old)
    BY <1>4, <1>5, EditedFacts
  <2>. QED  BY <1>2, <1>4, <2>1, <2>2, NewFilesFacts
<1>7. torn' = IF u # NoUpload THEN Placed(r, ~req[r].mixed)
              ELSE IF FilesOf(req[r].row) = FilesOf(rows[p]) THEN torn ELSE torn \cup {p}
  BY <1>1, <1>2, <1>3, <1>4 DEF WriteRow, FilesOf
<1>8. ServedKnown' /\ PagesFresh'
  BY <1>4 DEF WholeInv, ServedKnown, PagesFresh
<1>9. PageDone(p)'
  <2>1. CASE u # NoUpload /\ req[r].mixed
    BY <1>1, <1>7, <2>1 DEF PageDone, Placed
  <2>2. CASE u # NoUpload /\ ~req[r].mixed
    <3>1. u \in Uploads /\ WellPlaced(r)
      BY <1>2, <1>4, <2>2 DEF Request, WholeInv, PlacesWell
    <3>2. /\ OnlyOf(files[p], u) /\ Has(files[p], u, Contents[u])
          /\ req[r].count = Cardinality(Contents[u])
      BY <1>1, <1>2, <1>4, <2>2, <3>1 DEF WellPlaced
    <3>3. Complete(p)'
      BY <1>4, <1>6, <2>2, <3>1, <3>2 DEF Complete, OnlyOf, Has, RowIs
    <3>. QED  BY <3>3 DEF PageDone
  <2>3. CASE u = NoUpload /\ FilesOf(req[r].row) # FilesOf(rows[p])
    BY <1>7, <2>3 DEF PageDone
  <2>4. CASE u = NoUpload /\ FilesOf(req[r].row) = FilesOf(rows[p])
    <3>1. torn' = torn /\ FilesOf(rows'[p]) = FilesOf(rows[p])
      BY <1>6, <1>7, <2>4
    <3>2. r \notin Placing(p) /\ PageDone(p)
      BY <1>2, <1>4, <2>4 DEF Placing, WholeInv, PagesDone, PageDone
    <3>3. OthersKept(r)
      BY <1>4 DEF OthersKept, Kept, PagesInv, RequestsOK
    <3>. QED  BY <1>4, <3>1, <3>2, <3>3, OthersDone
  <2>. QED  BY <2>1, <2>2, <2>3, <2>4
<1>10. \/ Places(req[r])
       \/ req[r].row \in HeldRows(p) /\ FilesOf(rows'[p]) = FilesOf(req[r].row)
  BY <1>1, <1>2, <1>4, <1>6 DEF Places, HeldRows
<1>11. \A q \in Slugs \ {p} : q \in torn => q \in torn'
  BY <1>1, <1>7 DEF Placed
<1>. QED  BY <1>1, <1>4, <1>8, <1>9, <1>10, <1>11, EndWhole

(* The upgrade of a password leaves the files of the row.                   *)
LEMMA UpgradeWhole ==
  ASSUME PagesInv, WholeInv, NEW r \in Requests, UpgradePassword(r)
  PROVE  WholeInv'
<1>1. PICK p : p = req[r].page
  OBVIOUS
<1>2. PICK w : w = [pass |-> req[r].row.password.pass, hashed |-> TRUE]
  OBVIOUS
<1>3. /\ req[r] \in Request /\ p \in Present /\ p \in Slugs /\ req[r].at = "upgrade"
      /\ UNCHANGED <<storage, staged, files, removing, torn>>
      /\ req' = [req EXCEPT ![r] = Idle]
      /\ rows' = [rows EXCEPT ![p] = [rows[p] EXCEPT !.password = w]]
      /\ rows \in [Slugs -> Row] /\ rows[p] \in Here /\ w \in Password
  <2>1. RequestOK(req[r], Present) /\ req[r].at = "upgrade" /\ RestOK
    BY DEF UpgradePassword, PagesInv, RequestsOK
  <2>2. w \in Password
    BY <1>2, <2>1, PasswordFacts DEF RequestOK
  <2>3. p \in Present /\ p \in Slugs /\ rows \in [Slugs -> Row] /\ rows[p] \in Here
    BY <1>1, <2>1 DEF RequestOK, Present, Here, RestOK
  <2>. QED  BY <1>1, <1>2, <2>1, <2>2, <2>3 DEF UpgradePassword, RequestOK
<1>4. \A q \in Slugs : rows'[q].at = rows[q].at /\ FilesOf(rows'[q]) = FilesOf(rows[q])
  <2>1. [rows[p] EXCEPT !.password = w] \in Here
          /\ FilesOf([rows[p] EXCEPT !.password = w]) = FilesOf(rows[p])
    BY <1>3, RowFacts
  <2>. QED  BY <1>3, <2>1 DEF Here
<1>5. Present' = Present
  BY <1>4 DEF Present
<1>6. ServedKnown' /\ PagesFresh'
  BY <1>3, <1>5 DEF WholeInv, ServedKnown, PagesFresh
<1>7. PageDone(p)'
  <2>1. r \notin Placing(p) /\ PageDone(p)
    BY <1>3 DEF Placing, WholeInv, PagesDone, PageDone, StepsOK, StepOK
  <2>2. OthersKept(r)
    BY <1>3 DEF OthersKept, Kept, PagesInv, RequestsOK
  <2>. QED  BY <1>3, <1>4, <2>1, <2>2, OthersDone
<1>. QED  BY <1>1, <1>3, <1>4, <1>5, <1>6, <1>7, EndWhole

(* Files that were being taken away may be gone in part; all others stay.   *)
LEMMA InterruptedWhole ==
  ASSUME PagesInv, WholeInv, NEW R \in SUBSET Requests, files' \in Interrupted(R),
         Present' = Present
  PROVE  /\ ServedKnown' /\ PagesFresh'
         /\ \A p \in Slugs : (\A r \in R : req[r].at = "clear" => req[r].page # p)
                               => files'[p] = files[p]
<1>1. files \in [Slugs -> [Names -> Uploads \cup {NoUpload}]]
  BY DEF PagesInv, RestOK
<1>2. PICK kept \in SUBSET Names :
         files' = [p \in Slugs |-> [n \in Names |->
            IF /\ \E r \in R : req[r].at = "clear" /\ req[r].page = p
               /\ n \notin kept
            THEN NoUpload ELSE files[p][n]]]
  BY DEF Interrupted
<1>3. \A p \in Slugs, n \in Names : files'[p][n] \in {NoUpload, files[p][n]}
  BY <1>2
<1>4. ASSUME NEW p \in Slugs, \A r \in R : req[r].at = "clear" => req[r].page # p
      PROVE  files'[p] = files[p]
  <2>1. files'[p] = [n \in Names |-> files[p][n]]
    BY <1>2, <1>4
  <2>. QED  BY <1>1, <2>1
<1>5. ServedKnown'
  BY <1>3 DEF WholeInv, ServedKnown
<1>6. PagesFresh'
  BY <1>3 DEF WholeInv, PagesFresh
<1>. QED  BY <1>4, <1>5, <1>6

(* A request that gives up leaves a page it had touched torn.               *)
LEMMA GiveUpWhole ==
  ASSUME PagesInv, WholeInv, NEW r \in Requests, GiveUp(r)
  PROVE  WholeInv'
<1>1. PICK p : p = req[r].page
  OBVIOUS
<1>2. /\ req' = [req EXCEPT ![r] = Idle] /\ Present' = Present
      /\ UNCHANGED <<storage, rows, staged, removing>>
      /\ files' \in Interrupted({r})
      /\ torn' = IF Touched(r) THEN torn \cup {p} ELSE torn
  BY <1>1 DEF GiveUp, Present
<1>3. /\ ServedKnown' /\ PagesFresh'
      /\ \A q \in Slugs : (req[r].at = "clear" => req[r].page # q) => files'[q] = files[q]
  BY <1>2, InterruptedWhole
<1>4. RequestOK(req[r], Present) /\ p \in Slugs
  BY <1>1 DEF PagesInv, RequestsOK, Request
<1>5. req[r].at = "clear" => Places(req[r])
  BY <1>4, PagesAssumption DEF RequestOK, Places
<1>6. Places(req[r]) <=> Touched(r)
  BY DEF Places, Touched
<1>7. ASSUME p \in Present PROVE PageDone(p)'
  <2>1. CASE Touched(r)
    BY <1>2, <2>1 DEF PageDone
  <2>2. CASE ~Touched(r)
    <3>1. files'[p] = files[p] /\ torn' = torn
      BY <1>2, <1>3, <1>4, <1>5, <1>6, <2>2
    <3>2. r \notin Placing(p) /\ PageDone(p)
      BY <1>7, <2>2 DEF Touched, Placing, WholeInv, PagesDone, PageDone
    <3>3. OthersKept(r)
      BY <1>2 DEF OthersKept, Kept, PagesInv, RequestsOK
    <3>. QED  BY <1>2, <3>1, <3>2, <3>3, OthersDone
  <2>. QED  BY <2>1, <2>2
<1>8. Places(req[r]) \/ files'[p] = files[p]
  BY <1>3, <1>4, <1>5
<1>9. \A q \in Slugs \ {p} : files'[q] = files[q] /\ (q \in torn => q \in torn')
  BY <1>1, <1>2, <1>3
<1>. QED  BY <1>1, <1>2, <1>3, <1>7, <1>8, <1>9, EndWhole

(* A crash leaves every page torn whose files were being placed.            *)
LEMMA CrashWhole ==
  ASSUME PagesInv, WholeInv, Crash
  PROVE  WholeInv'
<1>1. /\ req' = [r \in Requests |-> Idle] /\ Present' = Present
      /\ UNCHANGED <<storage, rows, staged>>
      /\ files' \in Interrupted(Requests)
      /\ torn' = torn \cup {req[r].page : r \in {q \in Requests : Touched(q)}}
  BY DEF Crash, Present
<1>2. /\ ServedKnown' /\ PagesFresh'
      /\ \A q \in Slugs : (\A r \in Requests : req[r].at = "clear" => req[r].page # q)
                             => files'[q] = files[q]
  BY <1>1, InterruptedWhole
<1>3. \A r \in Requests : req'[r] = Idle
  BY <1>1
<1>4. StepsOK' /\ CreatesAlone' /\ MeetingsMarked'
  <2>1. StepOK(Idle) /\ ~Meet(Idle, Idle)
    BY IdlePlacesNothing DEF StepOK, Meet, Places, Copies
  <2>2. StepsOK'
    BY <1>3, <2>1 DEF StepsOK
  <2>3. CreatesAlone'
    BY <1>3, IdlePlacesNothing DEF CreatesAlone
  <2>4. MeetingsMarked'
    BY <1>3, <2>1 DEF MeetingsMarked
  <2>. QED  BY <2>2, <2>3, <2>4
<1>5. StagedKnown'
  BY <1>1 DEF WholeInv, StagedKnown
<1>6. PlacesWell'
  BY <1>3, IdlePlacesNothing, MarkedPromisesNothing DEF PlacesWell
<1>7. PagesDone'
  <2> SUFFICES ASSUME NEW p \in Present PROVE PageDone(p)'
    BY <1>1 DEF PagesDone, PageDone
  <2>1. PageDone(p) /\ p \in Slugs
    BY DEF WholeInv, PagesDone, PageDone, Present
  <2>2. CASE Placing(p) # {}
    <3>1. PICK r \in Requests : req[r].page = p /\ Touched(r)
      BY <2>2 DEF Placing, Touched
    <3>. QED  BY <1>1, <3>1 DEF PageDone
  <2>3. CASE Placing(p) = {}
    <3>1. \A r \in Requests : req[r].at = "clear" => req[r].page # p
      BY <2>3, PagesAssumption DEF PagesInv, RequestsOK, RequestOK, Placing
    <3>2. files'[p] = files[p]
      BY <1>2, <2>1, <3>1
    <3>. QED  BY <1>1, <2>1, <2>3, <3>2, DoneStays
  <2>. QED  BY <2>2, <2>3
<1>. QED  BY <1>2, <1>4, <1>5, <1>6, <1>7 DEF WholeInv

(* Nothing happens.                                                         *)
LEMMA StutterWhole ==
  ASSUME WholeInv, UNCHANGED vars
  PROVE  WholeInv'
<1>1. /\ Present' = Present
      /\ \A p : Placing(p)' = Placing(p) /\ HeldRows(p)' = HeldRows(p)
      /\ \A p : Complete(p)' = Complete(p)
      /\ \A u : StillStaged(u)' = StillStaged(u)
  BY DEF vars, Present, Placing, HeldRows, Complete, OnlyOf, Has, RowIs, StillStaged, Exists
<1>2. StepsOK' /\ StagedKnown' /\ ServedKnown' /\ PagesFresh' /\ CreatesAlone' /\ MeetingsMarked'
  BY <1>1 DEF vars, WholeInv, StepsOK, StagedKnown, ServedKnown, PagesFresh, CreatesAlone,
     MeetingsMarked
<1>3. PlacesWell'
  BY <1>1 DEF vars, WholeInv, PlacesWell, WellPlaced, OnlyOf, Has, RowIs, StillStaged, Exists,
     HeldRows
<1>4. PagesDone'
  BY <1>1 DEF vars, WholeInv, PagesDone
<1>. QED  BY <1>2, <1>3, <1>4 DEF WholeInv

(* The old page has the files of its upload.                                *)
LEMMA InitWhole == Init => WholeInv
<1> SUFFICES ASSUME Init PROVE WholeInv
  OBVIOUS
<1>1. /\ \A r \in Requests : req[r] = Idle
      /\ Old.page \in Slugs /\ Old.upload \in Uploads /\ NoUpload \notin Uploads
  BY PagesAssumption DEF Init
<1>2. \A u \in Uploads : staged[u].files = {}
  BY DEF Init
<1>3. \A p \in Slugs, n \in Names :
         files[p][n] = IF p = Old.page /\ n \in Contents[Old.upload] THEN Old.upload ELSE NoUpload
  BY DEF Init
<1>4. Present = {Old.page}
  BY <1>1 DEF Init, Present, NoRow
<1>5. StepsOK /\ CreatesAlone /\ MeetingsMarked
  BY <1>1, AllIdle
<1>6. StagedKnown /\ ServedKnown /\ PagesFresh
  BY <1>1, <1>2, <1>3, <1>4 DEF StagedKnown, ServedKnown, PagesFresh
<1>7. PlacesWell
  BY <1>1, IdlePlacesNothing DEF PlacesWell, WellPlaced
<1>8. PagesDone
  <2>1. RowIs(rows[Old.page], Old.upload)
    BY <1>1 DEF Init, RowIs, FilesOf
  <2>2. Contents[Old.upload] \subseteq Names
    BY <1>1, PagesAssumption
  <2>3. /\ OnlyOf(files[Old.page], Old.upload)
        /\ Has(files[Old.page], Old.upload, Contents[Old.upload])
    BY <1>1, <1>3, <2>2 DEF OnlyOf, Has
  <2>4. Complete(Old.page)
    BY <1>1, <2>1, <2>3 DEF Complete
  <2>. QED  BY <1>4, <2>4 DEF PagesDone
<1>. QED  BY <1>5, <1>6, <1>7, <1>8 DEF WholeInv

(* Every step keeps it.                                                     *)
LEMMA WholeNext == PagesInv /\ WholeInv /\ [Next]_vars => WholeInv'
<1> SUFFICES ASSUME PagesInv, WholeInv, [Next]_vars PROVE WholeInv'
  OBVIOUS
<1>1. ASSUME NEW r \in Requests, RequestStep(r) PROVE WholeInv'
  <2>1. ASSUME NEW n \in Names, CopyFile(r, n) PROVE WholeInv'
    BY <2>1, FilesWhole
  <2>2. ASSUME ClearFiles(r) \/ ListStaged(r) \/ CountFiles(r) PROVE WholeInv'
    <3>1. \E n : n \in Names
      BY PagesAssumption
    <3>. QED  BY <2>2, <3>1, FilesWhole
  <2>3. ASSUME NEW p \in Slugs, NEW u \in Uploads,
               (\E edit \in Edits["create"] : BeginCreate(r, p, u, edit))
                  \/ (\E edit \in Edits["replace"] : BeginReplace(r, p, u, edit))
        PROVE  WholeInv'
    BY <2>3, BeginsWhole
  <2>4. ASSUME NEW p \in Slugs, (\E edit \in Edits["edit"] : BeginEdit(r, p, edit)) \/ Visit(r, p)
        PROVE  WholeInv'
    BY <2>4, EditVisitWhole
  <2>. QED
    BY <1>1, <2>1, <2>2, <2>3, <2>4, InsertPageWhole, RemoveStagedWhole, ReadRowWhole,
       WriteRowWhole, UpgradeWhole, GiveUpWhole DEF RequestStep
<1>2. ASSUME NEW u \in Uploads,
             Upload(u) \/ UploadFails(u) \/ CleanUp(u) \/ Unlink(u) \/ RemoveDirectory(u)
      PROVE  WholeInv'
  BY <1>2, StagedWhole, CleanUpWhole
<1>3. ASSUME NEW p \in Slugs, DeletePage(p) \/ RestorePage(p) PROVE WholeInv'
  BY <1>3, DeletionWhole
<1>. QED  BY <1>1, <1>2, <1>3, CrashWhole, StutterWhole DEF Next

(* Every reachable state has the files of its pages where the row, or the   *)
(* request that places them, says, whoever shares what.                     *)
THEOREM WholeInvariant == Spec => []WholeInv
  BY InitWhole, WholeNext, PagesInvariant, PTL DEF Spec

(* A published page is whole unless somebody is placing files, or the last  *)
(* one who did was cut off, or shared the page or the directory, or the row *)
(* was written over by an edit that had read another: if uploads are sets   *)
(* of paths, and files that are sent one by one have names the server       *)
(* leaves as they are.                                                      *)
THEOREM PublishedIsWholeHolds ==
  ASSUME SourcesArePaths, FilesArePlain
  PROVE  Spec => []PublishedIsWhole
<1>1. PagesInv /\ EditStays /\ WholeInv => PublishedIsWhole
  <2> SUFFICES ASSUME PagesInv, EditStays, WholeInv, NEW p \in Present, p \notin torn, Placing(p) = {}
               PROVE  Whole(p)
    BY DEF PublishedIsWhole
  <2>1. Complete(p) /\ ServedKnown
    BY DEF WholeInv, PagesDone
  <2>. QED  BY <2>1, CompleteIsWhole
<1>. QED  BY <1>1, PagesInvariant, EditStaysHolds, WholeInvariant, PTL
=============================================================================
