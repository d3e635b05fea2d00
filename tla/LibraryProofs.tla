--------------------------- MODULE LibraryProofs ---------------------------
(***************************************************************************)
(* Proofs about the life of entries and of the index, for any URLs,         *)
(* requests and bounds. LibraryInv says what a request has in hand at each  *)
(* of its steps, that what was purged is neither on disk nor about to be    *)
(* committed, and who exactly will index or fetch an entry, unless those    *)
(* who would were dropped or failed.                                        *)
(***************************************************************************)
EXTENDS Library, TLAPS

(* Requests that go through a file.                                         *)
Imports == {"wallabag", "bookmarks", "export"}

(* What a request has in hand where it stands.                              *)
RequestFits(q) ==
    /\ q.at \in {"fill", "promote", "index", "send", "unindex", "commit", "reread", "reindex"}
          => q.id \in Ids
    /\ q.at \in {"next", "index"} => q.op \in Imports
    /\ q.at = "conflict" => q.op \in Imports \cup {"save", "link", "note"}
    /\ q.at = "fill" => q.op \in Imports \cup {"note"}
    /\ q.op = "export" => q.at \in {"next", "conflict", "fill", "flush"}
    /\ q.op # "export" => q.unsent = {} /\ \A i \in Ids \ {q.id} : q.docs[i] = NoDoc
    /\ q.op # "export" /\ q.at \notin {"index", "reindex"} => q.docs = NoDocs

RequestsFit == \A r \in Requests : RequestFits(req[r])

(* A fetch that is under way is one of an entry.                            *)
FetchFits == fetch.at # "idle" => fetch.id \in Ids

(* Entries that were purged are gone from the index and from the disk; one  *)
(* whose deletion from the index is to be committed is gone from the index. *)
PurgeInv ==
    /\ \A i \in Ids : fate[i] = "purged" =>
          view[i] = NoDoc /\ disk[i] = NoDoc /\ rows[i].at = "gone"
    /\ \A r \in Requests : req[r].at \in {"unindex", "commit"} =>
          rows[req[r].id].at # "unused"
    /\ \A r \in Requests :
          req[r].at = "commit" /\ req[r].id \notin Present /\ fate[req[r].id] = "well"
             => view[req[r].id] = NoDoc

(* Who will fetch entry i: unlike BeingFetched without those who may be     *)
(* through with that.                                                       *)
WillBeFetched(i) ==
    \/ i \in queue
    \/ fetch.at = "fetching" /\ fetch.id = i
    \/ \E r \in Requests : i \in ToFetch(r)

(* An entry without content, unless it was cut off, will be fetched.        *)
FetchInv == \A i \in Ids : Blank(i) /\ fate[i] # "cut" => WillBeFetched(i)

(* The inductive invariant.                                                 *)
LibraryInv == TypeOK /\ RequestsFit /\ FetchFits /\ PurgeInv /\ TextIsIndexed /\ FetchInv

-----------------------------------------------------------------------------
(* Documents, and the texts of rows, are told apart from none.              *)
LEMMA DocFacts ==
  /\ NoDoc \in Docs /\ NoText \in Docs /\ Texts \subseteq Docs /\ {NoText} \cup Texts \subseteq Docs
  /\ NoDoc \notin Texts /\ NoDoc # NoText /\ NoText \notin Texts /\ NoDocs \in [Ids -> Docs]
  /\ \A i \in Ids : NoDocs[i] = NoDoc
  BY LibraryAssumption DEF Docs, Texts, NoDoc, NoText, NoDocs

(* Rows: what has no content has no text, what is not there has neither.    *)
LEMMA RowFacts ==
  /\ \A row \in Row : /\ row.at \in {"unused", "live", "trash", "gone"}
                      /\ row.text \in {NoText} \cup Texts
                      /\ row.text \in Docs /\ row.text # NoDoc
                      /\ row.content \in {"none", "some", "failed"}
                      /\ row.content # "some" => row.text = NoText
                      /\ row.url \in Urls \cup {NoUrl}
  /\ Unused \in Row /\ Gone \in Row
  /\ Unused.at = "unused" /\ Gone.at = "gone"
  /\ \A row \in Row : row.at = "unused" => row = Unused
<1>1. \A row \in Row : /\ row.at \in {"unused", "live", "trash", "gone"}
                       /\ row.text \in {NoText} \cup Texts
                       /\ row.content \in {"none", "some", "failed"}
                       /\ row.content # "some" => row.text = NoText
                       /\ row.url \in Urls \cup {NoUrl}
  BY DEF Row
<1>2. Unused \in Row /\ Gone \in Row /\ Unused.at = "unused" /\ Gone.at = "gone"
  BY DEF Row, Unused, Gone, Vacant
<1>3. \A row \in Row : row.at = "unused" => row = Unused
  BY DEF Row, Unused, Vacant
<1>. QED  BY <1>1, <1>2, <1>3, DocFacts

(* A new row, one with another content, and one that goes to the trash or   *)
(* comes back.                                                              *)
Fresh(u) == [Vacant("live") EXCEPT !.url = u]
Written(row, content, text) == [[row EXCEPT !.content = content] EXCEPT !.text = text]
Moved(row, at) == [row EXCEPT !.at = at]

(* All of them are rows.                                                    *)
LEMMA FreshFacts ==
  ASSUME NEW u \in Urls
  PROVE  /\ Fresh(u) \in Row /\ Fresh(u).at = "live" /\ Fresh(u).text = NoText
         /\ Fresh(u).content = "none"
  BY DEF Fresh, Vacant, Row

(* See above.                                                               *)
LEMMA ChangedRowFacts ==
  ASSUME NEW row \in Row, row.at \in {"live", "trash"},
         NEW content \in {"none", "some", "failed"}, NEW text \in {NoText} \cup Texts,
         content # "some" => text = NoText, NEW at \in {"live", "trash"}
  PROVE  /\ Written(row, content, text) \in Row /\ Written(row, content, text).at = row.at
         /\ Written(row, content, text).text = text
         /\ Written(row, content, text).content = content
         /\ Moved(row, at) \in Row /\ Moved(row, at).at = at
         /\ Moved(row, at).text = row.text /\ Moved(row, at).content = row.content
<1>1. row \in [url : Urls, at : {"live", "trash"}, text : {NoText} \cup Texts,
               content : {"none", "some", "failed"}]
      /\ (row.content # "some" => row.text = NoText)
  BY DEF Row
<1>2. /\ Written(row, content, text) \in [url : Urls, at : {"live", "trash"},
             text : {NoText} \cup Texts, content : {"none", "some", "failed"}]
      /\ Written(row, content, text).at = row.at
      /\ Written(row, content, text).text = text
      /\ Written(row, content, text).content = content
  BY <1>1 DEF Written
<1>3. /\ Moved(row, at) \in [url : Urls, at : {"live", "trash"},
             text : {NoText} \cup Texts, content : {"none", "some", "failed"}]
      /\ Moved(row, at).at = at /\ Moved(row, at).text = row.text
      /\ Moved(row, at).content = row.content
  BY <1>1 DEF Moved
<1>4. \A x \in [url : Urls, at : {"live", "trash"}, text : {NoText} \cup Texts,
               content : {"none", "some", "failed"}] :
         (x.content # "some" => x.text = NoText) => x \in Row
  BY DEF Row
<1>. QED  BY <1>1, <1>2, <1>3, <1>4

(* Who is there.                                                            *)
LEMMA PresentFacts ==
  ASSUME TypeOK
  PROVE  /\ Present \subseteq Ids /\ Live \subseteq Present /\ Trash \subseteq Present
         /\ \A i \in Ids : /\ i \in Present <=> rows[i].at \in {"live", "trash"}
                           /\ i \in Live <=> rows[i].at = "live"
                           /\ rows[i] \in Row /\ rows[i].text \in Docs /\ rows[i].text # NoDoc
                           /\ Blank(i) => rows[i].text = NoText
                           /\ view[i] \in Docs /\ disk[i] \in Docs /\ fate[i] \in Fates
<1>1. \A i \in Ids : rows[i] \in Row /\ view[i] \in Docs /\ disk[i] \in Docs /\ fate[i] \in Fates
  BY DEF TypeOK
<1>2. \A i \in Ids : rows[i].text \in Docs /\ rows[i].text # NoDoc
                     /\ (Blank(i) => rows[i].text = NoText)
  BY <1>1, RowFacts DEF Blank
<1>3. /\ Present \subseteq Ids /\ Live \subseteq Present /\ Trash \subseteq Present
      /\ \A i \in Ids : /\ i \in Present <=> rows[i].at \in {"live", "trash"}
                        /\ i \in Live <=> rows[i].at = "live"
  BY DEF Present, Live, Trash
<1>. QED  BY <1>1, <1>2, <1>3

(* No request is a request, and has nothing in hand.                        *)
LEMMA IdleFacts ==
  /\ Idle \in Request /\ RequestFits(Idle)
  /\ Idle.at = "idle" /\ Idle.docs = NoDocs /\ Idle.unsent = {} /\ Idle.op = "none"
  BY DocFacts DEF Idle, Request, RequestFits, Imports

(* What every request has.                                                  *)
LEMMA RequestFacts ==
  ASSUME NEW q \in Request
  PROVE  /\ q.op \in AllOps \cup {"none"} /\ q.id \in Ids \cup {NoId}
         /\ q.file \in SUBSET Urls /\ q.docs \in [Ids -> Docs] /\ q.unsent \in SUBSET Ids
         /\ q.url \in Urls \cup {NoUrl}
  BY DEF Request

(* Where requests stop.                                                     *)
Stops == {"idle", "next", "conflict", "fill", "promote", "index", "send",
          "flush", "unindex", "commit", "reread", "reindex"}

(* A request that becomes another one.                                      *)
LEMMA MoveFacts ==
  ASSUME TypeOK, RequestsFit, NEW r \in Requests, NEW new \in Request, RequestFits(new),
         req' = [req EXCEPT ![r] = new]
  PROVE  /\ req' \in [Requests -> Request] /\ RequestsFit'
         /\ req'[r] = new /\ \A q \in Requests \ {r} : req'[q] = req[q]
<1>1. /\ req' \in [Requests -> Request] /\ req'[r] = new
      /\ \A q \in Requests \ {r} : req'[q] = req[q]
  BY DEF TypeOK
<1>2. \A q \in Requests : RequestFits(req'[q])
  BY <1>1 DEF RequestsFit
<1>. QED  BY <1>1, <1>2 DEF RequestsFit

(* A request that goes on with what it has.                                 *)
LEMMA GotoFacts ==
  ASSUME TypeOK, RequestsFit, NEW r \in Requests,
         NEW at \in Stops \ {"conflict", "fill", "index", "reindex"}, Goto(r, at),
         at \in {"promote", "send", "unindex", "commit", "reread"} => req[r].id \in Ids,
         at = "next" => req[r].op \in Imports,
         req[r].op = "export" => at \in {"next", "flush"},
         req[r].at \notin {"index", "reindex"}
  PROVE  /\ req' \in [Requests -> Request] /\ RequestsFit'
         /\ \A q \in Requests \ {r} : req'[q] = req[q]
         /\ req'[r].at = at /\ req'[r].op = req[r].op /\ req'[r].id = req[r].id
         /\ req'[r].docs = req[r].docs /\ req'[r].unsent = req[r].unsent
<1>1. req[r] \in Request /\ RequestFits(req[r])
  BY DEF TypeOK, RequestsFit
<1>. DEFINE new == [req[r] EXCEPT !.at = at]
<1>2. req' = [req EXCEPT ![r] = new]
  BY DEF Goto
<1>3. /\ new \in Request /\ new.at = at /\ new.op = req[r].op /\ new.id = req[r].id
      /\ new.docs = req[r].docs /\ new.unsent = req[r].unsent
  BY <1>1 DEF Request, Stops
<1>. HIDE DEF new
<1>4. RequestFits(new)
  BY <1>1, <1>3 DEF RequestFits, Stops
<1>. QED  BY <1>2, <1>3, <1>4, MoveFacts

(* A request that is over.                                                  *)
LEMMA FinishFacts ==
  ASSUME TypeOK, RequestsFit, NEW r \in Requests, Finish(r)
  PROVE  /\ req' \in [Requests -> Request] /\ RequestsFit'
         /\ \A q \in Requests \ {r} : req'[q] = req[q]
         /\ req'[r].at = "idle" /\ req'[r].docs = NoDocs /\ req'[r].unsent = {}
<1>1. req' = [req EXCEPT ![r] = Idle]
  BY DEF Finish
<1>. QED  BY <1>1, IdleFacts, MoveFacts

(* A request that is through with an entry: nothing it staged is lost.      *)
LEMMA ContinueFacts ==
  ASSUME TypeOK, RequestsFit, NEW r \in Requests, Continue(r),
         req[r].at \notin {"index", "reindex"}
  PROVE  /\ req' \in [Requests -> Request] /\ RequestsFit'
         /\ \A q \in Requests \ {r} : req'[q] = req[q]
         /\ req'[r].at \in {"idle", "next"}
         /\ req'[r].docs = req[r].docs /\ req'[r].unsent = req[r].unsent
<1>1. CASE req[r].op \in Imports
  <2>1. Goto(r, "next")
    BY <1>1 DEF Continue, Imports
  <2>. QED  BY <1>1, <2>1, GotoFacts DEF Stops
<1>2. CASE req[r].op \notin Imports
  <2>1. Finish(r) /\ req[r].op # "export"
    BY <1>2 DEF Continue, Imports
  <2>2. req[r].docs = NoDocs /\ req[r].unsent = {}
    BY <2>1 DEF RequestsFit, RequestFits
  <2>. QED  BY <2>1, <2>2, FinishFacts
<1>. QED  BY <1>1, <1>2

-----------------------------------------------------------------------------
(* No request comes to be about to unindex or to commit a purge.            *)
NoPurgeBegins ==
    \A q \in Requests : req'[q].at \in {"unindex", "commit"} =>
        req'[q].at = req[q].at /\ req'[q].id = req[q].id

(* Requests, the fetch and the rebuild as they are from here on.            *)
HandsType ==
    /\ req \in [Requests -> Request] /\ RequestsFit
    /\ fetch \in [at : {"idle", "fetching", "saved"}, id : Ids \cup {NoId}, doc : Docs]
    /\ FetchFits
    /\ rebuild \in [kind : {"none", "restore", "reindex"},
                    at : {"idle", "clear", "commit", "select", "index"},
                    todo : [Ids -> Docs]]

(* It is part of the invariant.                                             *)
LEMMA HandsFacts == LibraryInv => HandsType
  BY DEF LibraryInv, TypeOK, HandsType

(* Nothing changes but what requests, the fetch and the rebuild are about   *)
(* to do. An entry that is given up is cut off or hidden.                   *)
LEMMA MovesKeepInv ==
  ASSUME LibraryInv, UNCHANGED <<rows, index, queue, events>>, texts' \in 0..MaxTexts,
         HandsType', NoPurgeBegins, fate' \in [Ids -> Fates],
         \A i \in Ids : \/ fate'[i] = fate[i]
                        \/ i \in Present /\ fate'[i] = "cut" /\ Blank(i)
                        \/ i \in Live /\ fate'[i] = "hidden" /\ Missing(i),
         \A i \in Live : Missing(i) /\ BeingIndexed(i) => BeingIndexed(i)' \/ fate'[i] = "hidden",
         \A i \in Ids : Blank(i) /\ WillBeFetched(i) => WillBeFetched(i)' \/ fate'[i] = "cut"
  PROVE  LibraryInv'
<1>. USE DEF LibraryInv, index
<1>1. TypeOK'
  BY DEF TypeOK, HandsType
<1>2. /\ Present' = Present /\ Live' = Live
      /\ \A i \in Ids : Blank(i)' <=> Blank(i)
  BY DEF Present, Live, Trash, Blank
<1>3. PurgeInv'
  BY <1>2 DEF PurgeInv, NoPurgeBegins, HandsType, RequestsFit, RequestFits
<1>4. TextIsIndexed'
  <2> SUFFICES ASSUME NEW i \in Findable', view[i] # rows[i].text PROVE BeingIndexed(i)'
    BY DEF TextIsIndexed
  <2>1. i \in Live /\ rows[i].text # NoText /\ fate'[i] # "hidden" /\ i \in Ids
    BY <1>2 DEF Findable, Live
  <2>2. Missing(i) /\ ~Blank(i)
    BY <2>1, PresentFacts DEF Missing
  <2>3. i \in Findable
    BY <2>1, <2>2 DEF Findable
  <2>. QED  BY <2>1, <2>2, <2>3 DEF TextIsIndexed
<1>5. FetchInv'
  <2> SUFFICES ASSUME NEW i \in Ids, Blank(i), fate'[i] # "cut" PROVE WillBeFetched(i)'
    BY <1>2 DEF FetchInv
  <2>1. rows[i].text = NoText
    BY PresentFacts
  <2>2. fate[i] # "cut"
    BY <2>1 DEF Missing
  <2>. QED  BY <2>2 DEF FetchInv
<1>6. FetchFits' /\ RequestsFit'
  BY DEF HandsType
<1>. QED  BY <1>1, <1>3, <1>4, <1>5, <1>6

(* An upsert, by whomever: who has the text of the row in hand, and is not  *)
(* through with it, goes on; nobody gives up an entry to fetch.             *)
LEMMA UpsertKeepsInv ==
  ASSUME LibraryInv, NEW i \in Ids, NEW doc \in Docs, Upsert(i, doc),
         UNCHANGED <<table, disk, queue, events>>, HandsType', NoPurgeBegins,
         \A j \in Ids \ {i} : BeingIndexed(j) => BeingIndexed(j)',
         doc # rows[i].text /\ BeingIndexed(i) => BeingIndexed(i)',
         \A j \in Ids : WillBeFetched(j) => WillBeFetched(j)'
  PROVE  LibraryInv'
<1>. USE DEF LibraryInv, table
<1>1. /\ Present' = Present /\ Live' = Live
      /\ view' \in [Ids -> Docs] /\ view'[i] = doc /\ \A j \in Ids \ {i} : view'[j] = view[j]
      /\ \A j \in Ids \ {i} : fate'[j] = fate[j]
      /\ i \notin Present => fate'[i] = "ghost"
      /\ i \in Present => \/ Overtaken(i, doc) /\ fate'[i] = "hidden"
                          \/ ~Overtaken(i, doc) /\ fate[i] = "hidden" /\ fate'[i] = "well"
                             /\ doc = rows[i].text
                          \/ ~Overtaken(i, doc) /\ fate'[i] = fate[i]
      /\ fate' \in [Ids -> Fates]
      /\ \A j \in Ids : Blank(j)' <=> Blank(j)
  BY DEF Present, Live, Trash, Blank, Upsert, TypeOK, Fates
<1>2. TypeOK'
  BY <1>1 DEF TypeOK, HandsType
<1>3. PurgeInv'
  <2>1. \A j \in Ids : fate'[j] = "purged" => j # i /\ fate[j] = "purged"
    BY <1>1, PresentFacts DEF PurgeInv
  <2>2. \A q \in Requests : req'[q].at = "commit" /\ req[q].id \notin Present
                            /\ fate'[req[q].id] = "well"
           => req[q].id # i /\ fate[req[q].id] = "well" /\ view[req[q].id] = NoDoc
    BY <1>1 DEF PurgeInv, NoPurgeBegins, RequestsFit, RequestFits
  <2>3. \A q \in Requests : req'[q].at \in {"unindex", "commit"} =>
             req[q].id \in Ids /\ req'[q].id = req[q].id /\ rows[req[q].id].at # "unused"
    BY DEF PurgeInv, NoPurgeBegins, RequestsFit, RequestFits
  <2>. QED  BY <1>1, <2>1, <2>2, <2>3 DEF PurgeInv, NoPurgeBegins
<1>4. TextIsIndexed'
  <2> SUFFICES ASSUME NEW j \in Findable', view'[j] # rows[j].text PROVE BeingIndexed(j)'
    BY DEF TextIsIndexed
  <2>1. j \in Live /\ rows[j].text # NoText /\ fate'[j] # "hidden" /\ j \in Ids /\ j \in Present
    BY <1>1 DEF Findable, Live, Present
  <2>2. CASE j = i
    <3>1. doc # rows[i].text /\ ~Overtaken(i, doc) /\ fate[i] # "hidden"
      BY <1>1, <2>1, <2>2
    <3>2. i \in Findable /\ view[i] # rows[i].text
      BY <2>1, <2>2, <3>1 DEF Findable, Overtaken
    <3>. QED  BY <2>2, <3>1, <3>2 DEF TextIsIndexed
  <2>3. CASE j # i
    <3>1. j \in Findable /\ view[j] # rows[j].text
      BY <1>1, <2>1, <2>3 DEF Findable
    <3>. QED  BY <2>1, <2>3, <3>1 DEF TextIsIndexed
  <2>. QED  BY <2>2, <2>3
<1>5. FetchInv'
  <2> SUFFICES ASSUME NEW j \in Ids, Blank(j), fate'[j] # "cut" PROVE WillBeFetched(j)'
    BY <1>1 DEF FetchInv
  <2>1. rows[j].text = NoText
    BY PresentFacts
  <2>2. j \in Present
    BY DEF Blank
  <2>3. fate[j] # "cut"
    BY <1>1, <2>1, <2>2 DEF Overtaken
  <2>. QED  BY <2>3 DEF FetchInv
<1>6. FetchFits' /\ RequestsFit'
  BY DEF HandsType
<1>. QED  BY <1>2, <1>3, <1>4, <1>5, <1>6

(* A job is queued, by whomever.                                            *)
LEMMA QueueKeepsInv ==
  ASSUME LibraryInv, NEW i \in Ids, Queue(i), UNCHANGED <<table, index, fetch, rebuild, events>>,
         HandsType', NoPurgeBegins,
         \A j \in Live : BeingIndexed(j) => BeingIndexed(j)',
         \A j \in Ids \ {i} : WillBeFetched(j) => WillBeFetched(j)'
  PROVE  LibraryInv'
<1>. USE DEF LibraryInv, index, table
<1>1. /\ Present' = Present /\ Live' = Live
      /\ queue' \subseteq Ids /\ queue \subseteq queue'
      /\ i \in Present => i \in queue'
      /\ \A j \in Ids : fate'[j] = fate[j]
                        \/ (j = i /\ i \in Present /\ fate[i] = "cut" /\ fate'[i] = "well")
      /\ fate' \in [Ids -> Fates]
      /\ \A j \in Ids : Blank(j)' <=> Blank(j)
  BY DEF Present, Live, Trash, Blank, Queue, TypeOK, Fates
<1>2. TypeOK'
  BY <1>1 DEF TypeOK, HandsType
<1>3. PurgeInv'
  BY <1>1 DEF PurgeInv, NoPurgeBegins, RequestsFit, RequestFits
<1>4. TextIsIndexed'
  <2> SUFFICES ASSUME NEW j \in Findable', view[j] # rows[j].text PROVE BeingIndexed(j)'
    BY DEF TextIsIndexed
  <2>1. j \in Findable /\ j \in Live
    BY <1>1 DEF Findable, Live
  <2>. QED  BY <2>1 DEF TextIsIndexed
<1>5. FetchInv'
  <2> SUFFICES ASSUME NEW j \in Ids, Blank(j), fate'[j] # "cut" PROVE WillBeFetched(j)'
    BY <1>1 DEF FetchInv
  <2>1. j \in Present
    BY DEF Blank
  <2>2. CASE j = i
    <3>1. j \in queue'
      BY <1>1, <2>1, <2>2
    <3>. QED  BY <3>1 DEF WillBeFetched
  <2>3. CASE j # i
    BY <1>1, <2>3 DEF FetchInv
  <2>. QED  BY <2>2, <2>3
<1>6. FetchFits' /\ RequestsFit'
  BY DEF HandsType
<1>. QED  BY <1>2, <1>3, <1>4, <1>5, <1>6

(* What a statement that writes content does to the rows and the history.   *)
LEMMA WriteContentFacts ==
  ASSUME TypeOK, NEW i \in Ids, NEW content \in {"none", "some", "failed"},
         NEW text \in {NoText} \cup Texts, content # "some" => text = NoText,
         NEW f \in {"well", "hidden"}, WriteContent(i, content, text, f)
  PROVE  /\ rows' \in [Ids -> Row] /\ fate' \in [Ids -> Fates]
         /\ \A j \in Ids : rows'[j].at = rows[j].at
         /\ \A j \in Ids \ {i} : rows'[j] = rows[j] /\ fate'[j] = fate[j]
         /\ i \in Present => rows'[i].text = text /\ rows'[i].content = content /\ fate'[i] = f
         /\ i \notin Present => rows'[i] = rows[i] /\ fate'[i] = fate[i]
         /\ Present' = Present /\ Live' = Live
<1>1. CASE i \in Present
  <2>1. /\ rows' = [rows EXCEPT ![i].content = content, ![i].text = text]
        /\ fate' = [fate EXCEPT ![i] = f]
    BY <1>1 DEF WriteContent
  <2>2. rows[i] \in Row /\ rows[i].at \in {"live", "trash"}
    BY <1>1, PresentFacts
  <2>. DEFINE new == Written(rows[i], content, text)
  <2>3. new \in Row /\ new.at = rows[i].at /\ new.text = text /\ new.content = content
    BY <2>2, ChangedRowFacts
  <2>4. rows' = [rows EXCEPT ![i] = new]
    BY <2>1 DEF TypeOK, Written
  <2>. HIDE DEF new
  <2>5. rows' \in [Ids -> Row] /\ rows'[i] = new /\ \A j \in Ids \ {i} : rows'[j] = rows[j]
    BY <2>3, <2>4 DEF TypeOK
  <2>6. fate' \in [Ids -> Fates] /\ fate'[i] = f /\ \A j \in Ids \ {i} : fate'[j] = fate[j]
    BY <2>1 DEF TypeOK, Fates
  <2>. QED  BY <1>1, <2>3, <2>5, <2>6 DEF Present, Live, Trash
<1>2. CASE i \notin Present
  BY <1>2 DEF WriteContent, TypeOK, Present, Live, Trash
<1>. QED  BY <1>1, <1>2

(* Content is written, by whomever: its text, if any, is indexed next, or   *)
(* was and then counts as hidden; an entry that stays without content is    *)
(* about to be fetched.                                                     *)
LEMMA WriteContentKeepsInv ==
  ASSUME LibraryInv, NEW i \in Ids, NEW content \in {"none", "some", "failed"},
         NEW text \in {NoText} \cup Texts, content # "some" => text = NoText,
         NEW f \in {"well", "hidden"}, WriteContent(i, content, text, f),
         UNCHANGED <<index, queue, rebuild, events>>, texts' \in 0..MaxTexts,
         HandsType', NoPurgeBegins,
         \A j \in Ids \ {i} : rows'[j] = rows[j] /\ BeingIndexed(j) => BeingIndexed(j)',
         rows'[i].text = text /\ text # NoText => f = "hidden" \/ BeingIndexed(i)',
         \A j \in Ids \ {i} : WillBeFetched(j) => WillBeFetched(j)',
         content = "none" => WillBeFetched(i)'
  PROVE  LibraryInv'
<1>. USE DEF LibraryInv, index
<1>1. /\ rows' \in [Ids -> Row] /\ fate' \in [Ids -> Fates]
      /\ \A j \in Ids : rows'[j].at = rows[j].at
      /\ \A j \in Ids \ {i} : rows'[j] = rows[j] /\ fate'[j] = fate[j]
      /\ i \in Present => rows'[i].text = text /\ rows'[i].content = content /\ fate'[i] = f
      /\ i \notin Present => rows'[i] = rows[i] /\ fate'[i] = fate[i]
      /\ Present' = Present /\ Live' = Live
  BY WriteContentFacts
<1>2. TypeOK'
  BY <1>1 DEF TypeOK, HandsType
<1>3. PurgeInv'
  <2>1. \A j \in Ids : fate'[j] = "purged" => fate[j] = "purged"
    BY <1>1
  <2>2. \A j \in Ids \ Present : fate'[j] = fate[j]
    BY <1>1
  <2>. QED  BY <1>1, <2>1, <2>2 DEF PurgeInv, NoPurgeBegins, RequestsFit, RequestFits
<1>4. TextIsIndexed'
  <2> SUFFICES ASSUME NEW j \in Findable', view[j] # rows'[j].text PROVE BeingIndexed(j)'
    BY DEF TextIsIndexed
  <2>1. j \in Live /\ j \in Ids /\ j \in Present /\ rows'[j].text # NoText /\ fate'[j] # "hidden"
    BY <1>1 DEF Findable, Live, Present
  <2>2. CASE j = i
    BY <1>1, <2>1, <2>2
  <2>3. CASE j # i
    <3>1. j \in Findable /\ rows'[j] = rows[j]
      BY <1>1, <2>1, <2>3 DEF Findable
    <3>. QED  BY <2>1, <2>3, <3>1 DEF TextIsIndexed
  <2>. QED  BY <2>2, <2>3
<1>5. FetchInv'
  <2> SUFFICES ASSUME NEW j \in Ids, Blank(j)', fate'[j] # "cut" PROVE WillBeFetched(j)'
    BY DEF FetchInv
  <2>1. j \in Present /\ rows'[j].content = "none"
    BY <1>1 DEF Blank
  <2>2. CASE j = i
    BY <1>1, <2>1, <2>2
  <2>3. CASE j # i
    BY <1>1, <2>1, <2>3 DEF FetchInv, Blank
  <2>. QED  BY <2>2, <2>3
<1>6. FetchFits' /\ RequestsFit'
  BY DEF HandsType
<1>. QED  BY <1>2, <1>3, <1>4, <1>5, <1>6

(* Entries go to the trash, or come back and are read to be indexed: who    *)
(* exists, and what they have, stays the same.                              *)
LEMMA TrashKeepsInv ==
  ASSUME LibraryInv, rows' \in [Ids -> Row], Present' = Present,
         UNCHANGED <<texts, index, queue, fetch, rebuild, events, fate>>, HandsType',
         \A j \in Ids : rows'[j].text = rows[j].text /\ rows'[j].content = rows[j].content
                        /\ (j \notin Present => rows'[j] = rows[j]),
         \A j \in Live' \ Live : BeingIndexed(j)',
         \A j \in Ids : BeingIndexed(j) => BeingIndexed(j)',
         \A j \in Ids : WillBeFetched(j) => WillBeFetched(j)',
         \A q \in Requests : req'[q].at = "commit" => req'[q] = req[q],
         \A q \in Requests : req'[q].at = "unindex" => req'[q] = req[q] \/ req'[q].id \in Present
  PROVE  LibraryInv'
<1>. USE DEF LibraryInv, index
<1>1. TypeOK' /\ FetchFits' /\ RequestsFit'
  BY DEF TypeOK, HandsType
<1>2. PurgeInv'
  <2>1. \A j \in Ids : fate[j] = "purged" => j \notin Present
    BY DEF PurgeInv, Present, Live, Trash
  <2>2. \A j \in Ids : rows'[j].at = "unused" => rows[j].at = "unused" /\ j \notin Present
    BY DEF Present, Live, Trash
  <2>3. \A q \in Requests : req'[q].at \in {"unindex", "commit"} => req'[q].id \in Ids
    BY DEF HandsType, RequestsFit, RequestFits
  <2>4. \A q \in Requests : req'[q].at \in {"unindex", "commit"} =>
            rows[req'[q].id].at # "unused"
    BY DEF PurgeInv, Present, Live, Trash
  <2>. QED  BY <2>1, <2>2, <2>3, <2>4 DEF PurgeInv
<1>3. TextIsIndexed'
  <2> SUFFICES ASSUME NEW j \in Findable', view[j] # rows'[j].text PROVE BeingIndexed(j)'
    BY DEF TextIsIndexed
  <2>1. j \in Ids /\ j \in Live' /\ rows[j].text # NoText /\ fate[j] # "hidden"
    BY DEF Findable, Live
  <2>2. j \in Live => j \in Findable
    BY <2>1 DEF Findable
  <2>. QED  BY <2>1, <2>2 DEF TextIsIndexed
<1>4. FetchInv'
  <2> SUFFICES ASSUME NEW j \in Ids, Blank(j)', fate[j] # "cut" PROVE WillBeFetched(j)'
    BY DEF FetchInv
  <2>1. Blank(j)
    BY DEF Blank
  <2>. QED  BY <2>1 DEF FetchInv
<1>. QED  BY <1>1, <1>2, <1>3, <1>4

(* What commits change: the disk, and whose purge is over.                  *)
LEMMA CommitsKeepInv ==
  ASSUME LibraryInv, UNCHANGED <<table, view, queue, fetch, events>>,
         \A j \in Ids : disk'[j] \in {disk[j], view[j]}, disk' \in [Ids -> Docs],
         HandsType', NoPurgeBegins, fate' \in [Ids -> Fates],
         \A j \in Ids : fate'[j] = fate[j]
             \/ /\ fate[j] = "well" /\ fate'[j] = "purged"
                /\ disk'[j] = NoDoc /\ view[j] = NoDoc /\ rows[j].at = "gone",
         \A j \in Live : BeingIndexed(j) => BeingIndexed(j)',
         \A j \in Ids : WillBeFetched(j) => WillBeFetched(j)'
  PROVE  LibraryInv'
<1>. USE DEF LibraryInv, table
<1>1. TypeOK' /\ FetchFits' /\ RequestsFit'
  BY DEF TypeOK, HandsType
<1>2. Present' = Present /\ Live' = Live /\ \A i \in Ids : Blank(i)' <=> Blank(i)
  BY DEF Present, Live, Trash, Blank
<1>3. PurgeInv'
  <2>1. \A q \in Requests : req'[q].at \in {"unindex", "commit"} => req'[q].id \in Ids
    BY DEF HandsType, RequestsFit, RequestFits
  <2>2. \A j \in Ids : fate'[j] = "purged" =>
            view[j] = NoDoc /\ disk'[j] = NoDoc /\ rows[j].at = "gone"
    BY DEF PurgeInv
  <2>. QED  BY <1>2, <2>1, <2>2 DEF PurgeInv, NoPurgeBegins
<1>4. TextIsIndexed'
  <2> SUFFICES ASSUME NEW j \in Findable', view[j] # rows[j].text PROVE BeingIndexed(j)'
    BY DEF TextIsIndexed
  <2>1. j \in Live /\ j \in Ids /\ rows[j].at = "live"
    BY <1>2 DEF Findable, Live
  <2>2. j \in Findable
    BY <2>1 DEF Findable
  <2>. QED  BY <2>1, <2>2 DEF TextIsIndexed
<1>5. FetchInv'
  <2> SUFFICES ASSUME NEW j \in Ids, Blank(j), fate'[j] # "cut" PROVE WillBeFetched(j)'
    BY <1>2 DEF FetchInv
  <2>1. fate[j] # "cut"
    OBVIOUS
  <2>. QED  BY <2>1 DEF FetchInv
<1>. QED  BY <1>1, <1>3, <1>4, <1>5

-----------------------------------------------------------------------------
(* One request moves, the others stay: so do those who are to index or to   *)
(* fetch, if that one is still among them.                                  *)
IndexedBy(r, i) ==
    (req[r].id = i /\ req[r].at = "reread") \/ req[r].docs[i] = rows[i].text

(* See above.                                                               *)
LEMMA OneMoves ==
  ASSUME NEW r \in Requests, \A q \in Requests \ {r} : req'[q] = req[q],
         UNCHANGED <<fetch, rebuild>>, queue \subseteq queue'
  PROVE  /\ \A i \in Ids : /\ rows'[i] = rows[i] /\ BeingIndexed(i)
                            /\ (IndexedBy(r, i) => IndexedBy(r, i)')
                            => BeingIndexed(i)'
         /\ \A i \in Ids : WillBeFetched(i) /\ (i \in ToFetch(r) => i \in ToFetch(r)')
                              => WillBeFetched(i)'
<1>1. ASSUME NEW i \in Ids, rows'[i] = rows[i], BeingIndexed(i),
             IndexedBy(r, i) => IndexedBy(r, i)'
      PROVE  BeingIndexed(i)'
  BY <1>1 DEF BeingIndexed, IndexedBy
<1>2. \A q \in Requests \ {r} : ToFetch(q)' = ToFetch(q)
  BY DEF ToFetch
<1>3. ASSUME NEW i \in Ids, WillBeFetched(i), i \in ToFetch(r) => i \in ToFetch(r)'
      PROVE  WillBeFetched(i)'
  <2>1. CASE i \in queue \/ (fetch.at = "fetching" /\ fetch.id = i)
    BY <2>1 DEF WillBeFetched
  <2>2. CASE \E q \in Requests : i \in ToFetch(q)
    <3>1. PICK q \in Requests : i \in ToFetch(q)
      BY <2>2
    <3>2. i \in ToFetch(q)'
      BY <1>2, <1>3, <3>1
    <3>. QED  BY <3>2 DEF WillBeFetched
  <2>. QED  BY <1>3, <2>1, <2>2 DEF WillBeFetched
<1>. QED  BY <1>1, <1>3

(* What a request can be about to index and to fetch.                       *)
LEMMA InHand ==
  ASSUME TypeOK, NEW r \in Requests, NEW i \in Ids
  PROVE  /\ req[r].docs = NoDocs /\ req[r].at # "reread" => ~IndexedBy(r, i)
         /\ req[r].unsent = {} /\ req[r].at \notin {"fill", "send", "promote", "index"}
               => i \notin ToFetch(r)
         /\ i \in ToFetch(r) => i \in req[r].unsent \/ i = req[r].id
<1>1. rows[i].text # NoDoc /\ NoDocs[i] = NoDoc
  BY PresentFacts, DocFacts
<1>. QED  BY <1>1 DEF IndexedBy, ToFetch

(* A request goes on and changes nothing but itself. What it was to index   *)
(* or to have fetched it still is, or the entry has no need of that.        *)
LEMMA PlainMove ==
  ASSUME LibraryInv, NEW r \in Requests,
         UNCHANGED <<table, index, queue, fetch, rebuild, events, fate>>,
         req' \in [Requests -> Request], RequestsFit',
         \A q \in Requests \ {r} : req'[q] = req[q],
         req'[r].at \notin {"unindex", "commit"},
         \A i \in Live : IndexedBy(r, i) => IndexedBy(r, i)',
         \A i \in Ids : Blank(i) /\ i \in ToFetch(r) => i \in ToFetch(r)'
  PROVE  LibraryInv'
<1>1. TypeOK /\ HandsType /\ Live \subseteq Ids
  BY HandsFacts, PresentFacts DEF LibraryInv
<1>2. HandsType' /\ NoPurgeBegins
  BY <1>1 DEF HandsType, FetchFits, NoPurgeBegins
<1>3. \A i \in Live : BeingIndexed(i) => BeingIndexed(i)'
  BY <1>1, OneMoves DEF table
<1>4. \A i \in Ids : Blank(i) /\ WillBeFetched(i) => WillBeFetched(i)'
  BY OneMoves DEF table
<1>5. texts' \in 0..MaxTexts /\ fate' \in [Ids -> Fates]
  BY <1>1 DEF TypeOK, table
<1>6. UNCHANGED <<rows, index, queue, events>> /\ fate' = fate
  BY DEF table
<1>. QED  BY <1>2, <1>3, <1>4, <1>5, <1>6, MovesKeepInv

(* A request that is opened or closed, with nothing in hand.                *)
LEMMA OpenOrClose ==
  ASSUME LibraryInv, NEW r \in Requests, NEW new \in Request, RequestFits(new),
         UNCHANGED <<table, index, queue, fetch, rebuild, events, fate>>,
         req' = [req EXCEPT ![r] = new], new.at \notin {"unindex", "commit"},
         req[r].docs = NoDocs, req[r].unsent = {},
         req[r].at \notin {"fill", "send", "promote", "index", "reread"}
  PROVE  LibraryInv'
<1>1. TypeOK /\ RequestsFit
  BY DEF LibraryInv
<1>2. /\ req' \in [Requests -> Request] /\ RequestsFit'
      /\ req'[r] = new /\ \A q \in Requests \ {r} : req'[q] = req[q]
  BY <1>1, MoveFacts
<1>3. \A i \in Ids : ~IndexedBy(r, i) /\ i \notin ToFetch(r)
  BY <1>1, InHand
<1>4. Live \subseteq Ids
  BY <1>1, PresentFacts
<1>. QED  BY <1>2, <1>3, <1>4, PlainMove

(* OpenFile, ImportDone, RefetchEntry.                                      *)
LEMMA PlainMoves ==
  ASSUME LibraryInv, NEW r \in Requests, OpenFile(r) \/ ImportDone(r) \/ RefetchEntry(r)
  PROVE  LibraryInv'
<1>0. TypeOK /\ RequestsFit /\ RequestFits(req[r]) /\ req[r] \in Request
  BY DEF LibraryInv, RequestsFit, TypeOK
<1>1. CASE OpenFile(r)
  <2>1. PICK op \in {"wallabag", "bookmarks", "export"} :
            req' = [req EXCEPT ![r] = [Idle EXCEPT !.op = op, !.at = "next", !.file = Urls]]
    BY <1>1 DEF OpenFile
  <2> DEFINE new == [Idle EXCEPT !.op = op, !.at = "next", !.file = Urls]
  <2>2. /\ new \in Request /\ new.at = "next" /\ new.op = op
        /\ new.docs = NoDocs /\ new.unsent = {}
    BY DocFacts DEF Request, Idle, AllOps
  <2>3. UNCHANGED <<table, index, queue, fetch, rebuild, events, fate>> /\ req[r] = Idle
    BY <1>1 DEF OpenFile
  <2>4. req' = [req EXCEPT ![r] = new]
    BY <2>1
  <2>. HIDE DEF new
  <2>5. RequestFits(new)
    BY <2>2, DocFacts DEF RequestFits, Imports
  <2>. QED  BY <2>2, <2>3, <2>4, <2>5, IdleFacts, OpenOrClose
<1>2. CASE ImportDone(r)
  <2>1. /\ req[r].at = "next" /\ UNCHANGED <<table, index, queue, fetch, rebuild, events, fate>>
        /\ IF req[r].op = "export" THEN Goto(r, "flush") ELSE Finish(r)
    BY <1>2 DEF ImportDone
  <2>2. CASE req[r].op = "export"
    <3>1. Goto(r, "flush") /\ "flush" \in Stops \ {"conflict", "fill", "index", "reindex"}
      BY <2>1, <2>2 DEF Stops
    <3>2. /\ req' \in [Requests -> Request] /\ RequestsFit'
          /\ \A q \in Requests \ {r} : req'[q] = req[q]
          /\ req'[r].at = "flush" /\ req'[r].op = req[r].op /\ req'[r].id = req[r].id
          /\ req'[r].docs = req[r].docs /\ req'[r].unsent = req[r].unsent
      BY <1>0, <2>1, <2>2, <3>1, GotoFacts
    <3>3. \A i \in Live : IndexedBy(r, i) => IndexedBy(r, i)'
      BY <2>1, <3>2 DEF IndexedBy, table
    <3>4. \A i \in Ids : i \in ToFetch(r) => i \in ToFetch(r)'
      BY <2>1, <3>2 DEF ToFetch
    <3>. QED  BY <2>1, <3>2, <3>3, <3>4, PlainMove
  <2>3. CASE req[r].op # "export"
    <3>1. req[r].docs = NoDocs /\ req[r].unsent = {} /\ req' = [req EXCEPT ![r] = Idle]
      BY <1>0, <2>1, <2>3 DEF RequestFits, Finish
    <3>. QED  BY <2>1, <3>1, IdleFacts, OpenOrClose
  <2>. QED  BY <2>2, <2>3
<1>3. CASE RefetchEntry(r)
  <2>1. PICK i \in Live : req' = [req EXCEPT ![r] = [Idle EXCEPT !.op = "refetch",
                                                      !.at = "send", !.id = i]]
    BY <1>3 DEF RefetchEntry
  <2> DEFINE new == [Idle EXCEPT !.op = "refetch", !.at = "send", !.id = i]
  <2>2. /\ new \in Request /\ new.at = "send" /\ new.id = i /\ new.op = "refetch"
        /\ new.docs = NoDocs /\ new.unsent = {} /\ i \in Ids
    BY DocFacts DEF Request, Idle, AllOps, Live
  <2>3. UNCHANGED <<table, index, queue, fetch, rebuild, events, fate>> /\ req[r] = Idle
    BY <1>3 DEF RefetchEntry
  <2>4. req' = [req EXCEPT ![r] = new]
    BY <2>1
  <2>. HIDE DEF new
  <2>5. RequestFits(new)
    BY <2>2, DocFacts DEF RequestFits, Imports
  <2>. QED  BY <2>2, <2>3, <2>4, <2>5, IdleFacts, OpenOrClose
<1>. QED  BY <1>1, <1>2, <1>3

(* SetPromoted: a link that is still there is sent next.                    *)
LEMMA SetPromotedKeepsInv ==
  ASSUME LibraryInv, NEW r \in Requests, SetPromoted(r)
  PROVE  LibraryInv'
<1>0. TypeOK /\ RequestsFit /\ RequestFits(req[r]) /\ req[r] \in Request
  BY DEF LibraryInv, RequestsFit, TypeOK
<1>1. /\ req[r].at = "promote" /\ UNCHANGED <<table, index, queue, fetch, rebuild, events, fate>>
      /\ IF req[r].id \in Present /\ req[r].op = "link" THEN Goto(r, "send") ELSE Finish(r)
  BY DEF SetPromoted
<1>2. req[r].op # "export" /\ req[r].id \in Ids /\ req[r].docs = NoDocs /\ req[r].unsent = {}
  BY <1>0, <1>1 DEF RequestFits
<1>3. Live \subseteq Ids /\ \A i \in Ids : ~IndexedBy(r, i)
  BY <1>0, <1>1, <1>2, InHand, PresentFacts
<1>4. CASE req[r].id \in Present /\ req[r].op = "link"
  <2>1. Goto(r, "send") /\ "send" \in Stops \ {"conflict", "fill", "index", "reindex"}
    BY <1>1, <1>4 DEF Stops
  <2>2. /\ req' \in [Requests -> Request] /\ RequestsFit'
        /\ \A q \in Requests \ {r} : req'[q] = req[q]
        /\ req'[r].at = "send" /\ req'[r].op = req[r].op /\ req'[r].id = req[r].id
        /\ req'[r].docs = req[r].docs /\ req'[r].unsent = req[r].unsent
    BY <1>0, <1>1, <1>2, <2>1, GotoFacts
  <2>3. \A i \in Ids : i \in ToFetch(r) => i \in ToFetch(r)'
    BY <1>1, <1>2, <1>4, <2>2 DEF ToFetch
  <2>. QED  BY <1>1, <1>3, <2>2, <2>3, PlainMove
<1>5. CASE ~(req[r].id \in Present /\ req[r].op = "link")
  <2>1. \A i \in Ids : Blank(i) => i \notin ToFetch(r)
    BY <1>1, <1>2, <1>5 DEF ToFetch, Blank
  <2>2. Finish(r)
    BY <1>1, <1>5
  <2>3. /\ req' \in [Requests -> Request] /\ RequestsFit'
        /\ \A q \in Requests \ {r} : req'[q] = req[q]
        /\ req'[r].at = "idle"
    BY <1>0, <2>2, FinishFacts
  <2>. QED  BY <1>1, <1>3, <2>1, <2>3, PlainMove
<1>. QED  BY <1>4, <1>5

(* RereadEntry: the text is in hand next, if the entry is live.             *)
LEMMA RereadKeepsInv ==
  ASSUME LibraryInv, NEW r \in Requests, RereadEntry(r)
  PROVE  LibraryInv'
<1>0. TypeOK /\ RequestsFit /\ RequestFits(req[r]) /\ req[r] \in Request
  BY DEF LibraryInv, RequestsFit, TypeOK
<1>1. /\ req[r].at = "reread" /\ UNCHANGED <<table, index, queue, fetch, rebuild, events, fate>>
      /\ UNCHANGED rows
  BY DEF RereadEntry, table
<1>2. /\ req[r].op # "export" /\ req[r].docs = NoDocs /\ req[r].unsent = {}
      /\ req[r].docs \in [Ids -> Docs]
  BY <1>0, <1>1, DocFacts DEF RequestFits
<1>a. PICK i \in Ids : i = req[r].id
  BY <1>0, <1>1 DEF RequestFits
<1>3. \A j \in Ids : j \notin ToFetch(r)
  BY <1>0, <1>1, <1>2, InHand
<1>b. Live \subseteq Ids /\ rows[i].text \in Docs /\ \A j \in Ids : rows[j].text # NoDoc
  BY <1>0, PresentFacts
<1>c. \A j \in Ids : IndexedBy(r, j) => j = i
  BY <1>2, <1>a, <1>b, DocFacts DEF IndexedBy
<1>4. CASE i \in Live
  <2>. DEFINE new == [req[r] EXCEPT !.at = "reindex", !.docs[i] = rows[i].text]
  <2>2. req' = [req EXCEPT ![r] = new]
    BY <1>a, <1>4 DEF RereadEntry
  <2>3. /\ new \in Request /\ new.at = "reindex" /\ new.id = i /\ new.op = req[r].op
        /\ new.unsent = {} /\ new.docs[i] = rows[i].text
        /\ \A j \in Ids \ {i} : new.docs[j] = NoDoc
    BY <1>0, <1>2, <1>a, <1>b, DocFacts DEF Request
  <2>. HIDE DEF new
  <2>4. RequestFits(new)
    BY <1>2, <2>3 DEF RequestFits
  <2>5. /\ req' \in [Requests -> Request] /\ RequestsFit'
        /\ req'[r] = new /\ \A q \in Requests \ {r} : req'[q] = req[q]
    BY <1>0, <2>2, <2>3, <2>4, MoveFacts
  <2>6. \A j \in Live : IndexedBy(r, j) => IndexedBy(r, j)'
    BY <1>1, <1>b, <1>c, <2>3, <2>5 DEF IndexedBy
  <2>. QED  BY <1>1, <1>3, <2>3, <2>5, <2>6, PlainMove
<1>5. CASE i \notin Live
  <2>1. Finish(r)
    BY <1>a, <1>5 DEF RereadEntry
  <2>2. /\ req' \in [Requests -> Request] /\ RequestsFit'
        /\ \A q \in Requests \ {r} : req'[q] = req[q]
        /\ req'[r].at = "idle"
    BY <1>0, <2>1, FinishFacts
  <2>3. \A j \in Live : ~IndexedBy(r, j)
    BY <1>5, <1>b, <1>c
  <2>. QED  BY <1>1, <1>3, <2>2, <2>3, PlainMove
<1>. QED  BY <1>4, <1>5

-----------------------------------------------------------------------------
(* SaveUrl, PromoteMemo, ImportNext: what was inserted will be fetched.     *)
LEMMA InsertEntryKeepsInv ==
  ASSUME LibraryInv, NEW r \in Requests, NEW q \in Request, InsertEntry(r, q),
         q.url \in Urls, q.op \in Imports \cup {"save", "link", "note"},
         req[r].at \in {"idle", "next"},
         q.docs = req[r].docs, q.unsent = req[r].unsent,
         q.op # "export" => q.docs = NoDocs /\ q.unsent = {}
  PROVE  LibraryInv'
<1>0. TypeOK /\ RequestsFit /\ HandsType
  BY HandsFacts DEF LibraryInv
<1>a. UNCHANGED <<index, queue, fetch, rebuild, events, fate>> /\ UNCHANGED <<view, disk>>
  BY DEF InsertEntry, index
<1>1. CASE req' = [req EXCEPT ![r] = [q EXCEPT !.at = "conflict"]] /\ UNCHANGED table
  <2> DEFINE new == [q EXCEPT !.at = "conflict"]
  <2>1. /\ new \in Request /\ new.at = "conflict" /\ new.op = q.op
        /\ new.docs = q.docs /\ new.unsent = q.unsent
    BY DEF Request
  <2>2. req' = [req EXCEPT ![r] = new]
    BY <1>1
  <2>. HIDE DEF new
  <2>4. RequestFits(new)
    BY <2>1, DocFacts DEF RequestFits
  <2>5. /\ req' \in [Requests -> Request] /\ RequestsFit'
        /\ req'[r] = new /\ \A s \in Requests \ {r} : req'[s] = req[s]
    BY <1>0, <2>1, <2>2, <2>4, MoveFacts
  <2>6. \A i \in Live : IndexedBy(r, i) => IndexedBy(r, i)'
    BY <1>1, <2>1, <2>5 DEF IndexedBy, table
  <2>7. \A i \in Ids : i \in ToFetch(r) => i \in ToFetch(r)'
    BY <2>1, <2>5 DEF ToFetch
  <2>. QED  BY <1>a, <1>1, <2>1, <2>5, <2>6, <2>7, PlainMove
<1>2. ASSUME NEW i \in Ids, rows[i] = Unused, rows' = [rows EXCEPT ![i] = Fresh(q.url)],
             UNCHANGED texts, NEW at \in Stages(q.op),
             req' = [req EXCEPT ![r] = [q EXCEPT !.at = at, !.id = i]]
      PROVE  LibraryInv'
  <2> DEFINE new == [q EXCEPT !.at = at, !.id = i]
  <2>1. /\ at \in {"fill", "promote", "send"}
        /\ at = "promote" => q.op = "link"
        /\ at = "fill" => q.op \in Imports \cup {"note"}
        /\ q.op = "export" => at = "fill"
    BY <1>2 DEF Stages, Imports
  <2>2. /\ new \in Request /\ new.at = at /\ new.id = i /\ new.op = q.op
        /\ new.docs = q.docs /\ new.unsent = q.unsent
    BY <2>1 DEF Request
  <2>3. req' = [req EXCEPT ![r] = new]
    BY <1>2
  <2>. HIDE DEF new
  <2>4. RequestFits(new)
    BY <2>1, <2>2, DocFacts DEF RequestFits
  <2>5. /\ req' \in [Requests -> Request] /\ RequestsFit'
        /\ req'[r] = new /\ \A s \in Requests \ {r} : req'[s] = req[s]
    BY <1>0, <2>2, <2>3, <2>4, MoveFacts
  <2>7. /\ rows' \in [Ids -> Row] /\ rows'[i].at = "live" /\ rows'[i].text = NoText
        /\ \A j \in Ids \ {i} : rows'[j] = rows[j]
    BY <1>0, <1>2, FreshFacts DEF TypeOK
  <2>8. TypeOK' /\ FetchFits'
    BY <1>0, <1>2, <1>a, <2>5, <2>7 DEF TypeOK, HandsType, FetchFits
  <2>9. rows[i].at = "unused" /\ i \notin Present
    BY <1>0, <1>2, RowFacts, PresentFacts
  <2>10. PurgeInv'
    <3>1. \A j \in Ids : fate[j] = "purged" => j # i
      BY <2>9 DEF LibraryInv, PurgeInv
    <3>2. \A s \in Requests \ {r} : req[s].at \in {"unindex", "commit"} =>
             req[s].id # i /\ req[s].id \in Ids
      BY <2>9 DEF LibraryInv, PurgeInv, RequestsFit, RequestFits
    <3>. QED  BY <1>a, <2>1, <2>2, <2>5, <2>7, <3>1, <3>2
                DEF LibraryInv, PurgeInv, Present, Live, Trash
  <2>11. TextIsIndexed'
    <3>1. \A j \in Findable' : j # i /\ j \in Findable /\ rows'[j] = rows[j] /\ j \in Ids
      BY <1>a, <2>7 DEF Findable, Live
    <3> SUFFICES ASSUME NEW j \in Findable', view[j] # rows'[j].text PROVE BeingIndexed(j)'
      BY <1>a DEF TextIsIndexed
    <3>2. BeingIndexed(j)
      BY <3>1 DEF LibraryInv, TextIsIndexed
    <3>. QED  BY <1>a, <2>2, <2>5, <3>1, <3>2 DEF BeingIndexed
  <2>12. FetchInv'
    <3> SUFFICES ASSUME NEW j \in Ids, Blank(j)', fate[j] # "cut" PROVE WillBeFetched(j)'
      BY <1>a DEF FetchInv
    <3>1. CASE j = i
      <4>1. i \in ToFetch(r)'
        BY <2>1, <2>2, <2>5 DEF ToFetch, Imports
      <4>. QED  BY <3>1, <4>1 DEF WillBeFetched
    <3>2. CASE j # i
      <4>1. Blank(j)
        BY <2>7, <3>2 DEF Blank, Present, Live, Trash
      <4>2. WillBeFetched(j)
        BY <4>1 DEF LibraryInv, FetchInv
      <4>3. ToFetch(r) = req[r].unsent /\ req[r].unsent \subseteq ToFetch(r)'
        BY <2>2, <2>5 DEF ToFetch
      <4>4. \A s \in Requests \ {r} : ToFetch(s)' = ToFetch(s)
        BY <2>5 DEF ToFetch
      <4>5. CASE j \in queue \/ (fetch.at = "fetching" /\ fetch.id = j)
        BY <1>a, <4>5 DEF WillBeFetched
      <4>6. CASE \E s \in Requests : j \in ToFetch(s)
        <5>1. PICK s \in Requests : j \in ToFetch(s)
          BY <4>6
        <5>2. j \in ToFetch(s)'
          BY <4>3, <4>4, <5>1
        <5>. QED  BY <5>2 DEF WillBeFetched
      <4>. QED  BY <4>2, <4>5, <4>6 DEF WillBeFetched
    <3>. QED  BY <3>1, <3>2
  <2>. QED  BY <2>5, <2>8, <2>10, <2>11, <2>12 DEF LibraryInv
<1>. QED  BY <1>1, <1>2 DEF InsertEntry, Fresh

(* The three requests that insert entries.                                  *)
LEMMA InsertsKeepInv ==
  ASSUME LibraryInv, NEW r \in Requests,
         SaveUrl(r) \/ PromoteMemo(r) \/ ImportNext(r)
  PROVE  LibraryInv'
<1>0. req[r] \in Request /\ RequestFits(req[r])
  BY DEF LibraryInv, TypeOK, RequestsFit
<1>1. CASE SaveUrl(r)
  <2>1. PICK u \in Urls : InsertEntry(r, [Idle EXCEPT !.op = "save", !.url = u])
    BY <1>1 DEF SaveUrl
  <2>2. req[r] = Idle
    BY <1>1 DEF SaveUrl
  <2> DEFINE q == [Idle EXCEPT !.op = "save", !.url = u]
  <2>3. q \in Request /\ q.url = u /\ q.op = "save" /\ q.docs = NoDocs /\ q.unsent = {}
    BY DocFacts DEF Idle, Request, AllOps
  <2>4. InsertEntry(r, q)
    BY <2>1
  <2>. HIDE DEF q
  <2>. QED  BY IdleFacts, <2>2, <2>3, <2>4, InsertEntryKeepsInv
<1>2. CASE PromoteMemo(r)
  <2>1. PICK u \in Urls, op \in {"link", "note"} :
            InsertEntry(r, [Idle EXCEPT !.op = op, !.url = u])
    BY <1>2 DEF PromoteMemo
  <2>2. req[r] = Idle
    BY <1>2 DEF PromoteMemo
  <2> DEFINE q == [Idle EXCEPT !.op = op, !.url = u]
  <2>3. q \in Request /\ q.url = u /\ q.op = op /\ q.docs = NoDocs /\ q.unsent = {}
    BY DocFacts DEF Idle, Request, AllOps
  <2>4. InsertEntry(r, q)
    BY <2>1
  <2>. HIDE DEF q
  <2>. QED  BY IdleFacts, <2>2, <2>3, <2>4, InsertEntryKeepsInv
<1>3. CASE ImportNext(r)
  <2>1. PICK u \in req[r].file : InsertEntry(r, [req[r] EXCEPT !.url = u, !.file = @ \ {u}])
    BY <1>3 DEF ImportNext
  <2>2. req[r].at = "next" /\ req[r].op \in Imports
    BY <1>0, <1>3 DEF ImportNext, RequestFits
  <2> DEFINE q == [req[r] EXCEPT !.url = u, !.file = @ \ {u}]
  <2>3. u \in Urls
    BY <1>0 DEF Request
  <2>4. /\ q \in Request /\ q.url = u /\ q.op = req[r].op
        /\ q.docs = req[r].docs /\ q.unsent = req[r].unsent
    BY <1>0, <2>3 DEF Request
  <2>5. InsertEntry(r, q)
    BY <2>1
  <2>. HIDE DEF q
  <2>6. q.op # "export" => q.docs = NoDocs /\ q.unsent = {}
    BY <1>0, <2>2, <2>4 DEF RequestFits
  <2>. QED  BY <2>2, <2>3, <2>4, <2>5, <2>6, InsertEntryKeepsInv
<1>. QED  BY <1>1, <1>2, <1>3

(* LookUpExisting.                                                          *)
LEMMA LookUpKeepsInv ==
  ASSUME LibraryInv, NEW r \in Requests, LookUpExisting(r)
  PROVE  LibraryInv'
<1>0. TypeOK /\ RequestsFit /\ RequestFits(req[r]) /\ req[r] \in Request
  BY DEF LibraryInv, RequestsFit, TypeOK
<1>1. /\ req[r].at = "conflict" /\ UNCHANGED <<table, index, queue, fetch, rebuild, events, fate>>
      /\ UNCHANGED rows /\ ToFetch(r) = req[r].unsent
  BY DEF LookUpExisting, table, ToFetch
<1>2. CASE Continue(r)
  <2>1. /\ req' \in [Requests -> Request] /\ RequestsFit'
        /\ \A q \in Requests \ {r} : req'[q] = req[q]
        /\ req'[r].at \in {"idle", "next"}
        /\ req'[r].docs = req[r].docs /\ req'[r].unsent = req[r].unsent
    BY <1>0, <1>1, <1>2, ContinueFacts
  <2>2. \A i \in Live : IndexedBy(r, i) => IndexedBy(r, i)'
    BY <1>1, <2>1 DEF IndexedBy
  <2>3. \A i \in Ids : i \in ToFetch(r) => i \in ToFetch(r)'
    BY <1>1, <2>1 DEF ToFetch
  <2>. QED  BY <1>1, <2>1, <2>2, <2>3, PlainMove
<1>3. ASSUME NEW i \in Live, req[r].op \in {"link", "note"}, NEW at \in Stages(req[r].op),
             req' = [req EXCEPT ![r] = [@ EXCEPT !.id = i, !.at = at]]
      PROVE  LibraryInv'
  <2> DEFINE new == [req[r] EXCEPT !.id = i, !.at = at]
  <2>1. /\ at \in {"promote", "fill"}
        /\ at = "fill" => req[r].op = "note"
    BY <1>3 DEF Stages
  <2>2. i \in Ids
    BY DEF Live
  <2>3. /\ new \in Request /\ new.at = at /\ new.id = i /\ new.op = req[r].op
        /\ new.docs = req[r].docs /\ new.unsent = req[r].unsent
    BY <1>0, <2>1, <2>2 DEF Request
  <2>4. req' = [req EXCEPT ![r] = new]
    BY <1>0, <1>3 DEF TypeOK
  <2>. HIDE DEF new
  <2>5. RequestFits(new)
    BY <1>0, <1>1, <1>3, <2>1, <2>2, <2>3, DocFacts DEF RequestFits
  <2>6. /\ req' \in [Requests -> Request] /\ RequestsFit'
        /\ req'[r] = new /\ \A s \in Requests \ {r} : req'[s] = req[s]
    BY <1>0, <2>3, <2>4, <2>5, MoveFacts
  <2>7. \A j \in Live : IndexedBy(r, j) => IndexedBy(r, j)'
    BY <1>1, <2>3, <2>6 DEF IndexedBy
  <2>8. \A j \in Ids : j \in ToFetch(r) => j \in ToFetch(r)'
    BY <1>1, <2>3, <2>6 DEF ToFetch
  <2>. QED  BY <1>1, <2>1, <2>3, <2>6, <2>7, <2>8, PlainMove
<1>. QED  BY <1>2, <1>3 DEF LookUpExisting

-----------------------------------------------------------------------------
(* What an entry is filled with, and what is then to be indexed.            *)
LEMMA FillFacts ==
  ASSUME TypeOK, texts < MaxTexts, NEW op \in Imports \cup {"note"}, NEW fill \in Fills(op)
  PROVE  /\ fill.content \in {"none", "some"} /\ fill.text \in {NoText} \cup Texts
         /\ fill.content # "some" => fill.text = NoText
         /\ fill.content = "none" => op \in {"bookmarks", "export"}
         /\ DocOf(op, fill) \in Docs
         /\ op = "note" => DocOf(op, fill) = NoDoc
         /\ op \in {"bookmarks", "export"} => DocOf(op, fill) = fill.text
         /\ op \in {"wallabag", "bookmarks"} => fill.text = NoText
         /\ texts + 1 \in 0..MaxTexts
<1>1. texts + 1 \in Texts /\ texts + 1 \in 0..MaxTexts
  BY LibraryAssumption DEF TypeOK, Texts
<1>. QED  BY <1>1, DocFacts DEF Fills, DocOf, Imports

(* FillIn: who had the entry in hand still has it.                          *)
LEMMA FillInKeepsInv ==
  ASSUME LibraryInv, NEW r \in Requests, FillIn(r)
  PROVE  LibraryInv'
<1>0. /\ TypeOK /\ RequestsFit /\ RequestFits(req[r]) /\ req[r] \in Request /\ HandsType
      /\ req[r].docs \in [Ids -> Docs] /\ req[r].unsent \in SUBSET Ids
  BY HandsFacts, RequestFacts DEF LibraryInv, RequestsFit, TypeOK
<1>1. /\ req[r].at = "fill" /\ texts < MaxTexts /\ req[r].op \in Imports \cup {"note"}
      /\ UNCHANGED <<index, queue, fetch, rebuild, events>>
  BY <1>0 DEF FillIn, RequestFits
<1>a. PICK i \in Ids : i = req[r].id
  BY <1>0, <1>1 DEF RequestFits
<1>b. PICK op \in Imports \cup {"note"} : op = req[r].op
  BY <1>1
<1>. DEFINE f == IF op = "note" THEN "hidden" ELSE "well"
            at == CASE op = "note" -> "promote"
                    [] op \in {"wallabag", "bookmarks"} -> "index"
                    [] op = "export" -> "next"
<1>2. PICK fill \in Fills(op) :
        /\ WriteContent(i, fill.content, fill.text, f)
        /\ texts' = IF texts + 1 \in {fill.text, DocOf(op, fill)} THEN texts + 1 ELSE texts
        /\ req' = [req EXCEPT ![r] =
              [req[r] EXCEPT !.at = at, !.docs[i] = DocOf(op, fill),
                        !.unsent = IF op = "export" THEN @ \cup Stage(i, fill.content) ELSE @]]
  BY <1>a, <1>b DEF FillIn
<1>3. /\ fill.content \in {"none", "some"} /\ fill.text \in {NoText} \cup Texts
      /\ fill.content # "some" => fill.text = NoText
      /\ fill.content = "none" => op \in {"bookmarks", "export"}
      /\ DocOf(op, fill) \in Docs
      /\ op = "note" => DocOf(op, fill) = NoDoc
      /\ op \in {"bookmarks", "export"} => DocOf(op, fill) = fill.text
      /\ op \in {"wallabag", "bookmarks"} => fill.text = NoText
      /\ texts' \in 0..MaxTexts
  BY <1>0, <1>1, <1>2, FillFacts DEF TypeOK
<1>4. /\ at \in {"promote", "index", "next"} /\ f \in {"well", "hidden"}
      /\ op = "note" => at = "promote" /\ f = "hidden"
      /\ op \in {"wallabag", "bookmarks"} => at = "index"
      /\ op = "export" => at = "next"
  BY DEF Imports
<1>. DEFINE unsent == IF op = "export" THEN req[r].unsent \cup Stage(i, fill.content)
                                       ELSE req[r].unsent
<1>5. /\ unsent \in SUBSET Ids /\ req[r].unsent \subseteq unsent
      /\ op = "export" /\ fill.content = "none" => i \in unsent
      /\ op # "export" => unsent = req[r].unsent
  <2>1. Stage(i, fill.content) \subseteq Ids
    BY DEF Stage
  <2>. QED  BY <1>0, <2>1 DEF Stage
<1>. DEFINE docs == [req[r].docs EXCEPT ![i] = DocOf(op, fill)]
            new == [req[r] EXCEPT !.at = at, !.docs = docs, !.unsent = unsent]
<1>6. req' = [req EXCEPT ![r] = new]
  BY <1>0, <1>2 DEF Request
<1>c. docs \in [Ids -> Docs]
  BY <1>0, <1>3
<1>. HIDE DEF f, at, unsent, docs
<1>7. /\ new \in Request /\ new.at = at /\ new.op = op /\ new.id = i /\ new.unsent = unsent
      /\ new.docs = [req[r].docs EXCEPT ![i] = DocOf(op, fill)]
  <2>1. /\ new \in Request /\ new.at = at /\ new.op = op /\ new.id = i /\ new.unsent = unsent
        /\ new.docs = docs
    BY <1>0, <1>4, <1>5, <1>a, <1>b, <1>c DEF Request
  <2>. QED  BY <2>1 DEF docs
<1>. HIDE DEF new
<1>8. new.docs[i] = DocOf(op, fill) /\ \A j \in Ids \ {i} : new.docs[j] = req[r].docs[j]
  BY <1>0, <1>7
<1>9. RequestFits(new)
  <2>1. op # "export" => req[r].docs = NoDocs /\ req[r].unsent = {}
    BY <1>0, <1>1, <1>b DEF RequestFits
  <2>2. op # "export" => unsent = {} /\ \A j \in Ids \ {i} : new.docs[j] = NoDoc
    BY <1>5, <1>8, <2>1, DocFacts
  <2>3. op = "note" => new.docs = NoDocs
    <3>1. op = "note" => new.docs = [req[r].docs EXCEPT ![i] = NoDoc]
      BY <1>3, <1>7
    <3>2. op = "note" => req[r].docs = [j \in Ids |-> NoDoc]
      BY <2>1 DEF NoDocs
    <3>. QED  BY <3>1, <3>2 DEF NoDocs
  <2>4. op = "note" \/ op = "export" \/ op \in {"wallabag", "bookmarks"}
    BY DEF Imports
  <2>. QED  BY <1>4, <1>7, <2>2, <2>3, <2>4 DEF RequestFits, Imports
<1>10. /\ req' \in [Requests -> Request] /\ RequestsFit'
       /\ req'[r] = new /\ \A q \in Requests \ {r} : req'[q] = req[q]
  BY <1>0, <1>6, <1>7, <1>9, MoveFacts
<1>11. HandsType' /\ NoPurgeBegins
  BY <1>0, <1>1, <1>4, <1>7, <1>10 DEF HandsType, FetchFits, NoPurgeBegins
<1>12. ASSUME NEW j \in Ids \ {i}, rows'[j] = rows[j], BeingIndexed(j) PROVE BeingIndexed(j)'
  <2>1. IndexedBy(r, j) => IndexedBy(r, j)'
    BY <1>1, <1>8, <1>10, <1>12 DEF IndexedBy
  <2>. QED  BY <1>1, <1>10, <1>12, <2>1, OneMoves
<1>13. rows'[i].text = fill.text /\ fill.text # NoText => f = "hidden" \/ BeingIndexed(i)'
  <2> SUFFICES ASSUME rows'[i].text = fill.text, fill.text # NoText PROVE f = "hidden" \/ BeingIndexed(i)'
    OBVIOUS
  <2>1. op \in {"note", "export"}
    BY <1>3 DEF Imports
  <2>2. CASE op = "export"
    <3>1. req'[r].docs[i] = rows'[i].text
      BY <1>3, <1>8, <1>10, <2>2
    <3>. QED  BY <3>1 DEF BeingIndexed
  <2>. QED  BY <1>4, <2>1, <2>2
<1>14. ASSUME NEW j \in Ids \ {i}, WillBeFetched(j) PROVE WillBeFetched(j)'
  <2>1. j \in ToFetch(r) => j \in ToFetch(r)'
    BY <1>5, <1>7, <1>10, <1>a DEF ToFetch
  <2>. QED  BY <1>1, <1>10, <1>14, <2>1, OneMoves
<1>15. fill.content = "none" => WillBeFetched(i)'
  <2>1. fill.content = "none" => i \in ToFetch(r)'
    BY <1>3, <1>4, <1>5, <1>7, <1>10 DEF ToFetch
  <2>. QED  BY <2>1 DEF WillBeFetched
<1>. QED  BY <1>1, <1>2, <1>3, <1>4, <1>11, <1>12, <1>13, <1>14, <1>15, WriteContentKeepsInv

-----------------------------------------------------------------------------
(* IndexEntry, ReindexEntry, FlushIndex.                                    *)
LEMMA RequestUpserts ==
  ASSUME LibraryInv, NEW r \in Requests, IndexEntry(r) \/ ReindexEntry(r) \/ FlushIndex(r)
  PROVE  LibraryInv'
<1>0. /\ TypeOK /\ RequestsFit /\ RequestFits(req[r]) /\ req[r] \in Request /\ HandsType
      /\ req[r].docs \in [Ids -> Docs]
  BY HandsFacts, RequestFacts DEF LibraryInv, RequestsFit, TypeOK
<1>1. /\ req[r].at \in {"index", "reindex", "flush"}
      /\ UNCHANGED <<table, disk, queue, fetch, rebuild, events>> /\ UNCHANGED rows
      /\ req[r].at # "flush" => req[r].op # "export" /\ req[r].id \in Ids /\ req[r].unsent = {}
  BY <1>0 DEF IndexEntry, ReindexEntry, FlushIndex, table, RequestFits
<1>2. PICK i \in Ids :
        /\ Upsert(i, req[r].docs[i]) /\ req[r].docs[i] \in Docs
        /\ req[r].at # "flush" => i = req[r].id
        /\ \/ /\ req[r].at = "index"
              /\ req' = [req EXCEPT ![r] =
                  [@ EXCEPT !.docs[i] = NoDoc,
                            !.at = IF req[r].op = "bookmarks" THEN "send" ELSE "next"]]
           \/ req[r].at = "reindex" /\ Finish(r)
           \/ req[r].at = "flush" /\ req' = [req EXCEPT ![r] = [@ EXCEPT !.docs[i] = NoDoc]]
  <2>1. CASE IndexEntry(r)
    BY <1>0, <1>1, <2>1 DEF IndexEntry
  <2>2. CASE ReindexEntry(r)
    BY <1>0, <1>1, <2>2 DEF ReindexEntry
  <2>3. CASE FlushIndex(r)
    BY <1>0, <1>1, <2>3 DEF FlushIndex, Staged
  <2>. QED  BY <2>1, <2>2, <2>3
<1>3. /\ req' \in [Requests -> Request] /\ RequestsFit'
      /\ \A q \in Requests \ {r} : req'[q] = req[q]
      /\ req'[r].at \in {"idle", "next", "send", "flush"}
      /\ \A j \in Ids \ {i} : req[r].docs[j] = req'[r].docs[j]
      /\ \A j \in Ids : j \in ToFetch(r) => j \in ToFetch(r)'
  <2>1. CASE req[r].at = "reindex" /\ Finish(r)
    <3>1. /\ req' \in [Requests -> Request] /\ RequestsFit'
          /\ \A q \in Requests \ {r} : req'[q] = req[q]
          /\ req'[r].at = "idle" /\ req'[r].docs = NoDocs
      BY <1>0, <2>1, FinishFacts
    <3>2. \A j \in Ids \ {i} : req[r].docs[j] = NoDoc
      BY <1>0, <1>1, <1>2, <2>1 DEF RequestFits
    <3>3. \A j \in Ids : j \notin ToFetch(r)
      BY <1>1, <2>1 DEF ToFetch
    <3>. QED  BY <3>1, <3>2, <3>3, DocFacts
  <2>2. CASE /\ req[r].at = "index"
             /\ req' = [req EXCEPT ![r] =
                  [@ EXCEPT !.docs[i] = NoDoc,
                            !.at = IF req[r].op = "bookmarks" THEN "send" ELSE "next"]]
    <3>. DEFINE new == [req[r] EXCEPT !.docs[i] = NoDoc,
                            !.at = IF req[r].op = "bookmarks" THEN "send" ELSE "next"]
    <3>1. req' = [req EXCEPT ![r] = new]
      BY <2>2
    <3>2. /\ new \in Request /\ new.op = req[r].op /\ new.id = i /\ new.unsent = req[r].unsent
          /\ new.at = IF req[r].op = "bookmarks" THEN "send" ELSE "next"
          /\ new.docs = [req[r].docs EXCEPT ![i] = NoDoc]
      BY <1>0, <1>2, <2>2, DocFacts DEF Request
    <3>. HIDE DEF new
    <3>3. new.docs = NoDocs /\ req[r].op # "export"
      <4>1. \A j \in Ids \ {i} : req[r].docs[j] = NoDoc
        BY <1>0, <1>1, <1>2, <2>2 DEF RequestFits
      <4>2. new.docs \in [Ids -> Docs] /\ \A j \in Ids : new.docs[j] = NoDoc
        BY <1>0, <3>2, <4>1, DocFacts
      <4>. QED  BY <1>1, <2>2, <4>2 DEF NoDocs
    <3>4. new.at = "next" => req[r].op \in Imports
      BY <1>0, <2>2, <3>2 DEF RequestFits
    <3>5. RequestFits(new)
      BY <1>1, <2>2, <3>2, <3>3, <3>4, DocFacts DEF RequestFits
    <3>6. /\ req' \in [Requests -> Request] /\ RequestsFit'
          /\ req'[r] = new /\ \A q \in Requests \ {r} : req'[q] = req[q]
      BY <1>0, <3>1, <3>2, <3>5, MoveFacts
    <3>7. \A j \in Ids : j \in ToFetch(r) => j \in ToFetch(r)'
      BY <1>1, <1>2, <2>2, <3>2, <3>6 DEF ToFetch
    <3>. QED  BY <1>0, <3>2, <3>6, <3>7
  <2>3. CASE req[r].at = "flush" /\ req' = [req EXCEPT ![r] = [@ EXCEPT !.docs[i] = NoDoc]]
    <3>. DEFINE new == [req[r] EXCEPT !.docs[i] = NoDoc]
    <3>1. req' = [req EXCEPT ![r] = new]
      BY <2>3
    <3>2. /\ new \in Request /\ new.op = req[r].op /\ new.id = req[r].id
          /\ new.unsent = req[r].unsent /\ new.at = "flush"
          /\ new.docs = [req[r].docs EXCEPT ![i] = NoDoc]
      BY <1>0, <2>3, DocFacts DEF Request
    <3>. HIDE DEF new
    <3>3. req[r].docs = NoDocs => new.docs = NoDocs
      BY <3>2 DEF NoDocs
    <3>4. \A j \in Ids : req[r].docs[j] = NoDoc => new.docs[j] = NoDoc
      BY <1>0, <3>2
    <3>5. RequestFits(new)
      BY <1>0, <2>3, <3>2, <3>3, <3>4 DEF RequestFits
    <3>6. /\ req' \in [Requests -> Request] /\ RequestsFit'
          /\ req'[r] = new /\ \A q \in Requests \ {r} : req'[q] = req[q]
      BY <1>0, <3>1, <3>2, <3>5, MoveFacts
    <3>7. \A j \in Ids : j \in ToFetch(r) => j \in ToFetch(r)'
      BY <2>3, <3>2, <3>6 DEF ToFetch
    <3>. QED  BY <1>0, <3>2, <3>6, <3>7
  <2>. QED  BY <1>2, <2>1, <2>2, <2>3
<1>4. HandsType' /\ NoPurgeBegins
  BY <1>0, <1>1, <1>3 DEF HandsType, FetchFits, NoPurgeBegins
<1>5. \A j \in Ids \ {i} : BeingIndexed(j) => BeingIndexed(j)'
  <2>1. \A j \in Ids \ {i} : IndexedBy(r, j) => IndexedBy(r, j)'
    BY <1>1, <1>3 DEF IndexedBy
  <2>. QED  BY <1>1, <1>3, <2>1, OneMoves
<1>6. req[r].docs[i] # rows[i].text /\ BeingIndexed(i) => BeingIndexed(i)'
  <2>1. req[r].docs[i] # rows[i].text => ~IndexedBy(r, i)
    BY <1>1 DEF IndexedBy
  <2>. QED  BY <1>1, <1>3, <2>1, OneMoves
<1>7. \A j \in Ids : WillBeFetched(j) => WillBeFetched(j)'
  BY <1>1, <1>3, OneMoves
<1>. QED  BY <1>1, <1>2, <1>4, <1>5, <1>6, <1>7, UpsertKeepsInv

(* IndexFetched, RebuildIndex.                                              *)
LEMMA BackgroundUpserts ==
  ASSUME LibraryInv, IndexFetched \/ RebuildIndex
  PROVE  LibraryInv'
<1>0. TypeOK /\ RequestsFit /\ HandsType
  BY HandsFacts DEF LibraryInv
<1>1. CASE IndexFetched
  <2>1. /\ fetch.at = "saved" /\ Upsert(fetch.id, fetch.doc) /\ fetch' = NoFetch
        /\ UNCHANGED <<table, disk, queue, req, rebuild, events>> /\ UNCHANGED rows
    BY <1>1 DEF IndexFetched, table
  <2>2. PICK i \in Ids, doc \in Docs : i = fetch.id /\ doc = fetch.doc
    BY <1>0, <2>1 DEF HandsType, FetchFits
  <2>3. HandsType' /\ NoPurgeBegins
    BY <1>0, <2>1, DocFacts DEF NoPurgeBegins, HandsType, RequestsFit, FetchFits, NoFetch
  <2>4. \A j \in Ids \ {i} : BeingIndexed(j) => BeingIndexed(j)'
    BY <2>1, <2>2 DEF BeingIndexed
  <2>5. doc # rows[i].text /\ BeingIndexed(i) => BeingIndexed(i)'
    BY <2>1, <2>2 DEF BeingIndexed
  <2>6. \A j \in Ids : WillBeFetched(j) => WillBeFetched(j)'
    <3>1. \A q \in Requests : ToFetch(q)' = ToFetch(q)
      BY <2>1 DEF ToFetch
    <3>. QED  BY <2>1, <3>1 DEF WillBeFetched
  <2>. QED  BY <2>1, <2>2, <2>3, <2>4, <2>5, <2>6, UpsertKeepsInv
<1>2. CASE RebuildIndex
  <2>1. /\ rebuild.at = "index" /\ UNCHANGED <<table, disk, queue, fetch, req, events>>
        /\ UNCHANGED rows
    BY <1>2 DEF RebuildIndex, table
  <2>2. PICK i \in Ids : /\ Upsert(i, rebuild.todo[i]) /\ rebuild.todo[i] \in Docs
                         /\ rebuild' = [rebuild EXCEPT !.todo[i] = NoDoc]
    BY <1>0, <1>2 DEF RebuildIndex, Unbuilt, HandsType
  <2>3. /\ rebuild' \in [kind : {"none", "restore", "reindex"},
                       at : {"idle", "clear", "commit", "select", "index"},
                       todo : [Ids -> Docs]]
        /\ \A j \in Ids \ {i} : rebuild'.todo[j] = rebuild.todo[j]
    BY <1>0, <2>2, DocFacts DEF HandsType
  <2>4. HandsType' /\ NoPurgeBegins
    BY <1>0, <2>1, <2>3 DEF NoPurgeBegins, HandsType, RequestsFit, FetchFits
  <2>5. \A j \in Ids \ {i} : BeingIndexed(j) => BeingIndexed(j)'
    BY <2>1, <2>3 DEF BeingIndexed
  <2>6. rebuild.todo[i] # rows[i].text /\ BeingIndexed(i) => BeingIndexed(i)'
    BY <2>1 DEF BeingIndexed
  <2>7. \A j \in Ids : WillBeFetched(j) => WillBeFetched(j)'
    <3>1. \A q \in Requests : ToFetch(q)' = ToFetch(q)
      BY <2>1 DEF ToFetch
    <3>. QED  BY <2>1, <3>1 DEF WillBeFetched
  <2>. QED  BY <2>1, <2>2, <2>4, <2>5, <2>6, <2>7, UpsertKeepsInv
<1>. QED  BY <1>1, <1>2

-----------------------------------------------------------------------------
(* Send.                                                                    *)
LEMMA SendKeepsInv ==
  ASSUME LibraryInv, NEW r \in Requests, Send(r)
  PROVE  LibraryInv'
<1>0. TypeOK /\ RequestsFit /\ RequestFits(req[r]) /\ HandsType /\ Live \subseteq Ids
  BY HandsFacts, PresentFacts DEF LibraryInv, RequestsFit
<1>1. /\ req[r].at = "send" /\ Queue(req[r].id) /\ Continue(r)
      /\ UNCHANGED <<table, index, fetch, rebuild, events>> /\ UNCHANGED rows
  BY DEF Send, table
<1>2. PICK i \in Ids : i = req[r].id
  BY <1>0, <1>1 DEF RequestFits
<1>3. /\ req' \in [Requests -> Request] /\ RequestsFit'
      /\ \A q \in Requests \ {r} : req'[q] = req[q]
      /\ req'[r].at \in {"idle", "next"}
      /\ req'[r].docs = req[r].docs /\ req'[r].unsent = req[r].unsent
  BY <1>0, <1>1, ContinueFacts
<1>4. HandsType' /\ NoPurgeBegins
  BY <1>0, <1>1, <1>3 DEF NoPurgeBegins, HandsType, FetchFits
<1>5. queue \subseteq queue'
  BY <1>1 DEF Queue
<1>6. \A j \in Live : BeingIndexed(j) => BeingIndexed(j)'
  <2>1. \A j \in Ids : IndexedBy(r, j) => IndexedBy(r, j)'
    BY <1>1, <1>3 DEF IndexedBy
  <2>. QED  BY <1>0, <1>1, <1>3, <1>5, <2>1, OneMoves
<1>7. \A j \in Ids \ {i} : WillBeFetched(j) => WillBeFetched(j)'
  <2>1. \A j \in Ids \ {i} : j \in ToFetch(r) => j \in ToFetch(r)'
    BY <1>1, <1>2, <1>3 DEF ToFetch
  <2>. QED  BY <1>1, <1>3, <1>5, <2>1, OneMoves
<1>. QED  BY <1>1, <1>2, <1>4, <1>6, <1>7, QueueKeepsInv

(* FlushFetches.                                                            *)
LEMMA FlushFetchesKeepsInv ==
  ASSUME LibraryInv, NEW r \in Requests, FlushFetches(r)
  PROVE  LibraryInv'
<1>0. /\ TypeOK /\ RequestsFit /\ RequestFits(req[r]) /\ req[r] \in Request /\ HandsType
      /\ Live \subseteq Ids /\ req[r].docs \in [Ids -> Docs] /\ req[r].unsent \in SUBSET Ids
  BY HandsFacts, PresentFacts, RequestFacts DEF LibraryInv, RequestsFit, TypeOK
<1>1. /\ req[r].at = "flush" /\ Staged(r) = {}
      /\ UNCHANGED <<table, index, fetch, rebuild, events>> /\ UNCHANGED rows
  BY DEF FlushFetches, table
<1>2. req[r].docs = NoDocs
  <2>1. \A i \in Ids : req[r].docs[i] = NoDoc
    BY <1>1 DEF Staged
  <2>. QED  BY <1>0, <2>1 DEF NoDocs
<1>3. ASSUME NEW i \in req[r].unsent, Queue(i),
             req' = [req EXCEPT ![r] = [req[r] EXCEPT !.unsent = @ \ {i}]]
      PROVE  LibraryInv'
  <2>. DEFINE new == [req[r] EXCEPT !.unsent = @ \ {i}]
  <2>1. /\ new \in Request /\ new.at = "flush" /\ new.id = req[r].id /\ new.op = req[r].op
        /\ new.docs = req[r].docs /\ new.unsent = req[r].unsent \ {i}
    BY <1>0, <1>1 DEF Request
  <2>2. req' = [req EXCEPT ![r] = new]
    BY <1>3
  <2>. HIDE DEF new
  <2>3. RequestFits(new)
    BY <1>0, <1>1, <2>1 DEF RequestFits
  <2>4. /\ req' \in [Requests -> Request] /\ RequestsFit'
        /\ req'[r] = new /\ \A q \in Requests \ {r} : req'[q] = req[q]
    BY <1>0, <2>1, <2>2, <2>3, MoveFacts
  <2>5. i \in Ids /\ queue \subseteq queue'
    BY <1>0, <1>3 DEF Queue
  <2>6. HandsType' /\ NoPurgeBegins
    BY <1>0, <1>1, <2>1, <2>4 DEF NoPurgeBegins, HandsType, FetchFits
  <2>7. \A j \in Live : BeingIndexed(j) => BeingIndexed(j)'
    <3>1. \A j \in Ids : IndexedBy(r, j) => IndexedBy(r, j)'
      BY <1>1, <2>1, <2>4 DEF IndexedBy
    <3>. QED  BY <1>0, <1>1, <2>4, <2>5, <3>1, OneMoves
  <2>8. \A j \in Ids \ {i} : WillBeFetched(j) => WillBeFetched(j)'
    <3>1. \A j \in Ids \ {i} : j \in ToFetch(r) => j \in ToFetch(r)'
      BY <1>1, <2>1, <2>4 DEF ToFetch
    <3>. QED  BY <1>1, <2>4, <2>5, <3>1, OneMoves
  <2>. QED  BY <1>1, <1>3, <2>5, <2>6, <2>7, <2>8, QueueKeepsInv
<1>4. CASE req[r].unsent = {} /\ Finish(r) /\ UNCHANGED <<queue, fate>>
  <2>1. req' = [req EXCEPT ![r] = Idle]
    BY <1>4 DEF Finish
  <2>. QED  BY <1>1, <1>2, <1>4, <2>1, IdleFacts, OpenOrClose
<1>. QED  BY <1>3, <1>4 DEF FlushFetches

-----------------------------------------------------------------------------
(* What is given up: the entries cut off and hidden are those that the      *)
(* request, alone, was to have fetched and to index.                        *)
LEMMA GivingUpKeepsInv ==
  ASSUME LibraryInv, NEW r \in Requests,
         UNCHANGED <<rows, index, queue, fetch, rebuild, events>>, texts' \in 0..MaxTexts,
         req' \in [Requests -> Request], RequestsFit', fate' \in [Ids -> Fates],
         \A q \in Requests \ {r} : req'[q] = req[q],
         req'[r].at \notin {"unindex", "commit"},
         \A i \in Ids : \/ fate'[i] = fate[i]
                        \/ i \in Present /\ fate'[i] = "cut" /\ Blank(i)
                        \/ i \in Live /\ fate'[i] = "hidden" /\ Missing(i),
         \A i \in Live : Missing(i) /\ IndexedBy(r, i) => IndexedBy(r, i)' \/ fate'[i] = "hidden",
         \A i \in Ids : Blank(i) /\ i \in ToFetch(r) => i \in ToFetch(r)' \/ fate'[i] = "cut"
  PROVE  LibraryInv'
<1>0. TypeOK /\ HandsType /\ Live \subseteq Ids
  BY HandsFacts, PresentFacts DEF LibraryInv
<1>1. HandsType' /\ NoPurgeBegins
  BY <1>0 DEF HandsType, FetchFits, NoPurgeBegins
<1>2. \A i \in Live : Missing(i) /\ BeingIndexed(i) => BeingIndexed(i)' \/ fate'[i] = "hidden"
  BY <1>0, OneMoves
<1>3. \A i \in Ids : Blank(i) /\ WillBeFetched(i) => WillBeFetched(i)' \/ fate'[i] = "cut"
  BY OneMoves
<1>4. UNCHANGED <<rows, index, queue, events>>
  OBVIOUS
<1>. QED  BY <1>1, <1>2, <1>3, <1>4, MovesKeepInv

(* Drop.                                                                    *)
LEMMA DropKeepsInv ==
  ASSUME LibraryInv, NEW r \in Requests, Drop(r)
  PROVE  LibraryInv'
<1>0. /\ TypeOK /\ RequestsFit /\ req[r] \in Request
      /\ Live \subseteq Ids /\ req[r].docs \in [Ids -> Docs]
  BY PresentFacts, RequestFacts DEF LibraryInv, TypeOK
<1>1. /\ UNCHANGED <<rows, index, queue, fetch, rebuild, events>> /\ texts' = texts
      /\ Finish(r)
      /\ fate' = [i \in Ids |->
                   IF i \in ToFetch(r) /\ Blank(i) THEN "cut"
                   ELSE IF i \in ToIndex(r) \cap Live /\ Missing(i) THEN "hidden"
                   ELSE fate[i]]
  BY DEF Drop, table
<1>2. /\ req' \in [Requests -> Request] /\ RequestsFit'
      /\ \A q \in Requests \ {r} : req'[q] = req[q]
      /\ req'[r].at = "idle"
  BY <1>0, <1>1, FinishFacts
<1>3. /\ fate' \in [Ids -> Fates] /\ texts' \in 0..MaxTexts
      /\ \A i \in Ids : \/ fate'[i] = fate[i]
                        \/ i \in Present /\ fate'[i] = "cut" /\ Blank(i)
                        \/ i \in Live /\ fate'[i] = "hidden" /\ Missing(i)
  BY <1>0, <1>1 DEF TypeOK, Fates, Blank
<1>4. \A i \in Live : Missing(i) /\ IndexedBy(r, i) => fate'[i] = "hidden"
  <2> SUFFICES ASSUME NEW i \in Live, Missing(i), IndexedBy(r, i) PROVE fate'[i] = "hidden"
    OBVIOUS
  <2>1. i \in Ids /\ rows[i].text # NoDoc /\ rows[i].text # NoText /\ ~Blank(i)
    BY <1>0, PresentFacts DEF Missing
  <2>2. i \in ToIndex(r)
    BY <2>1 DEF IndexedBy, ToIndex, Staged
  <2>. QED  BY <1>1, <2>1, <2>2
<1>5. \A i \in Ids : Blank(i) /\ i \in ToFetch(r) => fate'[i] = "cut"
  BY <1>1
<1>. QED  BY <1>1, <1>2, <1>3, <1>4, <1>5, GivingUpKeepsInv

(* StatementFails: who would have had the entry fetched is cut off.         *)
LEMMA StatementFailsKeepsInv ==
  ASSUME LibraryInv, NEW r \in Requests, StatementFails(r)
  PROVE  LibraryInv'
<1>0. /\ TypeOK /\ RequestsFit /\ RequestFits(req[r]) /\ req[r] \in Request
      /\ Live \subseteq Ids /\ req[r].docs \in [Ids -> Docs]
  BY PresentFacts, RequestFacts DEF LibraryInv, RequestsFit, TypeOK
<1>1. /\ req[r].at \in {"send", "promote", "fill"}
      /\ UNCHANGED <<rows, index, queue, fetch, rebuild, events>>
  BY DEF StatementFails
<1>2. PICK i \in Ids : i = req[r].id
  BY <1>0, <1>1 DEF RequestFits
<1>3. \A j \in Ids : j \in ToFetch(r) => j \in req[r].unsent \/ j = i
  BY <1>0, <1>2, InHand
<1>4. CASE /\ Continue(r) /\ UNCHANGED texts
           /\ fate' = [fate EXCEPT ![i] = IF Blank(i) THEN "cut" ELSE @]
  <2>1. /\ req' \in [Requests -> Request] /\ RequestsFit'
        /\ \A q \in Requests \ {r} : req'[q] = req[q]
        /\ req'[r].at \in {"idle", "next"}
        /\ req'[r].docs = req[r].docs /\ req'[r].unsent = req[r].unsent
    BY <1>0, <1>1, <1>4, ContinueFacts
  <2>2. /\ fate' \in [Ids -> Fates] /\ texts' \in 0..MaxTexts
        /\ \A j \in Ids : \/ fate'[j] = fate[j]
                          \/ j \in Present /\ fate'[j] = "cut" /\ Blank(j)
        /\ Blank(i) => fate'[i] = "cut"
    BY <1>0, <1>4 DEF TypeOK, Fates, Blank
  <2>3. \A j \in Live : IndexedBy(r, j) => IndexedBy(r, j)'
    BY <1>1, <2>1 DEF IndexedBy
  <2>4. \A j \in Ids : Blank(j) /\ j \in ToFetch(r) => j \in ToFetch(r)' \/ fate'[j] = "cut"
    BY <1>3, <2>1, <2>2 DEF ToFetch
  <2>. QED  BY <1>1, <2>1, <2>2, <2>3, <2>4, GivingUpKeepsInv
<1>5. ASSUME req[r].at = "fill", NEW op \in {"wallabag", "bookmarks"}, op = req[r].op,
             texts < MaxTexts, NEW fill \in Fills(op),
             req' = [req EXCEPT ![r] = [@ EXCEPT !.at = "index", !.docs[i] = DocOf(op, fill)]],
             texts' = IF DocOf(op, fill) = texts + 1 THEN texts + 1 ELSE texts,
             fate' = [fate EXCEPT ![i] = IF Blank(i) /\ op = "wallabag" THEN "cut" ELSE @]
      PROVE  LibraryInv'
  <2>1. DocOf(op, fill) \in Docs /\ texts' \in 0..MaxTexts
    <3>1. op \in Imports \cup {"note"}
      BY DEF Imports
    <3>. QED  BY <1>0, <1>5, <3>1, FillFacts DEF TypeOK
  <2>2. req[r].docs = NoDocs /\ req[r].unsent = {}
    BY <1>0, <1>5 DEF RequestFits
  <2>. DEFINE new == [req[r] EXCEPT !.at = "index", !.docs[i] = DocOf(op, fill)]
  <2>3. req' = [req EXCEPT ![r] = new]
    BY <1>5
  <2>4. /\ new \in Request /\ new.at = "index" /\ new.op = op /\ new.id = i /\ new.unsent = {}
        /\ new.docs = [req[r].docs EXCEPT ![i] = DocOf(op, fill)]
    BY <1>0, <1>2, <1>5, <2>1, <2>2 DEF Request
  <2>. HIDE DEF new
  <2>5. \A j \in Ids \ {i} : new.docs[j] = NoDoc
    BY <2>2, <2>4, DocFacts
  <2>6. RequestFits(new)
    BY <2>4, <2>5 DEF RequestFits, Imports
  <2>7. /\ req' \in [Requests -> Request] /\ RequestsFit'
        /\ req'[r] = new /\ \A q \in Requests \ {r} : req'[q] = req[q]
    BY <1>0, <2>3, <2>4, <2>6, MoveFacts
  <2>8. /\ fate' \in [Ids -> Fates]
        /\ \A j \in Ids : \/ fate'[j] = fate[j]
                          \/ j \in Present /\ fate'[j] = "cut" /\ Blank(j)
        /\ Blank(i) /\ op = "wallabag" => fate'[i] = "cut"
    BY <1>0, <1>5 DEF TypeOK, Fates, Blank
  <2>9. \A j \in Live : ~IndexedBy(r, j)
    BY <1>0, <1>5, <2>2, InHand
  <2>10. \A j \in Ids : Blank(j) /\ j \in ToFetch(r) => j \in ToFetch(r)' \/ fate'[j] = "cut"
    <3>1. op = "bookmarks" => i \in ToFetch(r)'
      BY <2>4, <2>7 DEF ToFetch
    <3>. QED  BY <1>3, <2>2, <2>8, <3>1
  <2>. QED  BY <1>1, <2>1, <2>4, <2>7, <2>8, <2>9, <2>10, GivingUpKeepsInv
<1>. QED  BY <1>1, <1>2, <1>4, <1>5 DEF StatementFails

(* DropRebuild: what was not rebuilt is hidden.                             *)
LEMMA DropRebuildKeepsInv ==
  ASSUME LibraryInv, DropRebuild
  PROVE  LibraryInv'
<1>0. TypeOK /\ HandsType /\ Live \subseteq Ids
  BY HandsFacts, PresentFacts DEF LibraryInv
<1>1. /\ UNCHANGED <<rows, index, queue, events>> /\ UNCHANGED <<fetch, req>> /\ texts' = texts
      /\ rebuild' = NoRebuild
      /\ fate' = [i \in Ids |-> IF i \in Live /\ BeingRebuilt(i) /\ Missing(i)
                                THEN "hidden" ELSE fate[i]]
  BY DEF DropRebuild, table
<1>2. HandsType' /\ NoPurgeBegins
  BY <1>0, <1>1, DocFacts DEF HandsType, RequestsFit, FetchFits, NoPurgeBegins, NoRebuild
<1>3. /\ fate' \in [Ids -> Fates] /\ texts' \in 0..MaxTexts
      /\ \A i \in Ids : fate'[i] = fate[i] \/ (i \in Live /\ fate'[i] = "hidden" /\ Missing(i))
  BY <1>0, <1>1 DEF TypeOK, Fates
<1>4. \A i \in Live : Missing(i) /\ BeingIndexed(i) => BeingIndexed(i)' \/ fate'[i] = "hidden"
  <2> SUFFICES ASSUME NEW i \in Live, Missing(i), BeingIndexed(i), ~BeingRebuilt(i)
               PROVE  BeingIndexed(i)'
    BY <1>0, <1>1
  <2>1. i \in Ids /\ rows[i].text # NoDoc
    BY <1>0, PresentFacts
  <2>2. rebuild.at \notin {"clear", "commit", "select"} /\ rebuild.todo[i] # rows[i].text
    BY <2>1 DEF BeingRebuilt, Unbuilt
  <2>. QED  BY <1>1, <2>2 DEF BeingIndexed
<1>5. \A i \in Ids : WillBeFetched(i) => WillBeFetched(i)'
  <2>1. \A q \in Requests : ToFetch(q)' = ToFetch(q)
    BY <1>1 DEF ToFetch
  <2>. QED  BY <1>1, <2>1 DEF WillBeFetched
<1>. QED  BY <1>1, <1>2, <1>3, <1>4, <1>5, MovesKeepInv


-----------------------------------------------------------------------------
(* A row that goes to the trash or comes back keeps the rest of it.         *)
LEMMA SetAtFacts ==
  ASSUME TypeOK, NEW i \in Present, NEW at \in {"live", "trash"}, SetAt(i, at)
  PROVE  /\ rows' \in [Ids -> Row] /\ rows'[i].at = at /\ i \in Ids
         /\ \A j \in Ids : rows'[j].text = rows[j].text /\ rows'[j].content = rows[j].content
         /\ \A j \in Ids \ {i} : rows'[j] = rows[j]
         /\ Present' = Present
<1>1. i \in Ids /\ rows[i] \in Row /\ rows[i].at \in {"live", "trash"}
  BY PresentFacts
<1>2. rows[i].content \in {"none", "some", "failed"} /\ rows[i].text \in {NoText} \cup Texts
      /\ (rows[i].content # "some" => rows[i].text = NoText)
  BY <1>1, RowFacts
<1>. DEFINE new == Moved(rows[i], at)
<1>3. new \in Row /\ new.at = at /\ new.text = rows[i].text /\ new.content = rows[i].content
  BY <1>1, <1>2, ChangedRowFacts
<1>4. rows' = [rows EXCEPT ![i] = new]
  BY <1>1 DEF SetAt, TypeOK, Moved
<1>. HIDE DEF new
<1>5. /\ rows' \in [Ids -> Row] /\ rows'[i] = new /\ \A j \in Ids \ {i} : rows'[j] = rows[j]
  BY <1>1, <1>3, <1>4 DEF TypeOK
<1>. QED  BY <1>1, <1>3, <1>5 DEF Present, Live, Trash

(* DeleteEntry, RestoreEntry.                                               *)
LEMMA DeleteAndRestoreKeepInv ==
  ASSUME LibraryInv, NEW r \in Requests, DeleteEntry(r) \/ RestoreEntry(r)
  PROVE  LibraryInv'
<1>0. TypeOK /\ RequestsFit /\ HandsType
  BY HandsFacts DEF LibraryInv
<1>1. /\ req[r] = Idle /\ UNCHANGED <<texts, index, queue, fetch, rebuild, events, fate>>
      /\ \E i \in Present, op \in {"delete", "restore"} :
            LET at == IF op = "delete" THEN "trash" ELSE "live"
                stop == IF op = "delete" THEN "unindex" ELSE "reread"
            IN  /\ SetAt(i, at)
                /\ req' = [req EXCEPT ![r] = [Idle EXCEPT !.op = op, !.at = stop, !.id = i]]
  BY DEF DeleteEntry, RestoreEntry, Present
<1>2. PICK i \in Present, op \in {"delete", "restore"} :
        /\ SetAt(i, IF op = "delete" THEN "trash" ELSE "live")
        /\ req' = [req EXCEPT ![r] =
                     [Idle EXCEPT !.op = op,
                                  !.at = IF op = "delete" THEN "unindex" ELSE "reread",
                                  !.id = i]]
  BY <1>1
<1>. DEFINE at == IF op = "delete" THEN "trash" ELSE "live"
            new == [Idle EXCEPT !.op = op,
                                !.at = IF op = "delete" THEN "unindex" ELSE "reread",
                                !.id = i]
<1>3. /\ rows' \in [Ids -> Row] /\ rows'[i].at = at /\ i \in Ids
      /\ \A j \in Ids : rows'[j].text = rows[j].text /\ rows'[j].content = rows[j].content
      /\ \A j \in Ids \ {i} : rows'[j] = rows[j]
      /\ Present' = Present
  BY <1>0, <1>2, SetAtFacts
<1>4. /\ new \in Request /\ new.id = i /\ new.op = op
      /\ new.at = IF op = "delete" THEN "unindex" ELSE "reread"
      /\ new.docs = NoDocs /\ new.unsent = {}
  BY <1>3, DocFacts DEF Idle, Request, AllOps
<1>5. req' = [req EXCEPT ![r] = new]
  BY <1>2
<1>. HIDE DEF new
<1>a. RequestFits(new)
  BY <1>3, <1>4, DocFacts DEF RequestFits, Imports
<1>6. /\ req' \in [Requests -> Request] /\ RequestsFit'
      /\ req'[r] = new /\ \A q \in Requests \ {r} : req'[q] = req[q]
  BY <1>0, <1>4, <1>5, <1>a, MoveFacts
<1>7. \A j \in Ids : ~IndexedBy(r, j) /\ j \notin ToFetch(r)
  BY <1>0, <1>1, IdleFacts, InHand
<1>8. \A j \in Ids : j \notin Present => rows'[j] = rows[j]
  BY <1>3
<1>9. \A j \in Live' \ Live : BeingIndexed(j)'
  <2>1. \A j \in Live' \ Live : j = i /\ op = "restore"
    BY <1>3 DEF Live
  <2>. QED  BY <1>4, <1>6, <2>1 DEF BeingIndexed
<1>10. \A j \in Ids : BeingIndexed(j) => BeingIndexed(j)'
  BY <1>1, <1>3, <1>6, <1>7 DEF BeingIndexed, IndexedBy
<1>11. \A j \in Ids : WillBeFetched(j) => WillBeFetched(j)'
  BY <1>1, <1>6, <1>7, OneMoves
<1>12. HandsType'
  BY <1>0, <1>1, <1>6 DEF HandsType, FetchFits
<1>. QED  BY <1>1, <1>3, <1>4, <1>6, <1>8, <1>9, <1>10, <1>11, <1>12, TrashKeepsInv

(* BulkDelete.                                                              *)
LEMMA BulkDeleteKeepsInv ==
  ASSUME LibraryInv, NEW r \in Requests, BulkDelete(r)
  PROVE  LibraryInv'
<1>0. TypeOK /\ RequestsFit /\ HandsType
  BY HandsFacts DEF LibraryInv
<1>1. PICK S \in SUBSET Present :
        rows' = [i \in Ids |-> IF i \in S THEN Moved(rows[i], "trash") ELSE rows[i]]
  BY DEF BulkDelete, Moved
<1>2. UNCHANGED <<texts, index, queue, fetch, rebuild, events, fate>> /\ UNCHANGED req
  BY DEF BulkDelete
<1>3. \A i \in S : /\ Moved(rows[i], "trash") \in Row
                   /\ Moved(rows[i], "trash").at = "trash"
                   /\ Moved(rows[i], "trash").text = rows[i].text
                   /\ Moved(rows[i], "trash").content = rows[i].content
  <2> SUFFICES ASSUME NEW i \in S
               PROVE  /\ Moved(rows[i], "trash") \in Row
                      /\ Moved(rows[i], "trash").at = "trash"
                      /\ Moved(rows[i], "trash").text = rows[i].text
                      /\ Moved(rows[i], "trash").content = rows[i].content
    OBVIOUS
  <2>1. i \in Ids /\ rows[i] \in Row /\ rows[i].at \in {"live", "trash"}
    BY <1>0, PresentFacts
  <2>2. rows[i].content \in {"none", "some", "failed"} /\ rows[i].text \in {NoText} \cup Texts
        /\ (rows[i].content # "some" => rows[i].text = NoText)
    BY <2>1, RowFacts
  <2>. QED  BY <2>1, <2>2, ChangedRowFacts
<1>4. /\ rows' \in [Ids -> Row] /\ Present' = Present
      /\ \A j \in Ids : rows'[j].text = rows[j].text /\ rows'[j].content = rows[j].content
                        /\ (j \notin Present => rows'[j] = rows[j])
      /\ Live' \subseteq Live
  <2>1. \A j \in Ids : rows'[j] = IF j \in S THEN Moved(rows[j], "trash") ELSE rows[j]
    BY <1>1
  <2>2. DOMAIN rows' = Ids /\ rows' = [j \in Ids |-> rows'[j]]
    BY <1>1
  <2>3. \A j \in Ids : rows'[j] \in Row /\ rows'[j].text = rows[j].text
                       /\ rows'[j].content = rows[j].content
    BY <1>0, <1>3, <2>1 DEF TypeOK
  <2>. QED  BY <1>3, <2>1, <2>2, <2>3 DEF Present, Live, Trash
<1>5. HandsType'
  BY <1>0, <1>2 DEF HandsType, RequestsFit, FetchFits
<1>6. \A j \in Ids : BeingIndexed(j) => BeingIndexed(j)'
  BY <1>2, <1>4 DEF BeingIndexed
<1>7. \A j \in Ids : WillBeFetched(j) => WillBeFetched(j)'
  <2>1. \A q \in Requests : ToFetch(q)' = ToFetch(q)
    BY <1>2 DEF ToFetch
  <2>. QED  BY <1>2, <2>1 DEF WillBeFetched
<1>. QED  BY <1>2, <1>4, <1>5, <1>6, <1>7, TrashKeepsInv

-----------------------------------------------------------------------------
(* PurgeEntry: the row is gone, the document is a ghost until the deletion. *)
LEMMA PurgeEntryKeepsInv ==
  ASSUME LibraryInv, NEW r \in Requests, PurgeEntry(r)
  PROVE  LibraryInv'
<1>0. TypeOK /\ RequestsFit /\ HandsType
  BY HandsFacts DEF LibraryInv
<1>1. PICK i \in Trash :
        /\ rows' = [rows EXCEPT ![i] = Gone]
        /\ queue' = queue \ {i}
        /\ fate' = [fate EXCEPT ![i] = "ghost"]
        /\ req' = [req EXCEPT ![r] = [Idle EXCEPT !.op = "purge", !.at = "unindex", !.id = i]]
  BY DEF PurgeEntry, Erased
<1>2. req[r] = Idle /\ UNCHANGED <<texts, view, disk, fetch, rebuild, events>>
  BY DEF PurgeEntry, index
<1>. DEFINE new == [Idle EXCEPT !.op = "purge", !.at = "unindex", !.id = i]
<1>3. i \in Ids
  BY DEF Trash
<1>4. /\ new \in Request /\ new.id = i /\ new.at = "unindex" /\ new.op = "purge"
      /\ new.docs = NoDocs /\ new.unsent = {}
  BY <1>3, DocFacts DEF Idle, Request, AllOps
<1>5. req' = [req EXCEPT ![r] = new]
  BY <1>1
<1>. HIDE DEF new
<1>a. RequestFits(new)
  BY <1>3, <1>4, DocFacts DEF RequestFits, Imports
<1>6. /\ req' \in [Requests -> Request] /\ RequestsFit'
      /\ req'[r] = new /\ \A q \in Requests \ {r} : req'[q] = req[q]
  BY <1>0, <1>4, <1>5, <1>a, MoveFacts
<1>7. \A j \in Ids : ~IndexedBy(r, j) /\ j \notin ToFetch(r)
  BY <1>0, <1>2, IdleFacts, InHand
<1>8. /\ rows' \in [Ids -> Row] /\ rows'[i].at = "gone" /\ fate'[i] = "ghost"
      /\ fate' \in [Ids -> Fates]
      /\ \A j \in Ids \ {i} : rows'[j] = rows[j] /\ fate'[j] = fate[j]
      /\ i \notin Present' /\ \A j \in Ids \ {i} : j \in Present' <=> j \in Present
  BY <1>0, <1>1, <1>3, RowFacts DEF TypeOK, Fates, Present, Live, Trash
<1>9. TypeOK' /\ FetchFits'
  BY <1>0, <1>1, <1>2, <1>6, <1>8 DEF TypeOK, HandsType, FetchFits
<1>10. PurgeInv'
  BY <1>2, <1>4, <1>6, <1>8 DEF LibraryInv, PurgeInv, RequestsFit, RequestFits
<1>11. TextIsIndexed'
  <2> SUFFICES ASSUME NEW j \in Findable', view[j] # rows'[j].text PROVE BeingIndexed(j)'
    BY <1>2 DEF TextIsIndexed
  <2>1. j \in Findable /\ j # i /\ j \in Ids /\ rows'[j] = rows[j]
    BY <1>8 DEF Findable, Live
  <2>2. BeingIndexed(j)
    BY <2>1 DEF LibraryInv, TextIsIndexed
  <2>. QED  BY <1>2, <1>6, <1>7, <2>1, <2>2 DEF BeingIndexed, IndexedBy
<1>12. FetchInv'
  <2> SUFFICES ASSUME NEW j \in Ids, Blank(j)', fate'[j] # "cut"
               PROVE  WillBeFetched(j)'
    BY DEF FetchInv
  <2>1. j # i /\ Blank(j)
    BY <1>8 DEF Blank
  <2>2. WillBeFetched(j)
    BY <1>8, <2>1 DEF LibraryInv, FetchInv
  <2>3. \A q \in Requests \ {r} : ToFetch(q)' = ToFetch(q)
    BY <1>6 DEF ToFetch
  <2>. QED  BY <1>1, <1>2, <1>7, <2>1, <2>2, <2>3 DEF WillBeFetched
<1>. QED  BY <1>6, <1>9, <1>10, <1>11, <1>12 DEF LibraryInv

(* Unindex.                                                                 *)
LEMMA UnindexKeepsInv ==
  ASSUME LibraryInv, NEW r \in Requests, Unindex(r)
  PROVE  LibraryInv'
<1>0. TypeOK /\ RequestsFit /\ RequestFits(req[r]) /\ HandsType
  BY HandsFacts DEF LibraryInv, RequestsFit
<1>1. /\ req[r].at = "unindex" /\ view' = [view EXCEPT ![req[r].id] = NoDoc]
      /\ fate' = [fate EXCEPT ![req[r].id] =
                   IF req[r].id \notin Present THEN "well"
                   ELSE IF req[r].id \in Live /\ rows[req[r].id].text # NoText
                        THEN "hidden" ELSE @]
      /\ Goto(r, "commit") \/ Finish(r)
      /\ UNCHANGED <<rows, texts, disk, queue, fetch, rebuild, events>>
  BY DEF Unindex, table
<1>2. PICK i \in Ids : i = req[r].id
  BY <1>0, <1>1 DEF RequestFits
<1>3. /\ req' \in [Requests -> Request] /\ RequestsFit'
      /\ \A q \in Requests \ {r} : req'[q] = req[q]
      /\ req'[r].at = "idle" \/ (req'[r].at = "commit" /\ req'[r].id = i)
  <2>1. req[r].op # "export"
    BY <1>0, <1>1 DEF RequestFits
  <2>2. CASE Goto(r, "commit")
    BY <1>0, <1>1, <1>2, <2>1, <2>2, GotoFacts DEF Stops
  <2>3. CASE Finish(r)
    BY <1>0, <2>1, <2>3, FinishFacts
  <2>. QED  BY <1>1, <2>2, <2>3
<1>a. \A j \in Ids : ~IndexedBy(r, j) /\ j \notin ToFetch(r)
  <2>1. req[r].docs = NoDocs /\ req[r].unsent = {}
    BY <1>0, <1>1 DEF RequestFits
  <2>. QED  BY <1>0, <1>1, <2>1, InHand
<1>4. /\ fate' \in [Ids -> Fates] /\ \A j \in Ids \ {i} : fate'[j] = fate[j]
      /\ i \notin Present => fate'[i] = "well"
      /\ i \in Present => fate'[i] \in {fate[i], "hidden"}
      /\ i \in Live /\ rows[i].text # NoText => fate'[i] = "hidden"
      /\ rows[i].text = NoText /\ i \in Present => fate'[i] = fate[i]
  BY <1>0, <1>1, <1>2 DEF TypeOK, Fates, Present
<1>5. /\ Present' = Present /\ Live' = Live
      /\ view' \in [Ids -> Docs] /\ view'[i] = NoDoc /\ \A j \in Ids \ {i} : view'[j] = view[j]
  BY <1>0, <1>1, <1>2, DocFacts DEF Present, Live, Trash, TypeOK
<1>6. TypeOK' /\ FetchFits'
  BY <1>0, <1>1, <1>3, <1>4, <1>5 DEF TypeOK, HandsType, FetchFits
<1>7. PurgeInv'
  <2>1. \A j \in Ids : fate'[j] = "purged" => fate[j] = "purged"
    BY <1>4
  <2>2. rows[i].at # "unused"
    BY <1>1, <1>2 DEF LibraryInv, PurgeInv
  <2>3. \A q \in Requests : req'[q].at \in {"unindex", "commit"} => req'[q].id \in Ids
    BY <1>3 DEF RequestsFit, RequestFits
  <2>. QED  BY <1>1, <1>2, <1>3, <1>4, <1>5, <2>1, <2>2, <2>3 DEF LibraryInv, PurgeInv
<1>8. TextIsIndexed'
  <2> SUFFICES ASSUME NEW j \in Findable', view'[j] # rows[j].text PROVE BeingIndexed(j)'
    BY <1>1 DEF TextIsIndexed
  <2>1. j \in Live /\ j \in Ids /\ rows[j].text # NoText /\ fate'[j] # "hidden"
    BY <1>1, <1>5 DEF Findable, Live
  <2>2. j # i
    BY <1>4, <2>1
  <2>3. j \in Findable /\ view[j] # rows[j].text
    BY <1>4, <1>5, <2>1, <2>2 DEF Findable
  <2>4. BeingIndexed(j)
    BY <2>3 DEF LibraryInv, TextIsIndexed
  <2>. QED  BY <1>1, <1>3, <1>a, <2>1, <2>4, OneMoves
<1>9. FetchInv'
  <2> SUFFICES ASSUME NEW j \in Ids, Blank(j)', fate'[j] # "cut"
               PROVE  WillBeFetched(j)'
    BY DEF FetchInv
  <2>1. Blank(j)
    BY <1>1, <1>5 DEF Blank
  <2>2. fate[j] # "cut"
    BY <1>0, <1>4, <2>1, PresentFacts DEF Blank
  <2>3. WillBeFetched(j)
    BY <2>1, <2>2 DEF LibraryInv, FetchInv
  <2>. QED  BY <1>1, <1>3, <1>a, <2>3, OneMoves
<1>. QED  BY <1>3, <1>6, <1>7, <1>8, <1>9 DEF LibraryInv

(* CommitPurge.                                                             *)
LEMMA CommitPurgeKeepsInv ==
  ASSUME LibraryInv, NEW r \in Requests, CommitPurge(r)
  PROVE  LibraryInv'
<1>0. TypeOK /\ RequestsFit /\ RequestFits(req[r]) /\ HandsType /\ Live \subseteq Ids
  BY HandsFacts, PresentFacts DEF LibraryInv, RequestsFit
<1>1. /\ req[r].at = "commit" /\ disk' = view /\ Finish(r)
      /\ fate' = [fate EXCEPT ![req[r].id] =
                   IF req[r].id \notin Present /\ @ = "well" THEN "purged" ELSE @]
      /\ UNCHANGED <<table, view, queue, fetch, events>> /\ UNCHANGED <<rows, rebuild>>
  BY DEF CommitPurge, Committed, table
<1>2. PICK i \in Ids : i = req[r].id
  BY <1>0, <1>1 DEF RequestFits
<1>3. \A j \in Ids : ~IndexedBy(r, j) /\ j \notin ToFetch(r)
  <2>1. req[r].docs = NoDocs /\ req[r].unsent = {}
    BY <1>0, <1>1 DEF RequestFits
  <2>. QED  BY <1>0, <1>1, <2>1, InHand
<1>4. /\ req' \in [Requests -> Request] /\ RequestsFit'
      /\ \A q \in Requests \ {r} : req'[q] = req[q]
      /\ req'[r].at = "idle"
  BY <1>0, <1>1, FinishFacts
<1>5. /\ fate' \in [Ids -> Fates] /\ \A j \in Ids \ {i} : fate'[j] = fate[j]
      /\ fate'[i] = fate[i] \/ (i \notin Present /\ fate[i] = "well" /\ fate'[i] = "purged")
  BY <1>0, <1>1, <1>2 DEF TypeOK, Fates
<1>6. i \notin Present /\ fate[i] = "well" => view[i] = NoDoc /\ rows[i].at = "gone"
  <2>1. rows[i].at # "unused" /\ rows[i] \in Row
    BY <1>0, <1>1, <1>2 DEF LibraryInv, PurgeInv, TypeOK
  <2>2. i \notin Present => rows[i].at = "gone"
    BY <2>1, RowFacts DEF Present, Live, Trash
  <2>. QED  BY <1>1, <1>2, <2>2 DEF LibraryInv, PurgeInv
<1>7. HandsType' /\ NoPurgeBegins
  BY <1>0, <1>1, <1>4 DEF NoPurgeBegins, HandsType, FetchFits
<1>8. /\ \A j \in Live : BeingIndexed(j) => BeingIndexed(j)'
      /\ \A j \in Ids : WillBeFetched(j) => WillBeFetched(j)'
  BY <1>0, <1>1, <1>3, <1>4, OneMoves
<1>9. disk' \in [Ids -> Docs] /\ \A j \in Ids : disk'[j] \in {disk[j], view[j]}
  BY <1>0, <1>1 DEF TypeOK
<1>. QED  BY <1>1, <1>5, <1>6, <1>7, <1>8, <1>9, CommitsKeepInv

-----------------------------------------------------------------------------
(* StartFetch, SaveText, FetchFails.                                        *)
LEMMA FetchStepsKeepInv ==
  ASSUME LibraryInv, StartFetch \/ SaveText \/ FetchFails
  PROVE  LibraryInv'
<1>0. TypeOK /\ RequestsFit /\ HandsType
  BY HandsFacts DEF LibraryInv
<1>1. CASE StartFetch
  <2>1. PICK i \in queue : /\ fetch' = [NoFetch EXCEPT !.at = "fetching", !.id = i]
                           /\ queue' = queue \ {i}
    BY <1>1 DEF StartFetch
  <2>2. /\ fetch.at = "idle"
        /\ UNCHANGED <<rows, texts, view, disk, req, rebuild, events, fate>>
        /\ i \in Ids
    BY <1>0, <1>1 DEF StartFetch, NoFetch, index, table, TypeOK
  <2>3. /\ Present' = Present /\ Live' = Live /\ Findable' = Findable
        /\ \A j \in Ids : Blank(j)' <=> Blank(j)
        /\ \A q \in Requests : ToFetch(q)' = ToFetch(q)
    BY <2>2 DEF Present, Live, Trash, Findable, Blank, ToFetch
  <2>a. fetch'.at = "fetching" /\ fetch'.id = i
        /\ fetch' \in [at : {"idle", "fetching", "saved"}, id : Ids \cup {NoId}, doc : Docs]
    BY <2>1, <2>2, DocFacts DEF NoFetch
  <2>4. TypeOK' /\ FetchFits' /\ RequestsFit'
    BY <1>0, <2>1, <2>2, <2>a DEF TypeOK, FetchFits, RequestsFit
  <2>5. PurgeInv'
    BY <2>2, <2>3 DEF LibraryInv, PurgeInv
  <2>6. TextIsIndexed'
    <3>1. \A j \in Ids : BeingIndexed(j) => BeingIndexed(j)'
      BY <2>2 DEF BeingIndexed
    <3>. QED  BY <2>2, <2>3, <3>1 DEF LibraryInv, TextIsIndexed, Findable, Live
  <2>7. FetchInv'
    <3> SUFFICES ASSUME NEW j \in Ids, Blank(j), fate[j] # "cut"
                 PROVE  WillBeFetched(j)'
      BY <2>2, <2>3 DEF FetchInv
    <3>1. WillBeFetched(j)
      BY DEF LibraryInv, FetchInv
    <3>. QED  BY <2>1, <2>2, <2>3, <2>a, <3>1 DEF WillBeFetched
  <2>. QED  BY <2>4, <2>5, <2>6, <2>7 DEF LibraryInv
<1>2. CASE SaveText \/ FetchFails
  <2>1. /\ fetch.at = "fetching" /\ UNCHANGED <<index, queue, rebuild, events>>
        /\ UNCHANGED req
        /\ \/ /\ WriteContent(fetch.id, "some", texts + 1, "well")
              /\ fetch' = [fetch EXCEPT !.at = "saved", !.doc = texts + 1]
              /\ texts < MaxTexts /\ texts' = texts + 1
           \/ /\ WriteContent(fetch.id, "failed", NoText, "well")
              /\ fetch' = NoFetch /\ texts' = texts
    BY <1>2 DEF SaveText, FetchFails
  <2>2. PICK i \in Ids : i = fetch.id
    BY <2>1 DEF LibraryInv, FetchFits
  <2>3. /\ fetch \in [at : {"idle", "fetching", "saved"}, id : Ids \cup {NoId}, doc : Docs]
        /\ texts \in 0..MaxTexts
        /\ \A q \in Requests : ToFetch(q)' = ToFetch(q)
    BY <1>0, <2>1 DEF TypeOK, ToFetch
  <2>4. \A j \in Ids \ {i} : WillBeFetched(j) => WillBeFetched(j)'
    BY <2>1, <2>2, <2>3 DEF WillBeFetched
  <2>5. \A j \in Ids : rows'[j] = rows[j] /\ BeingIndexed(j) => BeingIndexed(j)'
    BY <2>1 DEF BeingIndexed
  <2>6. CASE /\ WriteContent(i, "some", texts + 1, "well")
             /\ fetch' = [fetch EXCEPT !.at = "saved", !.doc = texts + 1]
             /\ texts < MaxTexts /\ texts' = texts + 1
    <3>1. /\ texts + 1 \in Texts /\ texts' \in 0..MaxTexts
      BY <2>3, <2>6, LibraryAssumption DEF Texts
    <3>2. /\ fetch' \in [at : {"idle", "fetching", "saved"}, id : Ids \cup {NoId}, doc : Docs]
          /\ fetch'.at = "saved" /\ fetch'.id = i /\ fetch'.doc = texts + 1
      BY <2>2, <2>3, <2>6, <3>1, DocFacts
    <3>3. HandsType' /\ NoPurgeBegins
      BY <1>0, <2>1, <3>2 DEF HandsType, FetchFits, RequestsFit, NoPurgeBegins
    <3>4. rows'[i].text = texts + 1 => BeingIndexed(i)'
      BY <3>2 DEF BeingIndexed
    <3>. DEFINE text == texts + 1
    <3>5. text \in {NoText} \cup Texts /\ WriteContent(i, "some", text, "well")
          /\ (rows'[i].text = text => BeingIndexed(i)')
      BY <2>6, <3>1, <3>4
    <3>. HIDE DEF text
    <3>. QED  BY <2>1, <2>4, <2>5, <3>1, <3>3, <3>5, WriteContentKeepsInv
  <2>7. CASE /\ WriteContent(i, "failed", NoText, "well")
             /\ fetch' = NoFetch /\ texts' = texts
    <3>1. HandsType' /\ NoPurgeBegins
      BY <1>0, <2>1, <2>7, DocFacts DEF HandsType, FetchFits, RequestsFit, NoPurgeBegins, NoFetch
    <3>. QED  BY <2>1, <2>3, <2>4, <2>5, <2>7, <3>1, WriteContentKeepsInv
  <2>. QED  BY <2>1, <2>2, <2>6, <2>7
<1>. QED  BY <1>1, <1>2

-----------------------------------------------------------------------------
(* CommitIndex, CommitClear, SelectLive, RebuildDone: commits, or less than *)
(* that.                                                                    *)
LEMMA CommitStepsKeepInv ==
  ASSUME LibraryInv, CommitIndex \/ CommitClear \/ SelectLive \/ RebuildDone
  PROVE  LibraryInv'
<1>0. TypeOK /\ RequestsFit /\ HandsType /\ Live \subseteq Ids
      /\ \A j \in Ids : rows[j].text \in Docs /\ rows[j].text # NoDoc
  BY HandsFacts, PresentFacts DEF LibraryInv
<1>. DEFINE todo == [i \in Ids |-> IF i \in Live THEN rows[i].text ELSE NoDoc]
<1>1. /\ UNCHANGED <<table, view, queue, fetch, events>> /\ UNCHANGED <<rows, req, fate>>
      /\ disk' \in {disk, view}
      /\ \/ UNCHANGED rebuild
         \/ rebuild.at = "commit" /\ rebuild' = [rebuild EXCEPT !.at = "select"]
         \/ rebuild.at = "select" /\ rebuild' = [rebuild EXCEPT !.at = "index", !.todo = todo]
         \/ rebuild.at = "index" /\ Unbuilt = {} /\ rebuild' = NoRebuild
  BY DEF CommitIndex, CommitClear, SelectLive, RebuildDone, index, table
<1>a. /\ todo \in [Ids -> Docs] /\ \A j \in Live : todo[j] = rows[j].text
  BY <1>0, DocFacts
<1>. HIDE DEF todo
<1>2. /\ rebuild' \in [kind : {"none", "restore", "reindex"},
                       at : {"idle", "clear", "commit", "select", "index"},
                       todo : [Ids -> Docs]]
      /\ \/ UNCHANGED rebuild
         \/ rebuild'.at = "select"
         \/ rebuild'.todo = todo
         \/ rebuild.at = "index" /\ Unbuilt = {}
  <2>2. CASE rebuild' = [rebuild EXCEPT !.at = "index", !.todo = todo]
    BY <1>0, <1>a, <2>2 DEF HandsType
  <2>3. CASE rebuild' = [rebuild EXCEPT !.at = "select"]
    BY <1>0, <2>3 DEF HandsType
  <2>. QED  BY <1>0, <1>1, <2>2, <2>3, DocFacts DEF HandsType, NoRebuild
<1>3. \A j \in Live : BeingIndexed(j) => BeingIndexed(j)'
  <2> SUFFICES ASSUME NEW j \in Live, BeingIndexed(j) PROVE BeingIndexed(j)'
    OBVIOUS
  <2>1. CASE UNCHANGED rebuild
    BY <1>1, <2>1 DEF BeingIndexed
  <2>2. CASE rebuild'.at = "select"
    BY <2>2 DEF BeingIndexed
  <2>3. CASE rebuild'.todo = todo
    BY <1>1, <1>a, <2>3 DEF BeingIndexed
  <2>4. CASE rebuild.at = "index" /\ Unbuilt = {}
    <3>1. rebuild.todo[j] # rows[j].text
      BY <1>0, <2>4 DEF Unbuilt
    <3>. QED  BY <1>1, <2>4, <3>1 DEF BeingIndexed
  <2>. QED  BY <1>2, <2>1, <2>2, <2>3, <2>4
<1>4. \A j \in Ids : WillBeFetched(j) => WillBeFetched(j)'
  <2>1. \A q \in Requests : ToFetch(q)' = ToFetch(q)
    BY <1>1 DEF ToFetch
  <2>. QED  BY <1>1, <2>1 DEF WillBeFetched
<1>5. HandsType' /\ NoPurgeBegins
  BY <1>0, <1>1, <1>2 DEF HandsType, FetchFits, RequestsFit, NoPurgeBegins
<1>6. /\ disk' \in [Ids -> Docs] /\ \A j \in Ids : disk'[j] \in {disk[j], view[j]}
      /\ fate' \in [Ids -> Fates]
  BY <1>0, <1>1 DEF TypeOK
<1>. QED  BY <1>1, <1>3, <1>4, <1>5, <1>6, CommitsKeepInv

(* Reindex, ClearIndex: everything will be indexed.                         *)
LEMMA ClearKeepsInv ==
  ASSUME LibraryInv, Reindex \/ ClearIndex
  PROVE  LibraryInv'
<1>0. TypeOK /\ RequestsFit /\ HandsType
  BY HandsFacts DEF LibraryInv
<1>1. /\ UNCHANGED <<rows, texts, disk, queue, fetch, req, fate>> /\ view' \in {view, NoDocs}
      /\ events' \in 0..MaxEvents
      /\ \/ rebuild' = [NoRebuild EXCEPT !.kind = "reindex", !.at = "clear"]
         \/ \E at \in {"commit", "select"} : rebuild' = [rebuild EXCEPT !.at = at]
  BY <1>0, LibraryAssumption DEF Reindex, ClearIndex, index, table, TypeOK
<1>2. /\ rebuild' \in [kind : {"none", "restore", "reindex"},
                       at : {"idle", "clear", "commit", "select", "index"},
                       todo : [Ids -> Docs]]
      /\ rebuild'.at \in {"clear", "commit", "select"}
  BY <1>0, <1>1, DocFacts DEF HandsType, NoRebuild
<1>3. /\ Present' = Present /\ \A j \in Ids : Blank(j)' <=> Blank(j)
      /\ \A q \in Requests : ToFetch(q)' = ToFetch(q)
  BY <1>1 DEF Present, Live, Trash, Blank, ToFetch
<1>a. view' \in [Ids -> Docs] /\ \A j \in Ids : view'[j] \in {view[j], NoDoc}
  BY <1>0, <1>1, DocFacts DEF TypeOK
<1>4. TypeOK' /\ FetchFits' /\ RequestsFit'
  BY <1>0, <1>1, <1>2, <1>a DEF HandsType, TypeOK, FetchFits, RequestsFit
<1>5. PurgeInv'
  <2>1. \A q \in Requests : req[q].at \in {"unindex", "commit"} => req[q].id \in Ids
    BY <1>0 DEF RequestsFit, RequestFits
  <2>. QED  BY <1>1, <1>3, <1>a, <2>1 DEF LibraryInv, PurgeInv
<1>6. TextIsIndexed'
  BY <1>2 DEF TextIsIndexed, BeingIndexed
<1>7. FetchInv'
  <2>1. \A j \in Ids : WillBeFetched(j) => WillBeFetched(j)'
    BY <1>1, <1>3 DEF WillBeFetched
  <2>. QED  BY <1>1, <1>3, <2>1 DEF LibraryInv, FetchInv
<1>. QED  BY <1>4, <1>5, <1>6, <1>7 DEF LibraryInv

(* ReplaceTables: what comes back without content is cut off, what goes     *)
(* leaves a ghost, and the index will be rebuilt.                           *)
LEMMA ReplaceTablesKeepsInv ==
  ASSUME LibraryInv, ReplaceTables
  PROVE  LibraryInv'
<1>0. TypeOK /\ RequestsFit /\ HandsType
  BY HandsFacts DEF LibraryInv
<1>1. /\ rows' \in Restorable /\ queue' = {}
      /\ rebuild' = [NoRebuild EXCEPT !.kind = "restore", !.at = "clear"]
      /\ fate' = [i \in Ids |->
                   IF i \in Present' THEN IF rows'[i].content = "none" THEN "cut" ELSE "well"
                   ELSE IF i \in Present THEN "ghost" ELSE fate[i]]
      /\ UNCHANGED <<texts, view, disk, fetch, req>>
      /\ events < MaxEvents /\ events' = events + 1
  BY DEF ReplaceTables, index
<1>2. /\ rows' \in [Ids -> Row]
      /\ \A i \in Ids : rows'[i] = Unused <=> rows[i] = Unused
  <2>1. 0..texts \subseteq {NoText} \cup Texts
    BY <1>0, LibraryAssumption DEF TypeOK, NoText, Texts
  <2>2. Saved \subseteq Row
    BY <2>1 DEF Saved, Row
  <2>. QED  BY <1>1, <2>2, RowFacts DEF Restorable
<1>3. \A i \in Ids : /\ i \in Present' /\ rows'[i].content = "none" => fate'[i] = "cut"
                     /\ i \in Present' => fate'[i] \in {"cut", "well"}
                     /\ i \notin Present' => fate'[i] = "ghost"
                                             \/ (i \notin Present /\ fate'[i] = fate[i])
  BY <1>1
<1>4. fate' \in [Ids -> Fates]
  BY <1>0, <1>1 DEF TypeOK, Fates
<1>a. /\ rebuild' \in [kind : {"none", "restore", "reindex"},
                       at : {"idle", "clear", "commit", "select", "index"},
                       todo : [Ids -> Docs]]
      /\ rebuild'.at = "clear"
  BY <1>1, DocFacts DEF NoRebuild
<1>5. TypeOK' /\ FetchFits' /\ RequestsFit'
  BY <1>0, <1>1, <1>2, <1>4, <1>a, LibraryAssumption
     DEF TypeOK, HandsType, FetchFits, RequestsFit
<1>6. \A i \in Ids : /\ rows'[i].at = "unused" <=> rows[i].at = "unused"
                     /\ i \in Present' <=> rows'[i].at \in {"live", "trash"}
                     /\ i \in Present <=> rows[i].at \in {"live", "trash"}
                     /\ rows'[i].at \in {"unused", "live", "trash", "gone"}
                     /\ rows[i].at \in {"unused", "live", "trash", "gone"}
  BY <1>0, <1>2, RowFacts DEF TypeOK, Present, Live, Trash
<1>7. PurgeInv'
  <2>1. \A i \in Ids : fate'[i] = "purged" => fate[i] = "purged" /\ i \notin Present'
    BY <1>3
  <2>2. \A i \in Ids : fate'[i] = "purged" =>
            view[i] = NoDoc /\ disk[i] = NoDoc /\ rows'[i].at = "gone"
    BY <1>6, <2>1 DEF LibraryInv, PurgeInv
  <2>3. \A q \in Requests : req[q].at \in {"unindex", "commit"} =>
            req[q].id \in Ids /\ rows'[req[q].id].at # "unused"
    BY <1>0, <1>6 DEF LibraryInv, PurgeInv, RequestsFit, RequestFits
  <2>4. \A q \in Requests :
          req[q].at = "commit" /\ req[q].id \notin Present' /\ fate'[req[q].id] = "well"
             => view[req[q].id] = NoDoc
    BY <1>3, <2>3 DEF LibraryInv, PurgeInv
  <2>. QED  BY <1>1, <2>2, <2>3, <2>4 DEF PurgeInv
<1>8. TextIsIndexed'
  BY <1>a DEF TextIsIndexed, BeingIndexed
<1>9. FetchInv'
  BY <1>3 DEF FetchInv, Blank
<1>. QED  BY <1>5, <1>7, <1>8, <1>9 DEF LibraryInv

(* Crash: what was not committed is hidden, what is not queued cut off.     *)
LEMMA CrashKeepsInv ==
  ASSUME LibraryInv, Crash
  PROVE  LibraryInv'
<1>0. TypeOK /\ RequestsFit
  BY DEF LibraryInv
<1>1. /\ view' = disk /\ queue' = queue \cup ({fetch.id} \cap Present)
      /\ fetch' = NoFetch /\ req' = [r \in Requests |-> Idle] /\ rebuild' = NoRebuild
      /\ fate' = [i \in Ids |->
                   IF Blank(i) /\ i \notin queue' THEN "cut"
                   ELSE IF i \in Present /\ rows[i].text \notin {NoText, disk[i]} THEN "hidden"
                   ELSE fate[i]]
      /\ UNCHANGED <<rows, texts, disk>>
      /\ events < MaxEvents /\ events' = events + 1
  BY DEF Crash, table
<1>2. /\ Present' = Present /\ Live' = Live /\ Present \subseteq Ids /\ Live \subseteq Present
      /\ \A j \in Ids : Blank(j)' <=> Blank(j)
  BY <1>1 DEF Present, Live, Trash, Blank
<1>3. \A r \in Requests : req'[r].at = "idle" /\ RequestFits(req'[r]) /\ req'[r] \in Request
  BY <1>1, IdleFacts
<1>4. \A i \in Ids :
        /\ Blank(i) => i \in queue' \/ fate'[i] = "cut"
        /\ i \in Present /\ rows[i].text \notin {NoText, disk[i]} =>
              fate'[i] = "hidden"
        /\ fate'[i] \in {"cut", "hidden", fate[i]}
  <2>1. \A i \in Ids : Blank(i) => rows[i].text = NoText
    BY <1>0, PresentFacts
  <2>. QED  BY <1>1, <2>1
<1>5. fate' \in [Ids -> Fates]
  BY <1>0, <1>1 DEF TypeOK, Fates
<1>6. TypeOK' /\ FetchFits' /\ RequestsFit'
  BY <1>0, <1>1, <1>2, <1>3, <1>5, LibraryAssumption, IdleFacts, DocFacts
     DEF TypeOK, FetchFits, RequestsFit, NoFetch, NoRebuild
<1>7. PurgeInv'
  BY <1>1, <1>3, <1>4 DEF LibraryInv, PurgeInv
<1>8. TextIsIndexed'
  <2>1. \A i \in Findable' : view'[i] = rows'[i].text
    BY <1>1, <1>2, <1>4 DEF Findable
  <2>. QED  BY <2>1 DEF TextIsIndexed
<1>9. FetchInv'
  BY <1>2, <1>4 DEF FetchInv, WillBeFetched
<1>. QED  BY <1>6, <1>7, <1>8, <1>9 DEF LibraryInv

-----------------------------------------------------------------------------
(* All of it holds at the start, when there is nothing.                     *)
LEMMA InitMakesInv == Init => LibraryInv
<1> SUFFICES ASSUME Init PROVE LibraryInv
  OBVIOUS
<1>1. /\ rows = [i \in Ids |-> Unused] /\ texts = 0
      /\ view = NoDocs /\ disk = NoDocs /\ queue = {}
      /\ fetch = NoFetch /\ req = [r \in Requests |-> Idle] /\ rebuild = NoRebuild
      /\ events = 0 /\ fate = [i \in Ids |-> "well"]
  BY DEF Init
<1>2. \A i \in Ids : rows[i].at = "unused"
  BY <1>1, RowFacts
<1>3. Present = {} /\ Findable = {} /\ \A i \in Ids : ~Blank(i)
  BY <1>2 DEF Present, Live, Trash, Findable, Blank
<1>4. TypeOK /\ FetchFits
  BY <1>1, RowFacts, IdleFacts, DocFacts, LibraryAssumption
     DEF TypeOK, FetchFits, NoFetch, NoRebuild, Fates
<1>5. RequestsFit /\ \A r \in Requests : req[r].at = "idle"
  BY <1>1, IdleFacts DEF RequestsFit
<1>. QED  BY <1>1, <1>3, <1>4, <1>5 DEF LibraryInv, PurgeInv, TextIsIndexed, FetchInv

(* And every step keeps it.                                                 *)
LEMMA NextKeepsInv == LibraryInv /\ [Next]_vars => LibraryInv'
<1> SUFFICES ASSUME LibraryInv, [Next]_vars PROVE LibraryInv'
  OBVIOUS
<1>1. ASSUME NEW r \in Requests, OpenRequest(r) PROVE LibraryInv'
  BY <1>1, InsertsKeepInv, PlainMoves, DeleteAndRestoreKeepInv, BulkDeleteKeepsInv,
     PurgeEntryKeepsInv DEF OpenRequest
<1>2. ASSUME NEW r \in Requests, RequestStep(r) PROVE LibraryInv'
  BY <1>2, InsertsKeepInv, PlainMoves, LookUpKeepsInv, FillInKeepsInv, SetPromotedKeepsInv,
     RequestUpserts, SendKeepsInv, FlushFetchesKeepsInv, StatementFailsKeepsInv,
     UnindexKeepsInv, CommitPurgeKeepsInv, RereadKeepsInv DEF RequestStep
<1>3. CASE FetchStep
  BY <1>3, FetchStepsKeepInv, BackgroundUpserts DEF FetchStep
<1>4. CASE CommitIndex \/ Reindex \/ RebuildStep
  BY <1>4, CommitStepsKeepInv, ClearKeepsInv, BackgroundUpserts DEF RebuildStep
<1>5. CASE ReplaceTables \/ Crash
  BY <1>5, ReplaceTablesKeepsInv, CrashKeepsInv
<1>6. CASE (\E r \in Requests : Drop(r)) \/ DropRebuild
  BY <1>6, DropKeepsInv, DropRebuildKeepsInv
<1>7. CASE UNCHANGED vars
  BY <1>7 DEF vars, LibraryInv, TypeOK, RequestsFit, FetchFits, PurgeInv, TextIsIndexed,
       FetchInv, Findable, Present, Live, Trash, Blank, BeingIndexed, WillBeFetched, ToFetch
<1>. QED  BY <1>1, <1>2, <1>3, <1>4, <1>5, <1>6, <1>7 DEF Next

(* What requests have in hand, who is to index and who to fetch fits the    *)
(* tables and the index in every reachable state, also when handlers are    *)
(* dropped and older texts come late.                                       *)
THEOREM LibraryInvariant == Spec => []LibraryInv
<1>1. Init => LibraryInv
  BY InitMakesInv
<1>2. LibraryInv /\ [Next]_vars => LibraryInv'
  BY NextKeepsInv
<1>. QED  BY <1>1, <1>2, PTL DEF Spec

(* Every variable keeps its type.                                           *)
THEOREM TypeCorrect == Spec => []TypeOK
<1>1. LibraryInv => TypeOK
  BY DEF LibraryInv
<1>. QED  BY <1>1, LibraryInvariant, PTL

(* A live entry with text is in the index with that very text, or about to  *)
(* be, however saves, fetches, deletions, imports, rebuilds and dropped     *)
(* requests interleave (search.rs).                                         *)
THEOREM TextIsIndexedHolds == Spec => []TextIsIndexed
<1>1. LibraryInv => TextIsIndexed
  BY DEF LibraryInv
<1>. QED  BY <1>1, LibraryInvariant, PTL

(* An entry without content is going to be fetched, unless a crash, a       *)
(* failing statement, the restore of a backup or the end of its request cut *)
(* it off (entry.rs).                                                       *)
THEOREM NoEntryForgottenHolds == Spec => []NoEntryForgotten
<1>1. ASSUME NEW i \in Ids, WillBeFetched(i) PROVE BeingFetched(i)
  BY <1>1 DEF WillBeFetched, BeingFetched, ToFetch
<1>2. LibraryInv => NoEntryForgotten
  BY <1>1 DEF LibraryInv, FetchInv, NoEntryForgotten
<1>. QED  BY <1>2, LibraryInvariant, PTL

(* What was purged is not on disk once its purge is over (entries.rs).      *)
THEOREM PurgeReachesDiskHolds == Spec => []PurgeReachesDisk
<1>1. LibraryInv => PurgeReachesDisk
  BY DEF LibraryInv, TypeOK, PurgeInv, PurgeReachesDisk
<1>. QED  BY <1>1, LibraryInvariant, PTL
=============================================================================
