----------------------------- MODULE TagsProofs -----------------------------
(***************************************************************************)
(* What is proved of Tags, for every number of entries, tags, labels,       *)
(* rules and requests, any of which may be dropped: its type, that a stale  *)
(* list whose writer was not dropped is owed an invalidation, and that      *)
(* tagging and untagging leave nothing out.                                 *)
(***************************************************************************)
EXTENDS Tags, TLAPS, FiniteSetTheorems

-----------------------------------------------------------------------------
(* The inductive invariant.                                                 *)

(* Links join entries and tags; the unique index on slugs.                  *)
LinksArePairs == links \subseteq Entries \X TagIds

SlugsAreUnique ==
    \A t, u \in TagRows : Slug[tags[t]] = Slug[tags[u]] => t = u

(* The request has just created the tag of the pair it is at.               *)
Created(q) == q.op \in {"apply", "add"} /\ q.at = "invalidate" /\ q.tag # NoTag

(* It is at a pair.                                                         *)
InHand(q) ==
    \/ q.at \in {"find", "create", "link", "look"} \/ Created(q)
    \/ q.at = "unlink" /\ q.op = "untag"

(* What each place of a request says of its fields.                         *)
PlaceFits(q) ==
    /\ q.owes # {} => q.at = "invalidate"
    /\ q.at = "insert" => q.op \in {"list", "apply"}
    /\ q.at = "next" => q.op \in {"apply", "add", "remove", "untag"}
    /\ q.at \in {"find", "create", "link"} => q.op \in {"apply", "add"}
    /\ q.at = "look" => q.op = "untag"
    /\ q.at = "link_all" => q.op = "bulk_tag"
    /\ q.at = "unlink" => q.op \in {"remove", "untag"} /\ q.entry \in Entries
                          /\ q.tag \in TagIds
    /\ q.at = "rename" => q.tag \in TagIds /\ q.label \in Labels /\ q.op = "rename"
    /\ q.at = "update" => q.old \in Rules /\ q.op = "update_rule"
    /\ q.at = "link" => q.tag \in TagIds
    /\ q.at = "invalidate" /\ q.op \in {"remove", "untag"} => q.tag = NoTag

WorkFits(q) ==
    /\ q.todo \subseteq q.ids \X q.asked
    /\ InHand(q) => q.entry \in q.ids /\ q.label \in q.asked
    /\ q.at = "done" \/ q.op = "bulk_tag" => q.todo = {}
    /\ q.op = "add" => \E e \in Entries, l \in Labels : q.ids = {e} /\ q.asked = {l}
    /\ q.op \in {"remove", "rename", "update_rule"} => q.ids = {}
    /\ q.op = "bulk_tag" => q.at \in {"link_all", "invalidate", "done"}

(* The tag a request that is alone has found, created or not found.         *)
TagIsHeld(q) ==
    q.alone =>
        /\ q.at = "create" => SlugRows(q.label) = {}
        /\ q.at = "link" \/ Created(q) => q.tag \in SlugRows(q.label)
        /\ q.at = "unlink" /\ q.op = "untag" => q.tag \in LabelRows(q.label)

(* Pairs a request no longer has to do are done.                            *)
PairsTagged(q) ==
    q.alone /\ q.op \in {"apply", "add", "bulk_tag"} /\ q.at \notin {"insert", "link_all"} =>
        \A e \in q.ids, l \in q.asked :
            e \in entries /\ <<e, l>> \notin q.todo => Tagged(e, l)

PairsUntagged(q) ==
    q.alone /\ q.op = "untag" =>
        \A e \in q.ids, l \in q.asked :
            <<e, l>> \notin q.todo => \A t \in LabelRows(l) : <<e, t>> \notin links

RequestInv(q) ==
    PlaceFits(q) /\ WorkFits(q) /\ TagIsHeld(q) /\ PairsTagged(q) /\ PairsUntagged(q)

TagsInv ==
    /\ TypeOK /\ LinksArePairs /\ SlugsAreUnique /\ ListsAreCurrent
    /\ \A r \in Requests : RequestInv(req[r])

-----------------------------------------------------------------------------
(* Records and tables.                                                      *)

(* Idle is a request.                                                       *)
LEMMA IdleFits ==
    /\ Idle \in Request
    /\ Idle.op = "none" /\ Idle.at = "idle" /\ Idle.owes = {} /\ Idle.ids = {}
    /\ Idle.todo = {} /\ Idle.asked = {} /\ Idle.tag = NoTag /\ Idle.old = NoTag
    /\ Idle.entry = NoTag /\ Idle.label = NoTag
BY DEF Idle, Request, AllOps, Lists

(* A record that ends with what another was asked.                          *)
Ended(p, q) == [p EXCEPT !.op = q.op, !.at = "done", !.ids = q.ids,
                         !.asked = q.asked, !.alone = q.alone]

(* It is a request.                                                         *)
LEMMA EndFits ==
    ASSUME NEW p \in Request, NEW q \in Request
    PROVE  /\ Ended(p, q) \in Request /\ Ended(p, q).at = "done"
           /\ Ended(p, q).op = q.op /\ Ended(p, q).ids = q.ids
           /\ Ended(p, q).asked = q.asked /\ Ended(p, q).alone = q.alone
           /\ Ended(p, q).todo = p.todo /\ Ended(p, q).owes = p.owes
           /\ Ended(p, q).tag = p.tag
BY DEF Request, Ended

(* A request that has ended keeps at most what it was asked.                *)
LEMMA DoneFits ==
    ASSUME NEW q \in Request
    PROVE  /\ Done(q) \in Request
           /\ Done(q) = Idle \/ /\ Done(q).at = "done" /\ Done(q).op = q.op
                                /\ Done(q).ids = q.ids /\ Done(q).asked = q.asked
                                /\ Done(q).todo = {} /\ Done(q).owes = {}
                                /\ Done(q).alone = q.alone /\ Done(q).tag = NoTag
<1>1. CASE q.ids = {}
  BY <1>1, IdleFits DEF Done
<1>2. CASE q.ids # {}
  <2>1. Done(q) = Ended(Idle, q)
    BY <1>2 DEF Done, Ended
  <2> QED BY <2>1, IdleFits, EndFits
<1> QED BY <1>1, <1>2

(* A pair is struck and nothing is in hand.                                 *)
LEMMA StrikeFits ==
    ASSUME NEW q \in Request
    PROVE  /\ Strike(q) \in Request
           /\ Strike(q).at = "next" /\ Strike(q).op = q.op
           /\ Strike(q).ids = q.ids /\ Strike(q).asked = q.asked
           /\ Strike(q).todo = q.todo \ {<<q.entry, q.label>>}
           /\ Strike(q).owes = q.owes /\ Strike(q).alone = q.alone
           /\ Strike(q).tag = NoTag /\ Strike(q).old = q.old
BY DEF Strike, Request

(* The record of a request of which another may have crossed the work.      *)
Touched(q, d, a) == [q EXCEPT !.read = d, !.alone = a]

(* It is the same but for that.                                             *)
LEMMA TouchFits ==
    ASSUME NEW q \in Request, NEW d \in {"fresh", "stale"}, NEW a \in BOOLEAN
    PROVE  /\ Touched(q, d, a) \in Request /\ Touched(q, d, a).alone = a
           /\ Touched(q, d, a).op = q.op /\ Touched(q, d, a).at = q.at
           /\ Touched(q, d, a).ids = q.ids /\ Touched(q, d, a).asked = q.asked
           /\ Touched(q, d, a).todo = q.todo /\ Touched(q, d, a).entry = q.entry
           /\ Touched(q, d, a).label = q.label /\ Touched(q, d, a).tag = q.tag
           /\ Touched(q, d, a).old = q.old /\ Touched(q, d, a).owes = q.owes
BY DEF Request, Touched

(* The statement of a request puts its new record in place, leaves those of *)
(* others but for whether they are alone, and makes lists stale only if it  *)
(* is to invalidate them.                                                   *)
LEMMA StatementFacts ==
    ASSUME req \in [Requests -> Request], cache \in [Lists -> Held],
           NEW r \in Requests, NEW n \in Request, NEW left \in {"stale", "late"},
           Statement(r, n, left)
    PROVE  /\ req' \in [Requests -> Request] /\ cache' \in [Lists -> Held]
           /\ req'[r] = n
           /\ \A q \in Requests \ {r} :
                 /\ req'[q].op = req[q].op /\ req'[q].at = req[q].at
                 /\ req'[q].ids = req[q].ids /\ req'[q].asked = req[q].asked
                 /\ req'[q].todo = req[q].todo /\ req'[q].entry = req[q].entry
                 /\ req'[q].label = req[q].label /\ req'[q].tag = req[q].tag
                 /\ req'[q].old = req[q].old /\ req'[q].owes = req[q].owes
                 /\ req'[q].alone => /\ req[q].alone
                                     /\ req[q] # Idle => ~Crosses(req[q])
           /\ \A k \in Lists : cache'[k] = "stale" =>
                 cache[k] = "stale" \/ (left = "stale" /\ k \in Changed)
<1> DEFINE Other(q) ==
        [req[q] EXCEPT !.read = IF req[q].at = "insert" /\ req[q].list \in Changed
                                THEN "stale" ELSE @,
                       !.alone = @ /\ (req[q] # Idle => ~Crosses(req[q]))]
           Left(k) == IF k \in Changed /\ cache[k] = "fresh" THEN left ELSE cache[k]
<1>1. /\ cache' = [k \in Lists |-> Left(k)]
      /\ req' = [q \in Requests |-> IF q = r THEN n ELSE Other(q)]
  BY DEF Statement
<1>2. ASSUME NEW q \in Requests
      PROVE  /\ Other(q) \in Request
             /\ Other(q).op = req[q].op /\ Other(q).at = req[q].at
             /\ Other(q).ids = req[q].ids /\ Other(q).asked = req[q].asked
             /\ Other(q).todo = req[q].todo /\ Other(q).entry = req[q].entry
             /\ Other(q).label = req[q].label /\ Other(q).tag = req[q].tag
             /\ Other(q).old = req[q].old /\ Other(q).owes = req[q].owes
             /\ Other(q).alone = (req[q].alone /\ (req[q] # Idle => ~Crosses(req[q])))
  <2> DEFINE a == req[q].alone /\ (req[q] # Idle => ~Crosses(req[q]))
             d == IF req[q].at = "insert" /\ req[q].list \in Changed
                  THEN "stale" ELSE req[q].read
  <2>1. a \in BOOLEAN
    OBVIOUS
  <2>2. req[q] \in Request
    BY <1>2
  <2>3. d \in {"fresh", "stale"}
    BY <2>2 DEF Request
  <2>4. Other(q) = Touched(req[q], d, a)
    BY DEF Touched
  <2> HIDE DEF a, d, Other
  <2>5. /\ Other(q) \in Request
        /\ Other(q).op = req[q].op /\ Other(q).at = req[q].at
        /\ Other(q).ids = req[q].ids /\ Other(q).asked = req[q].asked
        /\ Other(q).todo = req[q].todo /\ Other(q).entry = req[q].entry
        /\ Other(q).label = req[q].label /\ Other(q).tag = req[q].tag
        /\ Other(q).old = req[q].old /\ Other(q).owes = req[q].owes
    BY <2>1, <2>2, <2>3, <2>4, TouchFits
  <2>6. Other(q).alone = a
    BY <2>1, <2>2, <2>3, <2>4, TouchFits
  <2>7. Other(q).alone = (req[q].alone /\ (req[q] # Idle => ~Crosses(req[q])))
    BY <2>6, Zenon DEF a
  <2> QED BY <2>5, <2>7
<1>3. \A k \in Lists : Left(k) \in Held
  BY DEF Held
<1> HIDE DEF Other
<1>4. req' \in [Requests -> Request] /\ req'[r] = n
      /\ \A q \in Requests \ {r} : req'[q] = Other(q)
  BY <1>1, <1>2
<1>5. cache' \in [Lists -> Held] /\ \A k \in Lists : cache'[k] = Left(k)
  <2> HIDE DEF Left
  <2> QED BY <1>1, <1>3
<1>6. \A k \in Lists : cache'[k] = "stale" =>
          cache[k] = "stale" \/ (left = "stale" /\ k \in Changed)
  BY <1>5
<1> HIDE DEF Left
<1>7. \A q \in Requests \ {r} :
          /\ req'[q].op = req[q].op /\ req'[q].at = req[q].at
          /\ req'[q].ids = req[q].ids /\ req'[q].asked = req[q].asked
          /\ req'[q].todo = req[q].todo /\ req'[q].entry = req[q].entry
          /\ req'[q].label = req[q].label /\ req'[q].tag = req[q].tag
          /\ req'[q].old = req[q].old /\ req'[q].owes = req[q].owes
  BY <1>2, <1>4
<1>8. ASSUME NEW q \in Requests \ {r}, req'[q].alone
      PROVE  req[q].alone /\ (req[q] # Idle => ~Crosses(req[q]))
  BY <1>2, <1>4, <1>8, Zenon
<1> QED BY <1>4, <1>5, <1>6, <1>7, <1>8

(* Only a statement on tags changes the list of tags, one on tags or links  *)
(* the counts, and one on rules the rules.                                  *)
LEMMA ListsChange ==
    /\ UNCHANGED tags => "tags" \notin Changed
    /\ UNCHANGED <<tags, links>> => "stats" \notin Changed
    /\ UNCHANGED rules => "rules" \notin Changed
<1>1. UNCHANGED <<tags, links>> => Rows("stats")' = Rows("stats")
  BY DEF Rows, TagRows, EntryCount
<1>2. UNCHANGED tags => Rows("tags")' = Rows("tags")
  BY DEF Rows
<1>3. UNCHANGED rules => Rows("rules")' = Rows("rules")
  BY DEF Rows
<1> QED BY <1>1, <1>2, <1>3 DEF Changed

-----------------------------------------------------------------------------
(* What each kind of step has to establish.                                 *)

(* A request whose record is n keeps what holds of n.                       *)
LEMMA RecordInv ==
    ASSUME NEW r, NEW n, req'[r] = n, RequestInv(n)'
    PROVE  RequestInv(req[r])'
<1> USE DEF Created, InHand
<1>1. PlaceFits(req[r])'
  BY DEF RequestInv, PlaceFits
<1>2. WorkFits(req[r])'
  BY DEF RequestInv, WorkFits
<1>3. TagIsHeld(req[r])'
  BY DEF RequestInv, TagIsHeld, SlugRows, LabelRows, TagRows
<1>4. PairsTagged(req[r])'
  BY DEF RequestInv, PairsTagged
<1>5. PairsUntagged(req[r])'
  BY DEF RequestInv, PairsUntagged
<1> QED BY <1>1, <1>2, <1>3, <1>4, <1>5 DEF RequestInv

(* What holds of a record does not change while the tables do not.          *)
LEMMA RestingInv ==
    ASSUME NEW n, UNCHANGED <<entries, tags, links>>, RequestInv(n)
    PROVE  RequestInv(n)'
<1>1. UNCHANGED TagRows
  BY DEF TagRows
<1>2. \A l : UNCHANGED SlugRows(l) /\ UNCHANGED LabelRows(l)
  BY <1>1 DEF SlugRows, LabelRows
<1>3. \A e, l : Tagged(e, l) => Tagged(e, l)'
  BY <1>2 DEF Tagged
<1>4. PlaceFits(n)' /\ WorkFits(n)'
  BY DEF RequestInv, PlaceFits, WorkFits, InHand, Created
<1>5. TagIsHeld(n)'
  BY <1>2 DEF RequestInv, TagIsHeld, Created
<1>6. PairsTagged(n)'
  BY <1>3 DEF RequestInv, PairsTagged
<1>7. PairsUntagged(n)'
  BY <1>2 DEF RequestInv, PairsUntagged
<1> QED BY <1>4, <1>5, <1>6, <1>7 DEF RequestInv

(* The tables while no step touches them.                                   *)
LEMMA RestingTables ==
    ASSUME TypeOK, LinksArePairs, SlugsAreUnique,
           UNCHANGED <<entries, tags, links, rules>>,
           cache' \in [Lists -> Held], req' \in [Requests -> Request]
    PROVE  (TypeOK /\ LinksArePairs /\ SlugsAreUnique)'
BY DEF TypeOK, LinksArePairs, SlugsAreUnique, TagRows

(* Nor does what holds of any request when only one of them moves on.       *)
LEMMA RestingRequest ==
    ASSUME TagsInv, UNCHANGED <<entries, tags, links>>, NEW r \in Requests,
           NEW n, RequestInv(n), req'[r] = n,
           \A p \in Requests \ {r} : req'[p] = req[p], NEW q \in Requests
    PROVE  RequestInv(req[q])'
<1>1. CASE q = r
  BY <1>1, RestingInv, RecordInv
<1>2. CASE q # r
  <2>1. PICK m : m = req[q]
    OBVIOUS
  <2>2. RequestInv(m)
    BY <2>1 DEF TagsInv, RequestInv, PlaceFits, WorkFits, InHand, Created,
            TagIsHeld, PairsTagged, PairsUntagged
  <2> QED BY <1>2, <2>1, <2>2, RestingInv, RecordInv
<1> QED BY <1>1, <1>2

(* A request that only reads takes what holds of its new record with it; it *)
(* must still owe what it owed.                                             *)
LEMMA ReadKeepsInv ==
    ASSUME TagsInv, NEW r \in Requests, NEW n \in Request, Read(r, n),
           RequestInv(n), req[r].owes \subseteq n.owes
    PROVE  TagsInv'
<1>1. req \in [Requests -> Request] /\ cache \in [Lists -> Held]
  BY DEF TagsInv, TypeOK
<1>2. /\ req' \in [Requests -> Request] /\ req'[r] = n
      /\ \A q \in Requests \ {r} : req'[q] = req[q]
      /\ UNCHANGED <<entries, tags, links, rules, cache>>
  BY <1>1 DEF Read
<1>3. (TypeOK /\ LinksArePairs /\ SlugsAreUnique)'
  BY <1>1, <1>2, RestingTables DEF TagsInv
<1>4. ListsAreCurrent'
  <2> SUFFICES ASSUME NEW k \in Lists, cache'[k] = "stale"
               PROVE  \E q \in Requests : k \in req'[q].owes
    BY DEF ListsAreCurrent
  <2>1. PICK q \in Requests : k \in req[q].owes
    BY <1>2 DEF TagsInv, ListsAreCurrent
  <2> QED BY <1>2, <2>1
<1>5. ASSUME NEW q \in Requests
      PROVE  RequestInv(req[q])'
  BY <1>2, RestingRequest
<1> QED BY <1>3, <1>4, <1>5 DEF TagsInv

(* The statement of another request, as long as it does not cross the work  *)
(* of one that still counts as alone.                                       *)
LEMMA OtherInv ==
    ASSUME TypeOK, LinksArePairs, NEW q \in Requests, RequestInv(req[q]),
           entries' \subseteq entries, tags' \in [TagIds -> Labels \cup {"unused", "gone"}],
           req'[q].op = req[q].op, req'[q].at = req[q].at,
           req'[q].ids = req[q].ids, req'[q].asked = req[q].asked,
           req'[q].todo = req[q].todo, req'[q].entry = req[q].entry,
           req'[q].label = req[q].label, req'[q].tag = req[q].tag,
           req'[q].old = req[q].old, req'[q].owes = req[q].owes,
           req'[q].alone => req[q].alone /\ (req[q] # Idle => ~Crosses(req[q]))
    PROVE  RequestInv(req[q])'
<1>1. PlaceFits(req[q])'
  BY DEF RequestInv, PlaceFits
<1>2. WorkFits(req[q])'
  BY DEF RequestInv, WorkFits, InHand, Created
<1>3. \A t \in TagRows : ~Relabelled => t \in TagRows' /\ tags'[t] = tags[t]
  BY DEF Relabelled, TagRows, TypeOK
<1>4. TagIsHeld(req[q])'
  <2> SUFFICES ASSUME req'[q].alone
               PROVE  /\ req[q].at = "create" => (SlugRows(req[q].label) = {})'
                      /\ req[q].at = "link" \/ Created(req[q]) =>
                             (req[q].tag \in SlugRows(req[q].label))'
                      /\ req[q].at = "unlink" /\ req[q].op = "untag" =>
                             (req[q].tag \in LabelRows(req[q].label))'
    BY DEF TagIsHeld, Created
  <2>1. req[q].at # "idle" => ~Crosses(req[q])
    BY IdleFits
  <2>2. ASSUME req[q].at = "create"
        PROVE  (SlugRows(req[q].label) = {})'
    BY <1>3, <2>1, <2>2 DEF RequestInv, TagIsHeld, Crosses, SlugRows, TagRows, TypeOK
  <2>3. ASSUME req[q].at = "link" \/ Created(req[q])
        PROVE  (req[q].tag \in SlugRows(req[q].label))'
    BY <1>3, <2>1, <2>3 DEF RequestInv, TagIsHeld, Crosses, SlugRows, Created
  <2>4. ASSUME req[q].at = "unlink" /\ req[q].op = "untag"
        PROVE  (req[q].tag \in LabelRows(req[q].label))'
    BY <1>3, <2>1, <2>4 DEF RequestInv, TagIsHeld, Crosses, LabelRows
  <2> QED BY <2>2, <2>3, <2>4
<1>5. PairsTagged(req[q])'
  <2> SUFFICES ASSUME req'[q].alone, req[q].op \in {"apply", "add", "bulk_tag"},
                      req[q].at \notin {"insert", "link_all"},
                      NEW e \in req[q].ids, NEW l \in req[q].asked, e \in entries',
                      <<e, l>> \notin req[q].todo
               PROVE  Tagged(e, l)'
    BY DEF PairsTagged
  <2>1. ~Crosses(req[q])
    BY IdleFits
  <2>2. PICK t \in SlugRows(l) : <<e, t>> \in links
    BY DEF RequestInv, PairsTagged, Tagged
  <2> QED BY <1>3, <2>1, <2>2 DEF Crosses, SlugRows, Tagged
<1>6. PairsUntagged(req[q])'
  <2> SUFFICES ASSUME req'[q].alone, req[q].op = "untag",
                      NEW e \in req[q].ids, NEW l \in req[q].asked,
                      <<e, l>> \notin req[q].todo, NEW t \in LabelRows(l)',
                      <<e, t>> \in links'
               PROVE  FALSE
    BY DEF PairsUntagged
  <2>1. ~Crosses(req[q])
    BY IdleFits
  <2>2. <<e, t>> \in links
    BY <2>1 DEF Crosses
  <2>3. t \in TagRows
    BY <2>2 DEF TypeOK, LinksArePairs, TagRows
  <2>4. t \in LabelRows(l)
    BY <1>3, <2>1, <2>3 DEF Crosses, LabelRows
  <2> QED BY <2>2, <2>4 DEF RequestInv, PairsUntagged
<1> QED BY <1>1, <1>2, <1>4, <1>5, <1>6 DEF RequestInv

(* A statement: what it leaves in the tables, what it says of its own       *)
(* request, and that a writer owes the lists it changes.                    *)
LEMMA StatementKeepsInv ==
    ASSUME TagsInv, NEW r \in Requests, NEW n \in Request, NEW left \in {"stale", "late"},
           Statement(r, n, left), req[r].owes = {},
           entries' \subseteq entries, rules' \subseteq Rules,
           tags' \in [TagIds -> Labels \cup {"unused", "gone"}],
           links' \subseteq Entries \X TagIds,
           \A l \in links' : l[1] \in entries' /\ tags'[l[2]] \in Labels,
           SlugsAreUnique', RequestInv(n)',
           left = "stale" => Changed \subseteq n.owes
    PROVE  TagsInv'
<1>1. req \in [Requests -> Request] /\ cache \in [Lists -> Held]
  BY DEF TagsInv, TypeOK
<1>2. /\ req' \in [Requests -> Request] /\ cache' \in [Lists -> Held] /\ req'[r] = n
      /\ \A q \in Requests \ {r} :
            /\ req'[q].op = req[q].op /\ req'[q].at = req[q].at
            /\ req'[q].ids = req[q].ids /\ req'[q].asked = req[q].asked
            /\ req'[q].todo = req[q].todo /\ req'[q].entry = req[q].entry
            /\ req'[q].label = req[q].label /\ req'[q].tag = req[q].tag
            /\ req'[q].old = req[q].old /\ req'[q].owes = req[q].owes
            /\ req'[q].alone => req[q].alone /\ (req[q] # Idle => ~Crosses(req[q]))
      /\ \A k \in Lists : cache'[k] = "stale" =>
            cache[k] = "stale" \/ (left = "stale" /\ k \in Changed)
  BY <1>1, StatementFacts
<1>3. TypeOK' /\ LinksArePairs'
  BY <1>2 DEF TagsInv, TypeOK, LinksArePairs
<1>4. ListsAreCurrent'
  <2> SUFFICES ASSUME NEW k \in Lists, cache'[k] = "stale"
               PROVE  \E q \in Requests : k \in req'[q].owes
    BY DEF ListsAreCurrent
  <2>1. CASE left = "stale" /\ k \in Changed
    BY <1>2, <2>1
  <2>2. CASE cache[k] = "stale"
    <3>1. PICK q \in Requests : k \in req[q].owes
      BY <2>2 DEF TagsInv, ListsAreCurrent
    <3> QED BY <1>2, <3>1
  <2> QED BY <1>2, <2>1, <2>2
<1>5. ASSUME NEW q \in Requests
      PROVE  RequestInv(req[q])'
  <2>1. CASE q = r
    BY <1>2, <2>1, RecordInv
  <2>2. CASE q # r
    <3>1. RequestInv(req[q]) /\ TypeOK /\ LinksArePairs
      BY DEF TagsInv
    <3> QED BY <1>2, <2>2, <3>1, OtherInv
  <2> QED BY <2>1, <2>2
<1> QED BY <1>3, <1>4, <1>5 DEF TagsInv

(* A request that neither tags nor untags.                                  *)
LEMMA PlainInv ==
    ASSUME NEW n, n.todo = {}, n.owes # {} => n.at = "invalidate",
           n.op \notin {"apply", "add", "bulk_tag", "remove", "untag"},
           n.op \in {"rename", "update_rule"} => n.ids = {},
           \/ n.at \in {"idle", "invalidate", "done"}
           \/ n.at = "insert" /\ n.op = "list"
           \/ n.at = "rename" /\ n.tag \in TagIds /\ n.label \in Labels /\ n.op = "rename"
           \/ n.at = "update" /\ n.old \in Rules /\ n.op = "update_rule"
    PROVE  RequestInv(n) /\ RequestInv(n)'
<1>1. PlaceFits(n) /\ WorkFits(n)
  BY DEF PlaceFits, WorkFits, InHand, Created
<1>2. TagIsHeld(n) /\ PairsTagged(n) /\ PairsUntagged(n)
  BY DEF TagIsHeld, Created, PairsTagged, PairsUntagged
<1>3. TagIsHeld(n)' /\ PairsTagged(n)' /\ PairsUntagged(n)'
  BY DEF TagIsHeld, Created, PairsTagged, PairsUntagged
<1>4. PlaceFits(n)' /\ WorkFits(n)'
  BY <1>1 DEF PlaceFits, WorkFits, InHand, Created
<1> QED BY <1>1, <1>2, <1>3, <1>4 DEF RequestInv

(* Nothing is in the way of an idle request.                                *)
LEMMA IdleInv == RequestInv(Idle)
BY IdleFits, PlainInv

(* A request may end once its pairs are done.                               *)
LEMMA DoneInv ==
    ASSUME NEW q \in Request, WorkFits(q),
           q.alone /\ q.op \in {"apply", "add", "bulk_tag"} =>
               \A e \in q.ids, l \in q.asked : e \in entries => Tagged(e, l),
           q.alone /\ q.op = "untag" =>
               \A e \in q.ids, l \in q.asked : \A t \in LabelRows(l) : <<e, t>> \notin links
    PROVE  RequestInv(Done(q))
<1>1. CASE Done(q) = Idle
  BY <1>1, IdleInv
<1>2. CASE Done(q) # Idle
  <2>1. PICK n : n = Done(q)
    OBVIOUS
  <2>2. /\ n.at = "done" /\ n.op = q.op /\ n.ids = q.ids /\ n.asked = q.asked
        /\ n.todo = {} /\ n.owes = {} /\ n.alone = q.alone /\ n.tag = NoTag
    BY <1>2, <2>1, DoneFits
  <2>3. PlaceFits(n) /\ WorkFits(n)
    BY <2>2 DEF PlaceFits, WorkFits, InHand, Created
  <2>4. TagIsHeld(n) /\ PairsTagged(n) /\ PairsUntagged(n)
    BY <2>2 DEF TagIsHeld, Created, PairsTagged, PairsUntagged
  <2> QED BY <2>1, <2>3, <2>4 DEF RequestInv
<1> QED BY <1>1, <1>2

(* A request that is not alone may end at any time.                         *)
LEMMA CrossedInv ==
    ASSUME NEW n, ~n.alone, PlaceFits(n), WorkFits(n)
    PROVE  RequestInv(n)
BY DEF RequestInv, TagIsHeld, PairsTagged, PairsUntagged

(* A pair is struck off once it is done.                                    *)
LEMMA StrikeInv ==
    ASSUME NEW q \in Request, RequestInv(q), q.owes = {},
           q.op \in {"apply", "add", "remove", "untag"}, q.at # "insert",
           q.alone /\ q.op \in {"apply", "add"} =>
               (q.entry \in entries => Tagged(q.entry, q.label)),
           q.alone /\ q.op = "untag" =>
               \A t \in LabelRows(q.label) : <<q.entry, t>> \notin links
    PROVE  RequestInv(Strike(q))
<1>1. PICK n : n = Strike(q)
  OBVIOUS
<1>2. /\ n.at = "next" /\ n.op = q.op /\ n.ids = q.ids /\ n.asked = q.asked
      /\ n.todo = q.todo \ {<<q.entry, q.label>>} /\ n.owes = q.owes
      /\ n.alone = q.alone /\ n.tag = NoTag
  BY <1>1, StrikeFits
<1>3. PlaceFits(n)
  BY <1>2 DEF PlaceFits
<1>4. WorkFits(n)
  BY <1>2 DEF RequestInv, WorkFits, InHand, Created
<1>5. TagIsHeld(n)
  BY <1>2 DEF TagIsHeld, Created
<1>6. PairsTagged(n)
  <2> SUFFICES ASSUME q.alone, q.op \in {"apply", "add"}, NEW e \in q.ids, NEW l \in q.asked,
                      e \in entries, <<e, l>> \notin n.todo
               PROVE  Tagged(e, l)
    BY <1>2 DEF PairsTagged
  <2>1. CASE <<e, l>> = <<q.entry, q.label>>
    BY <2>1
  <2>2. CASE <<e, l>> \notin q.todo
    BY <2>2 DEF RequestInv, PairsTagged, PlaceFits
  <2> QED BY <1>2, <2>1, <2>2
<1>7. PairsUntagged(n)
  BY <1>2 DEF RequestInv, PairsUntagged
<1> QED BY <1>1, <1>3, <1>4, <1>5, <1>6, <1>7 DEF RequestInv

-----------------------------------------------------------------------------
(* Lists.                                                                   *)

(* A request that opens was idle.                                           *)
LEMMA OpenFits ==
    ASSUME NEW r \in Requests, NEW op, Open(r, op)
    PROVE  req[r] = Idle /\ req[r].owes = {} /\ op \in AllOps
BY TagsAssumption, IdleFits DEF Open

(* The labels of rules are labels.                                          *)
LEMMA MatchingLabels ==
    ASSUME NEW list \in SUBSET Rules, NEW article
    PROVE  Matching(list, article) \subseteq Labels
BY TagsAssumption DEF Matching

(* Rules read are rules.                                                    *)
LEMMA RulesReadAreRules ==
    ASSUME TypeOK, NEW fresh, NEW list \in RulesRead(fresh)
    PROVE  list \in SUBSET Rules
BY DEF RulesRead, TypeOK

(* The record of a fetch that asks for these labels.                        *)
Asking(q, L, T) == [q EXCEPT !.at = "next", !.list = "tags", !.read = "fresh",
                             !.asked = L, !.todo = T]

(* It is a request.                                                         *)
LEMMA AskingFits ==
    ASSUME NEW q \in Request, NEW L \in SUBSET Labels, NEW T \in SUBSET (Entries \X Labels)
    PROVE  /\ Asking(q, L, T) \in Request
           /\ Asking(q, L, T).at = "next" /\ Asking(q, L, T).op = q.op
           /\ Asking(q, L, T).owes = q.owes /\ Asking(q, L, T).ids = q.ids
           /\ Asking(q, L, T).asked = L /\ Asking(q, L, T).todo = T
BY DEF Asking, Request, Lists

(* Every pair a rule asks for is still to do.                               *)
LEMMA AskInv ==
    ASSUME NEW q \in Request, q.op = "apply", q.owes = {},
           NEW list \in SUBSET Rules, NEW article
    PROVE  /\ Ask(q, article, list) \in Request /\ Ask(q, article, list).owes = {}
           /\ RequestInv(Ask(q, article, list))
<1>1. PICK L : L = Matching(list, article)
  OBVIOUS
<1>2. L \in SUBSET Labels
  BY <1>1, MatchingLabels
<1>3. PICK n : n = Asking(q, L, q.ids \X L)
  OBVIOUS
<1>4. Ask(q, article, list) = n
  BY <1>1, <1>3 DEF Ask, Asking
<1>5. q.ids \X L \in SUBSET (Entries \X Labels)
  BY <1>2 DEF Request
<1>6. /\ n \in Request /\ n.at = "next" /\ n.op = "apply" /\ n.owes = {}
      /\ n.ids = q.ids /\ n.asked = L /\ n.todo = q.ids \X L
  BY <1>2, <1>3, <1>5, AskingFits
<1>7. PlaceFits(n) /\ WorkFits(n) /\ TagIsHeld(n)
  BY <1>6 DEF PlaceFits, WorkFits, TagIsHeld, InHand, Created
<1>8. PairsTagged(n) /\ PairsUntagged(n)
  BY <1>6 DEF PairsTagged, PairsUntagged
<1> QED BY <1>4, <1>6, <1>7, <1>8 DEF RequestInv

(* What a list's reader keeps in hand.                                      *)
LEMMA ReadingInv ==
    ASSUME NEW n \in Request, n.at = "insert", n.op \in {"list", "apply"},
           n.owes = {}, n.todo = {}
    PROVE  RequestInv(n)
<1>1. PlaceFits(n) /\ WorkFits(n) /\ TagIsHeld(n)
  BY DEF PlaceFits, WorkFits, TagIsHeld, InHand, Created
<1>2. PairsTagged(n) /\ PairsUntagged(n)
  BY DEF PairsTagged, PairsUntagged
<1> QED BY <1>1, <1>2 DEF RequestInv

(* Lists are read from a cache or from the table.                           *)
LEMMA GetListKeepsInv ==
    ASSUME TagsInv, NEW r \in Requests, req[r] = Idle, NEW k \in Lists,
           NEW n \in Request, n.op \in {"list", "apply"}, n.owes = {}, n.todo = {},
           n.op = "list" => n.ids = {}, GetList(r, k, n)
    PROVE  TagsInv'
<1>1. req[r].owes = {}
  BY IdleFits
<1>2. CASE Read(r, [n EXCEPT !.at = "insert", !.list = k])
  <2> DEFINE m == [n EXCEPT !.at = "insert", !.list = k]
  <2>1. /\ m \in Request /\ m.at = "insert" /\ m.op \in {"list", "apply"}
        /\ m.owes = {} /\ m.todo = {}
    BY DEF Request
  <2>2. Read(r, m)
    BY <1>2
  <2> HIDE DEF m
  <2>3. RequestInv(m)
    BY <2>1, ReadingInv
  <2> QED BY <1>1, <2>1, <2>2, <2>3, ReadKeepsInv
<1>3. CASE n.op = "list" /\ Read(r, Done(n))
  <2>1. Done(n) = Idle
    BY <1>3 DEF Done
  <2>2. Read(r, Idle)
    BY <1>3, <2>1
  <2> QED BY <1>1, <2>2, IdleFits, IdleInv, ReadKeepsInv
<1> QED BY <1>2, <1>3 DEF GetList

(* list_tags and the counts.                                                *)
LEMMA ListTagsStep ==
    ASSUME TagsInv, NEW r \in Requests, ListTags(r)
    PROVE  TagsInv'
<1> DEFINE n == [Idle EXCEPT !.op = "list"]
<1>1. PICK k \in {"tags", "stats"} : GetList(r, k, n)
  BY DEF ListTags
<1>2. /\ n \in Request /\ n.op = "list" /\ n.owes = {} /\ n.todo = {} /\ n.tag = NoTag
      /\ n.ids = {}
  BY DEF Idle, Request, AllOps, Lists
<1>3. req[r] = Idle /\ k \in Lists
  BY <1>1 DEF ListTags, Open, Lists
<1> HIDE DEF n
<1> QED BY <1>1, <1>2, <1>3, GetListKeepsInv

(* A fetch applies the rules.                                               *)
LEMMA ApplyRulesStep ==
    ASSUME TagsInv, NEW r \in Requests, ApplyRules(r)
    PROVE  TagsInv'
<1>1. PICK e \in Entries :
         LET n == [Idle EXCEPT !.op = "apply", !.ids = {e}] IN
         \/ GetList(r, "rules", n)
         \/ /\ cache["rules"] # "none"
            /\ \E article \in Articles, list \in RulesRead(cache["rules"] = "fresh") :
                  Read(r, Ask(n, article, list))
  BY DEF ApplyRules
<1> DEFINE n == [Idle EXCEPT !.op = "apply", !.ids = {e}]
<1>2. /\ n \in Request /\ n.op = "apply" /\ n.owes = {} /\ n.todo = {}
  BY DEF Idle, Request, AllOps, Lists
<1>3. req[r] = Idle /\ "rules" \in Lists /\ TypeOK
  BY DEF ApplyRules, Open, Lists, TagsInv
<1>4. \/ GetList(r, "rules", n)
      \/ \E article \in Articles, list \in RulesRead(cache["rules"] = "fresh") :
            Read(r, Ask(n, article, list))
  BY <1>1
<1> HIDE DEF n
<1>5. CASE GetList(r, "rules", n)
  BY <1>2, <1>3, <1>5, GetListKeepsInv
<1>6. ASSUME NEW article \in Articles, NEW list \in RulesRead(cache["rules"] = "fresh"),
             Read(r, Ask(n, article, list))
      PROVE  TagsInv'
  <2>1. list \in SUBSET Rules
    BY <1>3, RulesReadAreRules
  <2>2. Ask(n, article, list) \in Request /\ RequestInv(Ask(n, article, list))
    BY <1>2, <2>1, AskInv
  <2>3. req[r].owes = {}
    BY <1>3, IdleFits
  <2> QED BY <1>6, <2>2, <2>3, ReadKeepsInv
<1> QED BY <1>4, <1>5, <1>6

(* A list read is put into the cache. If it is out of date and someone owes *)
(* its invalidation it will not stay.                                       *)
LEMMA InsertListStep ==
    ASSUME TagsInv, NEW r \in Requests, InsertList(r)
    PROVE  TagsInv'
<1> DEFINE q == req[r]
           k == q.list
<1>1. /\ req \in [Requests -> Request] /\ cache \in [Lists -> Held] /\ q \in Request
      /\ TypeOK /\ LinksArePairs /\ SlugsAreUnique /\ ListsAreCurrent
      /\ q.at = "insert" /\ UNCHANGED <<entries, tags, links, rules>>
  BY DEF TagsInv, TypeOK, InsertList
<1>2. k \in Lists
  BY <1>1 DEF Request
<1>3. q.owes = {} /\ WorkFits(q) /\ q.op \in {"list", "apply"}
  <2>1. PlaceFits(q) /\ WorkFits(q)
    BY DEF TagsInv, RequestInv
  <2> QED BY <1>1, <2>1 DEF PlaceFits
<1>4. PICK n \in Request : n.owes = {} /\ RequestInv(n) /\ req' = [req EXCEPT ![r] = n]
  <2>1. CASE q.op = "list" /\ req' = [req EXCEPT ![r] = Done(@)]
    <3>1. RequestInv(Done(q)) /\ Done(q) \in Request /\ Done(q).owes = {}
      BY <1>1, <1>3, <2>1, DoneInv, DoneFits, IdleFits
    <3> QED BY <2>1, <3>1
  <2>2. ASSUME q.op = "apply", NEW article \in Articles,
               NEW list \in RulesRead(q.read = "fresh"),
               req' = [req EXCEPT ![r] = Ask(@, article, list)]
        PROVE  \E n \in Request : n.owes = {} /\ RequestInv(n) /\ req' = [req EXCEPT ![r] = n]
    <3>1. list \in SUBSET Rules
      BY <1>1, <2>2, RulesReadAreRules
    <3>2. /\ Ask(q, article, list) \in Request /\ Ask(q, article, list).owes = {}
          /\ RequestInv(Ask(q, article, list))
      BY <1>1, <1>3, <2>2, <3>1, AskInv
    <3> QED BY <2>2, <3>2
  <2> QED BY <2>1, <2>2 DEF InsertList
<1>5. cache' = [cache EXCEPT ![k] = IF q.read = "fresh" THEN "fresh"
                                    ELSE IF \E p \in Requests : k \in req[p].owes
                                         THEN "stale" ELSE "late"]
  BY DEF InsertList
<1>6. cache' \in [Lists -> Held] /\ \A j \in Lists : cache'[j] = "stale" =>
          cache[j] = "stale" \/ \E p \in Requests : j \in req[p].owes
  BY <1>1, <1>2, <1>5 DEF Held
<1> HIDE DEF k, q
<1>7. /\ req' \in [Requests -> Request] /\ req'[r] = n
      /\ \A p \in Requests \ {r} : req'[p] = req[p]
  BY <1>1, <1>4
<1>8. (TypeOK /\ LinksArePairs /\ SlugsAreUnique)'
  BY <1>1, <1>6, <1>7, RestingTables
<1>9. ListsAreCurrent'
  BY <1>1, <1>3, <1>6, <1>7 DEF ListsAreCurrent, q
<1>10. ASSUME NEW p \in Requests
       PROVE  RequestInv(req[p])'
  BY <1>1, <1>4, <1>7, RestingRequest
<1> QED BY <1>8, <1>9, <1>10 DEF TagsInv

(* A list expires.                                                          *)
LEMMA ExpireStep ==
    ASSUME TagsInv, Expire
    PROVE  TagsInv'
<1>1. /\ req \in [Requests -> Request] /\ cache \in [Lists -> Held]
      /\ UNCHANGED <<entries, tags, links, rules, req>>
  BY DEF TagsInv, TypeOK, Expire
<1>2. PICK k \in Lists : cache' = [cache EXCEPT ![k] = "none"]
  BY DEF Expire
<1>3. cache' \in [Lists -> Held] /\ \A j \in Lists : cache'[j] = "stale" => cache[j] = "stale"
  BY <1>1, <1>2 DEF Held
<1>4. (TypeOK /\ LinksArePairs /\ SlugsAreUnique)'
  BY <1>1, <1>3, RestingTables DEF TagsInv
<1>5. ListsAreCurrent'
  BY <1>1, <1>3 DEF TagsInv, ListsAreCurrent
<1>6. ASSUME NEW q \in Requests
      PROVE  RequestInv(req[q])'
  <2>1. PICK m : m = req[q]
    OBVIOUS
  <2>2. RequestInv(m)
    BY <2>1 DEF TagsInv, RequestInv, PlaceFits, WorkFits, InHand, Created,
            TagIsHeld, PairsTagged, PairsUntagged
  <2> QED BY <1>1, <2>1, <2>2, RestingInv, RecordInv
<1> QED BY <1>4, <1>5, <1>6 DEF TagsInv

(* The record of a request whose debt is this.                              *)
Owing(q, K) == [q EXCEPT !.owes = K]

(* Its work is the same.                                                    *)
LEMMA OwingInv ==
    ASSUME NEW q \in Request, NEW K \in SUBSET Lists, RequestInv(q), q.at = "invalidate"
    PROVE  Owing(q, K) \in Request /\ Owing(q, K).owes = K /\ RequestInv(Owing(q, K))
<1>1. PICK n : n = Owing(q, K)
  OBVIOUS
<1>2. /\ n \in Request /\ n.at = q.at /\ n.op = q.op /\ n.ids = q.ids /\ n.asked = q.asked
      /\ n.todo = q.todo /\ n.entry = q.entry /\ n.label = q.label /\ n.tag = q.tag
      /\ n.owes = K /\ n.alone = q.alone
  BY <1>1 DEF Owing, Request
<1>3. PlaceFits(n)
  BY <1>2 DEF RequestInv, PlaceFits
<1>4. WorkFits(n) /\ TagIsHeld(n)
  BY <1>2 DEF RequestInv, WorkFits, TagIsHeld, InHand, Created
<1>5. PairsTagged(n) /\ PairsUntagged(n)
  BY <1>2 DEF RequestInv, PairsTagged, PairsUntagged
<1> QED BY <1>1, <1>2, <1>3, <1>4, <1>5 DEF RequestInv

(* The record of a request at this place.                                   *)
Going(q, place) == [q EXCEPT !.at = place]

(* Nothing else is different.                                               *)
LEMMA GoingFits ==
    ASSUME NEW q \in Request, NEW place \in {"next", "link", "create"}
    PROVE  /\ Going(q, place) \in Request /\ Going(q, place).at = place
           /\ Going(q, place).op = q.op /\ Going(q, place).ids = q.ids
           /\ Going(q, place).asked = q.asked /\ Going(q, place).todo = q.todo
           /\ Going(q, place).entry = q.entry /\ Going(q, place).label = q.label
           /\ Going(q, place).tag = q.tag /\ Going(q, place).owes = q.owes
           /\ Going(q, place).alone = q.alone /\ Going(q, place).old = q.old
BY DEF Going, Request

(* Once it owes nothing a request ends, or goes on to link the tag it has   *)
(* created, or to the next pair.                                            *)
LEMMA AfterInv ==
    ASSUME NEW q \in Request, RequestInv(q), q.at = "invalidate", q.owes = {}
    PROVE  After(q) \in Request /\ RequestInv(After(q))
<1>1. CASE q.op \notin {"add", "apply", "remove", "untag"}
  <2>1. After(q) = Done(q)
    BY <1>1 DEF After
  <2>2. WorkFits(q) /\ (q.op = "bulk_tag" => q.todo = {})
    BY DEF RequestInv, WorkFits
  <2>3. q.alone /\ q.op \in {"apply", "add", "bulk_tag"} =>
            \A e \in q.ids, l \in q.asked : e \in entries => Tagged(e, l)
    BY <1>1, <2>2 DEF RequestInv, PairsTagged
  <2> QED BY <1>1, <2>1, <2>2, <2>3, DoneFits, DoneInv
<1>2. CASE q.op \in {"add", "apply", "remove", "untag"}
  <2> DEFINE place == IF q.tag = NoTag THEN "next" ELSE "link"
  <2>1. After(q) = Going(q, place)
    BY <1>2 DEF After, Going
  <2>2. place \in {"next", "link", "create"}
    OBVIOUS
  <2>3. /\ place = "link" => q.tag # NoTag /\ q.op \in {"add", "apply"} /\ q.tag \in TagIds
        /\ place \in {"next", "link"}
    BY <1>2 DEF RequestInv, PlaceFits, Request
  <2> HIDE DEF place
  <2>4. PICK n : n = Going(q, place)
    OBVIOUS
  <2>5. /\ n \in Request /\ n.at = place /\ n.op = q.op /\ n.ids = q.ids
        /\ n.asked = q.asked /\ n.todo = q.todo /\ n.entry = q.entry
        /\ n.label = q.label /\ n.tag = q.tag /\ n.owes = {} /\ n.alone = q.alone
    BY <2>2, <2>4, GoingFits
  <2>6. PlaceFits(n)
    BY <1>2, <2>3, <2>5 DEF PlaceFits
  <2>7. WorkFits(n)
    BY <1>2, <2>3, <2>5 DEF RequestInv, WorkFits, InHand, Created
  <2>8. TagIsHeld(n)
    BY <1>2, <2>3, <2>5 DEF RequestInv, TagIsHeld, Created
  <2>9. PairsTagged(n) /\ PairsUntagged(n)
    BY <1>2, <2>3, <2>5 DEF RequestInv, PairsTagged, PairsUntagged
  <2> QED BY <2>1, <2>4, <2>5, <2>6, <2>7, <2>8, <2>9 DEF RequestInv
<1> QED BY <1>1, <1>2

(* A writer invalidates the lists it owes, one after the other.             *)
LEMMA InvalidateStep ==
    ASSUME TagsInv, NEW r \in Requests, Invalidate(r)
    PROVE  TagsInv'
<1> DEFINE q == req[r]
<1>1. /\ req \in [Requests -> Request] /\ cache \in [Lists -> Held] /\ q \in Request
      /\ TypeOK /\ LinksArePairs /\ SlugsAreUnique /\ ListsAreCurrent /\ RequestInv(q)
      /\ q.at = "invalidate" /\ UNCHANGED <<entries, tags, links, rules>>
  BY DEF TagsInv, TypeOK, Invalidate
<1>2. ASSUME NEW k \in q.owes, cache' = [cache EXCEPT ![k] = "none"],
             req' = [req EXCEPT ![r].owes = @ \ {k}]
      PROVE  TagsInv'
  <2>1. PICK n : n = Owing(q, q.owes \ {k})
    OBVIOUS
  <2>2. k \in Lists /\ q.owes \ {k} \in SUBSET Lists
    BY <1>1 DEF Request
  <2>3. n \in Request /\ n.owes = q.owes \ {k} /\ RequestInv(n)
    BY <1>1, <2>1, <2>2, OwingInv
  <2>4. req' = [req EXCEPT ![r] = n]
    BY <1>1, <1>2, <2>1 DEF Owing
  <2> HIDE DEF q
  <2>5. /\ req' \in [Requests -> Request] /\ req'[r] = n
        /\ \A p \in Requests \ {r} : req'[p] = req[p]
    BY <1>1, <2>3, <2>4
  <2>6. cache' \in [Lists -> Held] /\ \A j \in Lists : cache'[j] = "stale" =>
            cache[j] = "stale" /\ j # k
    BY <1>1, <1>2, <2>2 DEF Held
  <2>7. (TypeOK /\ LinksArePairs /\ SlugsAreUnique)'
    BY <1>1, <2>5, <2>6, RestingTables
  <2>8. ListsAreCurrent'
    <3> SUFFICES ASSUME NEW j \in Lists, cache'[j] = "stale"
                 PROVE  \E p \in Requests : j \in req'[p].owes
      BY DEF ListsAreCurrent
    <3>1. PICK p \in Requests : j \in req[p].owes
      BY <1>1, <2>6 DEF ListsAreCurrent
    <3>2. CASE p = r
      BY <2>3, <2>5, <2>6, <3>1, <3>2 DEF q
    <3>3. CASE p # r
      BY <2>5, <3>1, <3>3
    <3> QED BY <3>2, <3>3
  <2>9. ASSUME NEW p \in Requests
        PROVE  RequestInv(req[p])'
    BY <1>1, <2>3, <2>5, RestingRequest
  <2> QED BY <2>7, <2>8, <2>9 DEF TagsInv
<1>3. ASSUME q.owes = {}, req' = [req EXCEPT ![r] = After(@)], UNCHANGED cache
      PROVE  TagsInv'
  <2>1. After(q) \in Request /\ RequestInv(After(q))
    BY <1>1, <1>3, AfterInv
  <2>2. Read(r, After(q))
    BY <1>1, <1>3 DEF Read
  <2> QED BY <1>3, <2>1, <2>2, ReadKeepsInv
<1> QED BY <1>2, <1>3 DEF Invalidate

-----------------------------------------------------------------------------
(* Tagging.                                                                 *)

(* The record of a request that has pairs to do.                            *)
Busied(p, op, place, S, L, T) ==
    [p EXCEPT !.op = op, !.at = place, !.ids = S, !.asked = L, !.todo = T]

WorkOK(op, place, S, L, T) ==
    /\ op \in AllOps /\ place \in {"next", "link_all"}
    /\ S \in SUBSET Entries /\ L \in SUBSET Labels /\ T \in SUBSET (Entries \X Labels)

BusiedOK(p, n, op, place, S, L, T) ==
    /\ n \in Request /\ n.op = op /\ n.at = place /\ n.ids = S
    /\ n.asked = L /\ n.todo = T /\ n.owes = p.owes

(* It is a request.                                                         *)
LEMMA BusiedFits ==
    ASSUME NEW p \in Request, NEW op, NEW place, NEW S, NEW L, NEW T,
           WorkOK(op, place, S, L, T)
    PROVE  BusiedOK(p, Busied(p, op, place, S, L, T), op, place, S, L, T)
<1>1. /\ op \in AllOps /\ place \in {"next", "link_all"}
      /\ S \in SUBSET Entries /\ L \in SUBSET Labels /\ T \in SUBSET (Entries \X Labels)
  BY DEF WorkOK
<1> QED BY <1>1 DEF Request, Busied, BusiedOK

(* add_tag of an entry.                                                     *)
LEMMA AddTagStep ==
    ASSUME TagsInv, NEW r \in Requests, AddTag(r)
    PROVE  TagsInv'
<1>1. PICK e \in entries, l \in Labels :
          Read(r, Busied(Idle, "add", "next", {e}, {l}, {<<e, l>>}))
  BY DEF AddTag, Busied
<1>2. PICK n : n = Busied(Idle, "add", "next", {e}, {l}, {<<e, l>>})
  OBVIOUS
<1>3. e \in Entries /\ WorkOK("add", "next", {e}, {l}, {<<e, l>>})
  BY DEF TagsInv, TypeOK, AllOps, WorkOK
<1>4. /\ n \in Request /\ n.op = "add" /\ n.at = "next" /\ n.ids = {e} /\ n.asked = {l}
      /\ n.todo = {<<e, l>>} /\ n.owes = {}
  <2>1. Idle \in Request /\ Idle.owes = {}
    BY IdleFits
  <2>2. BusiedOK(Idle, n, "add", "next", {e}, {l}, {<<e, l>>})
    BY <1>2, <1>3, <2>1, BusiedFits
  <2> QED BY <2>1, <2>2 DEF BusiedOK
<1>5. Read(r, n) /\ req[r].owes = {}
  BY <1>1, <1>2, OpenFits DEF AddTag
<1>6. PlaceFits(n) /\ TagIsHeld(n)
  BY <1>4 DEF PlaceFits, TagIsHeld, Created
<1>7. WorkFits(n)
  BY <1>3, <1>4 DEF WorkFits, InHand, Created
<1>8. PairsTagged(n) /\ PairsUntagged(n)
  BY <1>4 DEF PairsTagged, PairsUntagged
<1> QED BY <1>4, <1>5, <1>6, <1>7, <1>8, ReadKeepsInv DEF RequestInv

(* The record of a request with this pair in hand.                          *)
Taking(q, place, e, l) == [q EXCEPT !.at = place, !.entry = e, !.label = l]

(* It is a request.                                                         *)
LEMMA TakingFits ==
    ASSUME NEW q \in Request, NEW place \in {"look", "find"}, NEW e \in Entries,
           NEW l \in Labels, NEW n, n = Taking(q, place, e, l)
    PROVE  /\ n \in Request /\ n.at = place /\ n.op = q.op /\ n.ids = q.ids
           /\ n.asked = q.asked /\ n.todo = q.todo /\ n.entry = e /\ n.label = l
           /\ n.tag = q.tag /\ n.owes = q.owes /\ n.alone = q.alone
BY DEF Taking, Request

(* The record of a request with this tag in hand.                           *)
Choosing(q, place, t) == [q EXCEPT !.at = place, !.tag = t]

(* It is a request.                                                         *)
LEMMA ChoosingFits ==
    ASSUME NEW q \in Request, NEW place \in {"link", "unlink", "invalidate"},
           NEW t \in TagIds, NEW n, n = Choosing(q, place, t)
    PROVE  /\ n \in Request /\ n.at = place /\ n.op = q.op /\ n.ids = q.ids
           /\ n.asked = q.asked /\ n.todo = q.todo /\ n.entry = q.entry
           /\ n.label = q.label /\ n.tag = t /\ n.owes = q.owes /\ n.alone = q.alone
BY DEF Choosing, Request

(* The record of a writer after its statement.                              *)
Written(q, K) == [q EXCEPT !.at = "invalidate", !.owes = K]

(* It is a request.                                                         *)
LEMMA WrittenFits ==
    ASSUME NEW q \in Request, NEW K \in SUBSET Lists, NEW n, n = Written(q, K)
    PROVE  /\ n \in Request /\ n.at = "invalidate" /\ n.op = q.op /\ n.ids = q.ids
           /\ n.asked = q.asked /\ n.todo = q.todo /\ n.entry = q.entry
           /\ n.label = q.label /\ n.tag = q.tag /\ n.owes = K /\ n.alone = q.alone
BY DEF Written, Request

(* The record of a request that has missed something.                       *)
Missed(q) == [q EXCEPT !.alone = FALSE]

(* Nothing more is asked of it.                                             *)
LEMMA MissedInv ==
    ASSUME NEW q \in Request, PlaceFits(q), WorkFits(q)
    PROVE  Missed(q) \in Request /\ RequestInv(Missed(q)) /\ Missed(q).owes = q.owes
<1>1. PICK n : n = Missed(q)
  OBVIOUS
<1>2. /\ n \in Request /\ n.at = q.at /\ n.op = q.op /\ n.ids = q.ids /\ n.asked = q.asked
      /\ n.todo = q.todo /\ n.entry = q.entry /\ n.label = q.label /\ n.tag = q.tag
      /\ n.owes = q.owes /\ n.old = q.old
  BY <1>1 DEF Missed, Request
<1>3. ~n.alone
  BY <1>1 DEF Missed, Request
<1>4. PlaceFits(n) /\ WorkFits(n)
  BY <1>2 DEF PlaceFits, WorkFits, InHand, Created
<1> QED BY <1>1, <1>2, <1>3, <1>4, CrossedInv

(* What holds of the request that takes a step.                             *)
LEMMA StepFits ==
    ASSUME TagsInv, NEW r \in Requests
    PROVE  /\ req \in [Requests -> Request] /\ req[r] \in Request
           /\ TypeOK /\ LinksArePairs /\ SlugsAreUnique
           /\ RequestInv(req[r]) /\ PlaceFits(req[r]) /\ WorkFits(req[r])
           /\ req[r].at # "invalidate" => req[r].owes = {}
<1>1. RequestInv(req[r]) /\ TypeOK /\ LinksArePairs /\ SlugsAreUnique
  BY DEF TagsInv
<1>2. PlaceFits(req[r]) /\ WorkFits(req[r])
  BY <1>1 DEF RequestInv
<1>3. req \in [Requests -> Request] /\ req[r] \in Request
  BY <1>1 DEF TypeOK
<1> QED BY <1>1, <1>2, <1>3 DEF PlaceFits

(* The loops over entries and labels.                                       *)
LEMMA NextPairStep ==
    ASSUME TagsInv, NEW r \in Requests, NextPair(r)
    PROVE  TagsInv'
<1> DEFINE q == req[r]
<1>1. /\ q \in Request /\ RequestInv(q) /\ PlaceFits(q) /\ WorkFits(q) /\ q.owes = {}
      /\ q.at = "next" /\ q.op \in {"apply", "add", "remove", "untag"}
  BY StepFits DEF NextPair, PlaceFits
<1>2. ASSUME q.todo = {}, Read(r, Done(q))
      PROVE  TagsInv'
  <2>1. q.alone /\ q.op \in {"apply", "add", "bulk_tag"} =>
            \A e \in q.ids, l \in q.asked : e \in entries => Tagged(e, l)
    BY <1>1, <1>2 DEF RequestInv, PairsTagged
  <2>2. q.alone /\ q.op = "untag" =>
            \A e \in q.ids, l \in q.asked : \A t \in LabelRows(l) : <<e, t>> \notin links
    BY <1>1, <1>2 DEF RequestInv, PairsUntagged
  <2>3. RequestInv(Done(q)) /\ Done(q) \in Request
    BY <1>1, <2>1, <2>2, DoneInv, DoneFits
  <2> QED BY <1>1, <1>2, <2>3, ReadKeepsInv
<1>3. ASSUME NEW p \in q.todo,
             Read(r, [q EXCEPT !.at = IF q.op \in {"remove", "untag"} THEN "look" ELSE "find",
                               !.entry = p[1], !.label = p[2]])
      PROVE  TagsInv'
  <2> DEFINE place == IF q.op \in {"remove", "untag"} THEN "look" ELSE "find"
  <2>1. PICK e, l : /\ p = <<e, l>> /\ p[1] = e /\ p[2] = l /\ e \in Entries /\ l \in Labels
                    /\ e \in q.ids /\ l \in q.asked
    BY <1>1 DEF WorkFits, Request
  <2>2. PICK n : n = Taking(q, place, e, l)
    OBVIOUS
  <2>3. Read(r, n)
    BY <1>3, <2>1, <2>2 DEF Taking
  <2>4. /\ place \in {"look", "find"}
        /\ place = "look" => q.op = "untag"
        /\ place = "find" => q.op \in {"apply", "add"}
    BY <1>1, <2>1 DEF WorkFits
  <2> HIDE DEF place, q
  <2>5. /\ n \in Request /\ n.at = place /\ n.op = q.op /\ n.ids = q.ids
        /\ n.asked = q.asked /\ n.todo = q.todo /\ n.entry = e /\ n.label = l
        /\ n.tag = q.tag /\ n.owes = q.owes /\ n.alone = q.alone
    BY <1>1, <2>1, <2>2, <2>4, TakingFits
  <2>6. PlaceFits(n)
    BY <1>1, <2>4, <2>5 DEF PlaceFits
  <2>7. WorkFits(n)
    BY <1>1, <2>1, <2>4, <2>5 DEF WorkFits, InHand, Created
  <2>8. TagIsHeld(n)
    BY <2>4, <2>5 DEF TagIsHeld, Created
  <2>9. PairsTagged(n) /\ PairsUntagged(n)
    BY <1>1, <2>5 DEF RequestInv, PairsTagged, PairsUntagged
  <2>10. req[r].owes = {} /\ RequestInv(n)
    BY <1>1, <2>6, <2>7, <2>8, <2>9 DEF RequestInv, q
  <2> QED BY <2>3, <2>5, <2>10, ReadKeepsInv
<1> QED BY <1>2, <1>3 DEF NextPair

(* find_or_create_tag looks for the slug.                                   *)
LEMMA FindTagStep ==
    ASSUME TagsInv, NEW r \in Requests, FindTag(r)
    PROVE  TagsInv'
<1> DEFINE q == req[r]
<1>1. /\ q \in Request /\ RequestInv(q) /\ PlaceFits(q) /\ WorkFits(q) /\ q.owes = {}
      /\ q.at = "find" /\ q.op \in {"apply", "add"}
  BY StepFits DEF FindTag, PlaceFits
<1>2. ASSUME NEW t \in SlugRows(q.label), Read(r, [q EXCEPT !.at = "link", !.tag = t])
      PROVE  TagsInv'
  <2>1. PICK n : n = Choosing(q, "link", t)
    OBVIOUS
  <2>2. Read(r, n)
    BY <1>2, <2>1 DEF Choosing
  <2>3. t \in TagIds
    BY DEF SlugRows, TagRows
  <2>4. req[r].owes = {}
    BY <1>1
  <2> HIDE DEF q
  <2>5. /\ n \in Request /\ n.at = "link" /\ n.op = q.op /\ n.ids = q.ids
        /\ n.asked = q.asked /\ n.todo = q.todo /\ n.entry = q.entry
        /\ n.label = q.label /\ n.tag = t /\ n.owes = q.owes /\ n.alone = q.alone
    BY <1>1, <2>1, <2>3, ChoosingFits
  <2>6. PlaceFits(n)
    BY <1>1, <2>3, <2>5 DEF PlaceFits
  <2>7. WorkFits(n)
    BY <1>1, <2>5 DEF WorkFits, InHand, Created
  <2>8. TagIsHeld(n)
    BY <2>5 DEF TagIsHeld, Created
  <2>9. PairsTagged(n) /\ PairsUntagged(n)
    BY <1>1, <2>5 DEF RequestInv, PairsTagged, PairsUntagged
  <2> QED BY <2>2, <2>4, <2>5, <2>6, <2>7, <2>8, <2>9, ReadKeepsInv DEF RequestInv
<1>3. ASSUME SlugRows(q.label) = {}, Read(r, [q EXCEPT !.at = "create"])
      PROVE  TagsInv'
  <2>1. PICK n : n = Going(q, "create")
    OBVIOUS
  <2>2. Read(r, n)
    BY <1>3, <2>1 DEF Going
  <2>3. req[r].owes = {}
    BY <1>1
  <2> HIDE DEF q
  <2>4. /\ n \in Request /\ n.at = "create" /\ n.op = q.op /\ n.ids = q.ids
        /\ n.asked = q.asked /\ n.todo = q.todo /\ n.entry = q.entry
        /\ n.label = q.label /\ n.tag = q.tag /\ n.owes = q.owes /\ n.alone = q.alone
    BY <1>1, <2>1, GoingFits
  <2>5. PlaceFits(n)
    BY <1>1, <2>4 DEF PlaceFits
  <2>6. WorkFits(n)
    BY <1>1, <2>4 DEF WorkFits, InHand, Created
  <2>7. TagIsHeld(n)
    BY <1>3, <2>4 DEF TagIsHeld, Created
  <2>8. PairsTagged(n) /\ PairsUntagged(n)
    BY <1>1, <2>4 DEF RequestInv, PairsTagged, PairsUntagged
  <2> QED BY <2>2, <2>3, <2>4, <2>5, <2>6, <2>7, <2>8, ReadKeepsInv DEF RequestInv
<1> QED BY <1>2, <1>3 DEF FindTag, Found

(* A tag keeps the pairs it has as long as it is not renamed.               *)
LEMMA TaggedStays ==
    ASSUME \A t \in TagRows : t \in TagRows' /\ tags'[t] = tags[t], links \subseteq links',
           NEW e, NEW l, Tagged(e, l)
    PROVE  Tagged(e, l)'
BY DEF Tagged, SlugRows

(* The shape of a request that strikes a pair, and of one that ends.        *)
LEMMA StrikeShape ==
    ASSUME NEW q \in Request, PlaceFits(q), WorkFits(q), q.owes = {},
           q.op \in {"apply", "add", "remove", "untag"}
    PROVE  /\ Strike(q) \in Request /\ Strike(q).owes = {}
           /\ PlaceFits(Strike(q)) /\ WorkFits(Strike(q))
<1>1. PICK n : n = Strike(q)
  OBVIOUS
<1>2. /\ n \in Request /\ n.at = "next" /\ n.op = q.op /\ n.ids = q.ids /\ n.asked = q.asked
      /\ n.todo = q.todo \ {<<q.entry, q.label>>} /\ n.owes = {} /\ n.tag = NoTag
  BY <1>1, StrikeFits
<1>3. PlaceFits(n) /\ WorkFits(n)
  BY <1>2 DEF PlaceFits, WorkFits, InHand, Created
<1> QED BY <1>1, <1>2, <1>3

(* The shape of a request that ends.                                        *)
LEMMA DoneShape ==
    ASSUME NEW q \in Request, WorkFits(q)
    PROVE  /\ Done(q) \in Request /\ Done(q).owes = {}
           /\ PlaceFits(Done(q)) /\ WorkFits(Done(q))
<1>1. PICK n : n = Done(q)
  OBVIOUS
<1>2. CASE n = Idle
  BY <1>1, <1>2, IdleFits, IdleInv DEF RequestInv
<1>3. CASE n # Idle
  <2>1. /\ n \in Request /\ n.at = "done" /\ n.op = q.op /\ n.ids = q.ids
        /\ n.asked = q.asked /\ n.todo = {} /\ n.owes = {} /\ n.tag = NoTag
    BY <1>1, <1>3, DoneFits
  <2>2. PlaceFits(n) /\ WorkFits(n)
    BY <2>1 DEF PlaceFits, WorkFits, InHand, Created
  <2> QED BY <1>1, <2>1, <2>2
<1> QED BY <1>2, <1>3

(* A failed statement is no matter if the entry is gone, or the request is  *)
(* not alone any more.                                                      *)
LEMMA FailInv ==
    ASSUME NEW q \in Request, RequestInv(q), q.owes = {}, q.op \in {"apply", "add"},
           q.at \in {"create", "link"}, q.alone => q.entry \notin entries
    PROVE  Fail(q) \in Request /\ RequestInv(Fail(q)) /\ Fail(q).owes = {}
<1>1. CASE q.op = "apply"
  <2>1. RequestInv(Strike(q))
    BY <1>1, StrikeInv
  <2>2. PlaceFits(q) /\ WorkFits(q)
    BY DEF RequestInv
  <2> QED BY <1>1, <2>1, <2>2, StrikeShape DEF Fail
<1>2. CASE q.op = "add"
  <2>1. WorkFits(q) /\ q.entry \in q.ids
    BY <1>2 DEF RequestInv, WorkFits, InHand
  <2>2. q.alone => \A e \in q.ids : e \notin entries
    BY <1>2, <2>1 DEF WorkFits
  <2>3. RequestInv(Done(q))
    BY <1>2, <2>1, <2>2, DoneInv
  <2> QED BY <1>2, <2>1, <2>3, DoneShape DEF Fail
<1> QED BY <1>1, <1>2

(* The INSERT of find_or_create_tag. The unique index keeps it from making  *)
(* a second tag of the slug.                                                *)
LEMMA CreateTagStep ==
    ASSUME TagsInv, NEW r \in Requests, CreateTag(r)
    PROVE  TagsInv'
<1> DEFINE q == req[r]
<1>1. /\ q \in Request /\ RequestInv(q) /\ PlaceFits(q) /\ WorkFits(q) /\ q.owes = {}
      /\ q.at = "create" /\ q.op \in {"apply", "add"}
      /\ TypeOK /\ LinksArePairs /\ SlugsAreUnique
  BY StepFits DEF CreateTag, PlaceFits
<1>2. q.entry \in q.ids /\ q.label \in q.asked /\ q.label \in Labels
  BY <1>1 DEF WorkFits, InHand, Request
<1>3. ASSUME SlugRows(q.label) # {}, Read(r, Fail(q))
      PROVE  TagsInv'
  <2>1. ~q.alone
    BY <1>1, <1>3 DEF RequestInv, TagIsHeld
  <2>2. Fail(q) \in Request /\ RequestInv(Fail(q)) /\ Fail(q).owes = {}
    BY <1>1, <2>1, FailInv
  <2> QED BY <1>1, <1>3, <2>2, ReadKeepsInv
<1>4. ASSUME SlugRows(q.label) = {}, NEW t \in Free, tags' = [tags EXCEPT ![t] = q.label],
             UNCHANGED <<entries, links, rules>>,
             Write(r, [q EXCEPT !.at = "invalidate", !.tag = t, !.owes = {"tags", "stats"}])
      PROVE  TagsInv'
  <2>1. PICK m : m = Choosing(q, "invalidate", t)
    OBVIOUS
  <2>2. PICK n : n = Written(m, {"tags", "stats"})
    OBVIOUS
  <2>3. n = [q EXCEPT !.at = "invalidate", !.tag = t, !.owes = {"tags", "stats"}]
    BY <1>1, <2>1, <2>2 DEF Choosing, Written, Request
  <2>4. Statement(r, n, "stale") /\ req[r].owes = {}
    BY <1>1, <1>4, <2>3 DEF Write
  <2>5. t \in TagIds /\ tags[t] = "unused" /\ {"tags", "stats"} \in SUBSET Lists
    BY DEF Free, Lists
  <2> HIDE DEF q
  <2>6. /\ m \in Request /\ m.op = q.op /\ m.ids = q.ids
        /\ m.asked = q.asked /\ m.todo = q.todo /\ m.entry = q.entry
        /\ m.label = q.label /\ m.tag = t /\ m.alone = q.alone
    BY <1>1, <2>1, <2>5, ChoosingFits
  <2>7. /\ n \in Request /\ n.at = "invalidate" /\ n.op = q.op /\ n.ids = q.ids
        /\ n.asked = q.asked /\ n.todo = q.todo /\ n.entry = q.entry
        /\ n.label = q.label /\ n.tag = t /\ n.owes = {"tags", "stats"}
        /\ n.alone = q.alone
    BY <2>2, <2>5, <2>6, WrittenFits
  <2>8. /\ tags' \in [TagIds -> Labels \cup {"unused", "gone"}]
        /\ tags'[t] = q.label /\ t \notin TagRows
        /\ \A u \in TagIds \ {t} : tags'[u] = tags[u]
    BY <1>1, <1>2, <1>4, <2>5, TagsAssumption DEF TypeOK, TagRows
  <2>9. /\ \A u \in TagRows : u \in TagRows' /\ tags'[u] = tags[u]
        /\ TagRows' = TagRows \cup {t}
    BY <1>2, <2>5, <2>8 DEF TagRows
  <2>10. SlugsAreUnique'
    BY <1>1, <1>4, <2>8, <2>9 DEF SlugsAreUnique, SlugRows
  <2>11. /\ links' \subseteq Entries \X TagIds
         /\ \A l \in links' : l[1] \in entries' /\ tags'[l[2]] \in Labels
    <3>1. \A l \in links : l[2] \in TagIds /\ l[1] \in entries /\ tags[l[2]] \in Labels
      BY <1>1 DEF TypeOK, LinksArePairs
    <3> QED BY <1>1, <1>4, <2>9, <3>1 DEF LinksArePairs, TagRows
  <2>12. PlaceFits(n)' /\ WorkFits(n)'
    BY <1>1, <1>2, <2>7 DEF PlaceFits, WorkFits, InHand, Created
  <2>13. TagIsHeld(n)'
    BY <2>7, <2>8, <2>9 DEF TagIsHeld, SlugRows, Created
  <2>14. PairsTagged(n)' /\ PairsUntagged(n)'
    BY <1>1, <1>4, <2>7, <2>9, TaggedStays DEF RequestInv, PairsTagged, PairsUntagged
  <2>15. Changed \subseteq n.owes
    BY <1>4, <2>7, ListsChange DEF Changed, Lists
  <2>16. RequestInv(n)'
    BY <2>12, <2>13, <2>14 DEF RequestInv
  <2>17. entries' \subseteq entries /\ rules' \subseteq Rules
    BY <1>1, <1>4 DEF TypeOK
  <2> QED BY <2>4, <2>7, <2>8, <2>10, <2>11, <2>15, <2>16, <2>17, StatementKeepsInv
<1>5. ASSUME Read(r, [Fail(q) EXCEPT !.alone = FALSE])
      PROVE  TagsInv'
  <2>1. /\ Fail(q) \in Request /\ PlaceFits(Fail(q)) /\ WorkFits(Fail(q))
        /\ Fail(q).owes = {}
    BY <1>1, StrikeShape, DoneShape DEF Fail
  <2>2. Read(r, Missed(Fail(q)))
    BY <1>5 DEF Missed
  <2> QED BY <1>1, <2>1, <2>2, MissedInv, ReadKeepsInv
<1> QED BY <1>3, <1>4, <1>5 DEF CreateTag

(* The INSERT of a link. The tag a request found or created still is the    *)
(* one of its label, unless another has renamed or deleted it.              *)
LEMMA LinkTagStep ==
    ASSUME TagsInv, NEW r \in Requests, LinkTag(r)
    PROVE  TagsInv'
<1> DEFINE q == req[r]
<1>1. /\ q \in Request /\ RequestInv(q) /\ PlaceFits(q) /\ WorkFits(q) /\ q.owes = {}
      /\ q.at = "link" /\ q.op \in {"apply", "add"} /\ q.tag \in TagIds
      /\ TypeOK /\ LinksArePairs /\ SlugsAreUnique
  BY StepFits DEF LinkTag, PlaceFits
<1>2. q.entry \in q.ids /\ q.label \in q.asked /\ q.entry \in Entries
  BY <1>1 DEF WorkFits, InHand, Request
<1>3. q.alone => q.tag \in SlugRows(q.label)
  BY <1>1 DEF RequestInv, TagIsHeld
<1>4. ASSUME q.entry \in entries, q.tag \in TagRows, links' = links \cup {<<q.entry, q.tag>>},
             UNCHANGED <<entries, tags, rules>>,
             Write(r, [Strike(q) EXCEPT !.at = "invalidate", !.owes = {"stats"}])
      PROVE  TagsInv'
  <2>1. PICK n : n = Written(Strike(q), {"stats"})
    OBVIOUS
  <2>2. Statement(r, n, "stale") /\ req[r].owes = {}
    BY <1>1, <1>4, <2>1 DEF Write, Written
  <2>3. /\ Strike(q) \in Request /\ Strike(q).op = q.op
        /\ Strike(q).ids = q.ids /\ Strike(q).asked = q.asked
        /\ Strike(q).todo = q.todo \ {<<q.entry, q.label>>}
        /\ Strike(q).alone = q.alone /\ Strike(q).tag = NoTag
    BY <1>1, StrikeFits
  <2>4. {"stats"} \in SUBSET Lists
    BY DEF Lists
  <2>5. /\ n \in Request /\ n.at = "invalidate" /\ n.op = q.op /\ n.ids = q.ids
        /\ n.asked = q.asked /\ n.todo = q.todo \ {<<q.entry, q.label>>}
        /\ n.tag = NoTag /\ n.owes = {"stats"} /\ n.alone = q.alone
    BY <2>1, <2>3, <2>4, WrittenFits
  <2> HIDE DEF q
  <2>6. links' \subseteq Entries \X TagIds
    BY <1>1, <1>2, <1>4 DEF LinksArePairs
  <2>7. \A l \in links' : l[1] \in entries' /\ tags'[l[2]] \in Labels
    BY <1>1, <1>4 DEF TypeOK, TagRows
  <2>8. SlugsAreUnique' /\ (\A t \in TagRows : t \in TagRows' /\ tags'[t] = tags[t])
    BY <1>1, <1>4 DEF SlugsAreUnique, TagRows
  <2>9. PlaceFits(n)' /\ WorkFits(n)' /\ TagIsHeld(n)' /\ PairsUntagged(n)'
    BY <1>1, <2>5 DEF PlaceFits, WorkFits, TagIsHeld, InHand, Created, PairsUntagged
  <2>10. PairsTagged(n)'
    <3> SUFFICES ASSUME q.alone, NEW e \in q.ids, NEW l \in q.asked, e \in entries,
                        <<e, l>> \notin n.todo
                 PROVE  Tagged(e, l)'
      BY <1>4, <2>5 DEF PairsTagged
    <3>1. CASE e = q.entry /\ l = q.label
      BY <1>3, <1>4, <2>8, <3>1 DEF Tagged, SlugRows
    <3>2. CASE ~(e = q.entry /\ l = q.label)
      <4>1. Tagged(e, l)
        BY <1>1, <2>5, <3>2 DEF RequestInv, PairsTagged
      <4> QED BY <1>4, <2>8, <4>1, TaggedStays
    <3> QED BY <3>1, <3>2
  <2>11. Changed \subseteq n.owes
    BY <1>4, <2>5, ListsChange DEF Changed, Lists
  <2>12. /\ entries' \subseteq entries /\ rules' \subseteq Rules
         /\ tags' \in [TagIds -> Labels \cup {"unused", "gone"}]
    BY <1>1, <1>4 DEF TypeOK
  <2>13. RequestInv(n)'
    BY <2>9, <2>10 DEF RequestInv
  <2> QED BY <2>2, <2>5, <2>6, <2>7, <2>8, <2>11, <2>12, <2>13, StatementKeepsInv
<1>5. ASSUME ~(q.entry \in entries /\ q.tag \in TagRows), Read(r, Fail(q))
      PROVE  TagsInv'
  <2>1. q.alone => q.entry \notin entries
    BY <1>3, <1>5 DEF SlugRows
  <2>2. Fail(q) \in Request /\ RequestInv(Fail(q)) /\ Fail(q).owes = {}
    BY <1>1, <2>1, FailInv
  <2> QED BY <1>1, <1>5, <2>2, ReadKeepsInv
<1> QED BY <1>4, <1>5 DEF LinkTag

(* The bulk request opens.                                                  *)
LEMMA BulkTagStep ==
    ASSUME TagsInv, NEW r \in Requests, BulkTag(r)
    PROVE  TagsInv'
<1>1. PICK S \in SUBSET entries \ {{}}, L \in Batches :
          Read(r, [Idle EXCEPT !.op = "bulk_tag", !.at = "link_all", !.ids = S, !.asked = L])
  BY DEF BulkTag
<1>2. PICK n : n = Busied(Idle, "bulk_tag", "link_all", S, L, {})
  OBVIOUS
<1>3. WorkOK("bulk_tag", "link_all", S, L, {})
  BY TagsAssumption DEF TagsInv, TypeOK, AllOps, WorkOK
<1>4. Idle \in Request /\ Idle.owes = {}
  BY IdleFits
<1>5. BusiedOK(Idle, n, "bulk_tag", "link_all", S, L, {})
  BY <1>2, <1>3, <1>4, BusiedFits
<1>6. /\ n \in Request /\ n.op = "bulk_tag" /\ n.at = "link_all" /\ n.ids = S /\ n.asked = L
      /\ n.todo = {} /\ n.owes = {}
  BY <1>4, <1>5 DEF BusiedOK
<1>7. n = [Idle EXCEPT !.op = "bulk_tag", !.at = "link_all", !.ids = S, !.asked = L]
  <2>1. PICK p \in Request : p = Idle /\ p.todo = {}
    BY IdleFits
  <2>2. Busied(p, "bulk_tag", "link_all", S, L, {})
            = [p EXCEPT !.op = "bulk_tag", !.at = "link_all", !.ids = S, !.asked = L]
    BY <2>1 DEF Busied, Request
  <2> QED BY <1>2, <2>1, <2>2
<1>8. Read(r, n) /\ req[r].owes = {}
  BY <1>1, <1>7, OpenFits DEF BulkTag
<1>9. PlaceFits(n) /\ TagIsHeld(n) /\ WorkFits(n)
  BY <1>6 DEF PlaceFits, TagIsHeld, Created, WorkFits, InHand
<1>10. PairsTagged(n) /\ PairsUntagged(n)
  BY <1>6 DEF PairsTagged, PairsUntagged
<1> QED BY <1>6, <1>8, <1>9, <1>10, ReadKeepsInv DEF RequestInv

(* As many new tags as slugs are missing, and every one of the slugs: each  *)
(* new tag has a slug of its own.                                           *)
LEMMA NewSlugsDiffer ==
    ASSUME NEW T \in SUBSET TagIds, NEW M, NEW g \in [T -> M],
           Cardinality(T) = Cardinality(M), {g[t] : t \in T} = M,
           NEW t \in T, NEW u \in T, g[t] = g[u]
    PROVE  t = u
<1>1. IsFiniteSet(T)
  BY TagsAssumption, FS_Subset
<1>2. g \in Surjection(T, M)
  BY DEF Surjection
<1>3. g \in Injection(T, M)
  BY <1>1, <1>2, FS_Surjection
<1> QED BY <1>3 DEF Injection, IsInjective

(* The transaction of ensure_and_link.                                      *)
LEMMA LinkAllStep ==
    ASSUME TagsInv, NEW r \in Requests, LinkAll(r)
    PROVE  TagsInv'
<1> DEFINE q == req[r]
<1>1. /\ q \in Request /\ RequestInv(q) /\ PlaceFits(q) /\ WorkFits(q) /\ q.owes = {}
      /\ q.at = "link_all" /\ q.op = "bulk_tag" /\ q.todo = {}
      /\ TypeOK /\ LinksArePairs /\ SlugsAreUnique
  BY StepFits DEF LinkAll, PlaceFits, WorkFits
<1>2. ASSUME q.ids \subseteq entries, NEW T \in SUBSET Free,
             NEW f \in [T -> {l \in q.asked : SlugRows(l) = {}}],
             Cardinality(T) = Cardinality(Missing(q.asked)),
             {Slug[f[t]] : t \in T} = Missing(q.asked),
             tags' = [t \in TagIds |-> IF t \in T THEN f[t] ELSE tags[t]],
             links' = links \cup (q.ids \X (T \cup UNION {SlugRows(l) : l \in q.asked})),
             UNCHANGED <<entries, rules>>,
             Write(r, [q EXCEPT !.at = "invalidate", !.owes = {"tags", "stats"}])
      PROVE  TagsInv'
  <2>1. PICK n : n = Written(q, {"tags", "stats"})
    OBVIOUS
  <2>2. Statement(r, n, "stale") /\ req[r].owes = {}
    BY <1>1, <1>2, <2>1 DEF Write, Written
  <2>3. {"tags", "stats"} \in SUBSET Lists
    BY DEF Lists
  <2> HIDE DEF q
  <2>4. /\ n \in Request /\ n.at = "invalidate" /\ n.op = "bulk_tag" /\ n.ids = q.ids
        /\ n.asked = q.asked /\ n.todo = {} /\ n.owes = {"tags", "stats"}
        /\ n.alone = q.alone
    BY <1>1, <2>1, <2>3, WrittenFits
  <2>5. q.asked \subseteq Labels /\ q.ids \subseteq Entries
    BY <1>1 DEF Request
  <2>6. /\ T \subseteq TagIds /\ \A t \in T : t \notin TagRows
        /\ \A t \in T : f[t] \in Labels /\ SlugRows(f[t]) = {} /\ tags'[t] = f[t]
        /\ \A t \in TagIds \ T : tags'[t] = tags[t]
    BY <1>2, <2>5, TagsAssumption DEF Free, TagRows
  <2>7. /\ TagRows' = TagRows \cup T
        /\ \A t \in TagRows : t \in TagRows' /\ tags'[t] = tags[t]
        /\ tags' \in [TagIds -> Labels \cup {"unused", "gone"}]
    BY <1>1, <1>2, <2>6 DEF TagRows, TypeOK
  <2>8. SlugsAreUnique'
    <3> SUFFICES ASSUME NEW t \in TagRows \cup T, NEW u \in TagRows \cup T,
                        Slug[tags'[t]] = Slug[tags'[u]]
                 PROVE  t = u
      BY <2>7 DEF SlugsAreUnique
    <3>1. CASE t \in TagRows /\ u \in TagRows
      BY <1>1, <2>7, <3>1 DEF SlugsAreUnique
    <3>2. CASE t \in T /\ u \in TagRows
      BY <2>6, <2>7, <3>2 DEF SlugRows
    <3>3. CASE t \in TagRows /\ u \in T
      BY <2>6, <2>7, <3>3 DEF SlugRows
    <3>4. CASE t \in T /\ u \in T
      <4> DEFINE g == [x \in T |-> Slug[f[x]]]
                 M == Missing(q.asked)
      <4>1. {g[x] : x \in T} = M
        BY <1>2
      <4>2. g \in [T -> M]
        BY <1>2
      <4>3. g[t] = g[u]
        BY <2>6, <3>4
      <4>4. T \in SUBSET TagIds /\ Cardinality(T) = Cardinality(M)
        BY <1>2, <2>6
      <4> HIDE DEF g, M
      <4> QED BY <3>4, <4>1, <4>2, <4>3, <4>4, NewSlugsDiffer
    <3> QED BY <3>1, <3>2, <3>3, <3>4
  <2>9. links' \subseteq Entries \X TagIds /\ links \subseteq links'
    BY <1>1, <1>2, <2>5, <2>6 DEF LinksArePairs, SlugRows, TagRows
  <2>10. \A l \in links' : l[1] \in entries' /\ tags'[l[2]] \in Labels
    <3>1. \A l \in links : l[1] \in entries' /\ l[2] \in TagRows
      BY <1>1, <1>2 DEF TypeOK, LinksArePairs, TagRows
    <3>2. \A l \in q.ids \X (T \cup UNION {SlugRows(x) : x \in q.asked}) :
              l[1] \in entries' /\ l[2] \in TagRows \cup T
      BY <1>2 DEF SlugRows
    <3>3. \A t \in TagRows \cup T : tags'[t] \in Labels
      BY <2>7 DEF TagRows
    <3> QED BY <1>2, <3>1, <3>2, <3>3
  <2>11. \A e \in q.ids, l \in q.asked : Tagged(e, l)'
    <3> SUFFICES ASSUME NEW e \in q.ids, NEW l \in q.asked
                 PROVE  \E t \in TagRows' : Slug[tags'[t]] = Slug[l] /\ <<e, t>> \in links'
      BY DEF Tagged, SlugRows
    <3>1. CASE SlugRows(l) = {}
      <4>1. Slug[l] \in Missing(q.asked)
        BY <3>1 DEF Missing
      <4>2. PICK t \in T : Slug[f[t]] = Slug[l]
        BY <1>2, <4>1
      <4> QED BY <1>2, <2>6, <2>7, <4>2
    <3>2. CASE SlugRows(l) # {}
      <4>1. PICK t : t \in SlugRows(l)
        BY <3>2
      <4>2. t \in TagRows /\ Slug[tags[t]] = Slug[l]
        BY <4>1 DEF SlugRows
      <4>3. <<e, t>> \in links'
        BY <1>2, <4>1
      <4> QED BY <2>7, <4>2, <4>3
    <3> QED BY <3>1, <3>2
  <2>12. PlaceFits(n)' /\ WorkFits(n)' /\ TagIsHeld(n)' /\ PairsUntagged(n)'
    BY <2>4 DEF PlaceFits, WorkFits, TagIsHeld, InHand, Created, PairsUntagged
  <2>13. PairsTagged(n)'
    BY <2>4, <2>11 DEF PairsTagged
  <2>14. Changed \subseteq n.owes
    BY <1>2, <2>4, ListsChange DEF Changed, Lists
  <2>15. entries' \subseteq entries /\ rules' \subseteq Rules
    BY <1>1, <1>2 DEF TypeOK
  <2>16. RequestInv(n)'
    BY <2>12, <2>13 DEF RequestInv
  <2> QED BY <2>2, <2>4, <2>7, <2>8, <2>9, <2>10, <2>14, <2>15, <2>16, StatementKeepsInv
<1>3. ASSUME Read(r, [Done(q) EXCEPT !.alone = FALSE])
      PROVE  TagsInv'
  <2>1. /\ Done(q) \in Request /\ PlaceFits(Done(q)) /\ WorkFits(Done(q)) /\ Done(q).owes = {}
    BY <1>1, DoneShape
  <2>2. Read(r, Missed(Done(q)))
    BY <1>3 DEF Missed
  <2> QED BY <1>1, <2>1, <2>2, MissedInv, ReadKeepsInv
<1> QED BY <1>2, <1>3 DEF LinkAll

-----------------------------------------------------------------------------
(* Untagging.                                                               *)

(* The record of a request to take a tag off an entry.                      *)
Removing(p, e, t) == [p EXCEPT !.op = "remove", !.at = "unlink", !.entry = e, !.tag = t]

(* It is a request.                                                         *)
LEMMA RemovingFits ==
    ASSUME NEW p \in Request, NEW e \in Entries, NEW t \in TagIds, NEW n, n = Removing(p, e, t)
    PROVE  /\ n \in Request /\ n.op = "remove" /\ n.at = "unlink" /\ n.entry = e
           /\ n.tag = t /\ n.ids = p.ids /\ n.todo = p.todo /\ n.owes = p.owes
BY DEF Removing, Request, AllOps

(* remove_tag of an entry, and the bulk request to untag.                   *)
LEMMA RemoveTagStep ==
    ASSUME TagsInv, NEW r \in Requests, RemoveTag(r)
    PROVE  TagsInv'
<1>1. req[r] = Idle /\ req[r].owes = {} /\ Idle \in Request /\ Idle.owes = {}
      /\ Idle.ids = {} /\ Idle.todo = {}
  BY OpenFits, IdleFits DEF RemoveTag
<1>2. ASSUME NEW e \in entries, NEW t \in TagIds,
             Read(r, [Idle EXCEPT !.op = "remove", !.at = "unlink", !.entry = e, !.tag = t])
      PROVE  TagsInv'
  <2>1. PICK n : n = Removing(Idle, e, t)
    OBVIOUS
  <2>2. e \in Entries
    BY DEF TagsInv, TypeOK
  <2>3. /\ n \in Request /\ n.op = "remove" /\ n.at = "unlink" /\ n.entry = e
        /\ n.tag = t /\ n.ids = {} /\ n.todo = {} /\ n.owes = {}
    BY <1>1, <2>1, <2>2, RemovingFits
  <2>4. Read(r, n)
    BY <1>2, <2>1 DEF Removing
  <2>5. PlaceFits(n) /\ WorkFits(n) /\ TagIsHeld(n)
    BY <2>2, <2>3 DEF PlaceFits, WorkFits, TagIsHeld, InHand, Created
  <2>6. PairsTagged(n) /\ PairsUntagged(n)
    BY <2>3 DEF PairsTagged, PairsUntagged
  <2> QED BY <1>1, <2>3, <2>4, <2>5, <2>6, ReadKeepsInv DEF RequestInv
<1>3. ASSUME NEW S \in SUBSET entries \ {{}}, NEW L \in Batches,
             Read(r, [Idle EXCEPT !.op = "untag", !.at = "next", !.ids = S,
                                  !.asked = L, !.todo = S \X L])
      PROVE  TagsInv'
  <2>1. PICK n : n = Busied(Idle, "untag", "next", S, L, S \X L)
    OBVIOUS
  <2>2. WorkOK("untag", "next", S, L, S \X L)
    BY TagsAssumption DEF TagsInv, TypeOK, AllOps, WorkOK
  <2>3. BusiedOK(Idle, n, "untag", "next", S, L, S \X L)
    BY <1>1, <2>1, <2>2, BusiedFits
  <2>4. /\ n \in Request /\ n.op = "untag" /\ n.at = "next" /\ n.ids = S /\ n.asked = L
        /\ n.todo = S \X L /\ n.owes = {}
    BY <1>1, <2>3 DEF BusiedOK
  <2>5. Read(r, n)
    BY <1>3, <2>1 DEF Busied
  <2>6. PlaceFits(n) /\ WorkFits(n) /\ TagIsHeld(n)
    BY <2>4 DEF PlaceFits, WorkFits, TagIsHeld, InHand, Created
  <2>7. PairsTagged(n) /\ PairsUntagged(n)
    BY <2>4 DEF PairsTagged, PairsUntagged
  <2> QED BY <1>1, <2>4, <2>5, <2>6, <2>7, ReadKeepsInv DEF RequestInv
<1> QED BY <1>2, <1>3 DEF RemoveTag

(* The label of the pair in hand is looked up by its text.                  *)
LEMMA LookUpTagStep ==
    ASSUME TagsInv, NEW r \in Requests, LookUpTag(r)
    PROVE  TagsInv'
<1> DEFINE q == req[r]
<1>1. /\ q \in Request /\ RequestInv(q) /\ PlaceFits(q) /\ WorkFits(q) /\ q.owes = {}
      /\ q.at = "look" /\ q.op = "untag"
  BY StepFits DEF LookUpTag, PlaceFits
<1>2. ASSUME NEW t \in LabelRows(q.label), Read(r, [q EXCEPT !.at = "unlink", !.tag = t])
      PROVE  TagsInv'
  <2>1. PICK n : n = Choosing(q, "unlink", t)
    OBVIOUS
  <2>2. Read(r, n) /\ req[r].owes = {}
    BY <1>1, <1>2, <2>1 DEF Choosing
  <2>3. t \in TagIds
    BY DEF LabelRows, TagRows
  <2>4. q.entry \in q.ids /\ q.label \in q.asked /\ q.entry \in Entries
    BY <1>1 DEF WorkFits, InHand, Request
  <2> HIDE DEF q
  <2>5. /\ n \in Request /\ n.at = "unlink" /\ n.op = q.op /\ n.ids = q.ids
        /\ n.asked = q.asked /\ n.todo = q.todo /\ n.entry = q.entry
        /\ n.label = q.label /\ n.tag = t /\ n.owes = q.owes /\ n.alone = q.alone
    BY <1>1, <2>1, <2>3, ChoosingFits
  <2>6. PlaceFits(n) /\ TagIsHeld(n)
    BY <1>1, <1>2, <2>3, <2>4, <2>5 DEF PlaceFits, TagIsHeld, Created
  <2>7. WorkFits(n)
    BY <1>1, <2>4, <2>5 DEF WorkFits, InHand, Created
  <2>8. PairsTagged(n) /\ PairsUntagged(n)
    BY <1>1, <2>5 DEF RequestInv, PairsTagged, PairsUntagged
  <2> QED BY <2>2, <2>5, <2>6, <2>7, <2>8, ReadKeepsInv DEF RequestInv, q
<1>3. ASSUME LabelRows(q.label) = {}, Read(r, Strike(q))
      PROVE  TagsInv'
  <2>1. RequestInv(Strike(q)) /\ Strike(q) \in Request
    BY <1>1, <1>3, StrikeInv, StrikeFits
  <2> QED BY <1>1, <1>3, <2>1, ReadKeepsInv
<1> QED BY <1>2, <1>3 DEF LookUpTag, PassOver

(* The DELETE of a link.                                                    *)
LEMMA UnlinkStep ==
    ASSUME TagsInv, NEW r \in Requests, Unlink(r)
    PROVE  TagsInv'
<1> DEFINE q == req[r]
<1>1. /\ q \in Request /\ RequestInv(q) /\ PlaceFits(q) /\ WorkFits(q) /\ q.owes = {}
      /\ q.at = "unlink" /\ q.op \in {"remove", "untag"}
      /\ TypeOK /\ LinksArePairs /\ SlugsAreUnique
  BY StepFits DEF Unlink, PlaceFits
<1>2. ASSUME q.alone, q.op = "untag", NEW t \in LabelRows(q.label)
      PROVE  t = q.tag
  BY <1>1, <1>2 DEF RequestInv, TagIsHeld, LabelRows, SlugsAreUnique
<1>3. ASSUME links' = links \ {<<q.entry, q.tag>>}, UNCHANGED <<entries, tags, rules>>,
             Write(r, [Strike(q) EXCEPT !.at = "invalidate", !.owes = {"stats"}])
      PROVE  TagsInv'
  <2>1. PICK n : n = Written(Strike(q), {"stats"})
    OBVIOUS
  <2>2. Statement(r, n, "stale") /\ req[r].owes = {}
    BY <1>1, <1>3, <2>1 DEF Write, Written
  <2>3. /\ Strike(q) \in Request /\ Strike(q).op = q.op
        /\ Strike(q).ids = q.ids /\ Strike(q).asked = q.asked
        /\ Strike(q).todo = q.todo \ {<<q.entry, q.label>>}
        /\ Strike(q).alone = q.alone /\ Strike(q).tag = NoTag
    BY <1>1, StrikeFits
  <2>4. {"stats"} \in SUBSET Lists
    BY DEF Lists
  <2>5. /\ n \in Request /\ n.at = "invalidate" /\ n.op = q.op /\ n.ids = q.ids
        /\ n.asked = q.asked /\ n.todo = q.todo \ {<<q.entry, q.label>>}
        /\ n.tag = NoTag /\ n.owes = {"stats"} /\ n.alone = q.alone
    BY <2>1, <2>3, <2>4, WrittenFits
  <2> HIDE DEF q
  <2>6. links' \subseteq Entries \X TagIds
    BY <1>1, <1>3 DEF LinksArePairs
  <2>7. \A l \in links' : l[1] \in entries' /\ tags'[l[2]] \in Labels
    BY <1>1, <1>3 DEF TypeOK
  <2>8. SlugsAreUnique' /\ \A l : LabelRows(l)' = LabelRows(l)
    BY <1>1, <1>3 DEF SlugsAreUnique, TagRows, LabelRows
  <2>9. PlaceFits(n)' /\ WorkFits(n)' /\ TagIsHeld(n)' /\ PairsTagged(n)'
    BY <1>1, <2>5 DEF PlaceFits, WorkFits, TagIsHeld, InHand, Created, PairsTagged
  <2>10. PairsUntagged(n)'
    <3> SUFFICES ASSUME q.alone, q.op = "untag", NEW e \in q.ids, NEW l \in q.asked,
                        <<e, l>> \notin n.todo, NEW t \in LabelRows(l)
                 PROVE  <<e, t>> \notin links'
      BY <2>5, <2>8 DEF PairsUntagged
    <3>1. CASE e = q.entry /\ l = q.label
      BY <1>2, <1>3, <3>1
    <3>2. CASE ~(e = q.entry /\ l = q.label)
      <4>1. <<e, t>> \notin links
        BY <1>1, <2>5, <3>2 DEF RequestInv, PairsUntagged
      <4> QED BY <1>3, <4>1
    <3> QED BY <3>1, <3>2
  <2>11. Changed \subseteq n.owes
    BY <1>3, <2>5, ListsChange DEF Changed, Lists
  <2>12. /\ entries' \subseteq entries /\ rules' \subseteq Rules
         /\ tags' \in [TagIds -> Labels \cup {"unused", "gone"}]
    BY <1>1, <1>3 DEF TypeOK
  <2>13. RequestInv(n)'
    BY <2>9, <2>10 DEF RequestInv
  <2> QED BY <2>2, <2>5, <2>6, <2>7, <2>8, <2>11, <2>12, <2>13, StatementKeepsInv
<1>4. ASSUME <<q.entry, q.tag>> \notin links, Read(r, Strike(q))
      PROVE  TagsInv'
  <2>1. q.alone /\ q.op = "untag" => \A t \in LabelRows(q.label) : <<q.entry, t>> \notin links
    BY <1>2, <1>4
  <2>2. RequestInv(Strike(q)) /\ Strike(q) \in Request
    BY <1>1, <2>1, StrikeInv, StrikeFits
  <2> QED BY <1>1, <1>4, <2>2, ReadKeepsInv
<1> QED BY <1>3, <1>4 DEF Unlink

-----------------------------------------------------------------------------
(* The tags themselves.                                                     *)

(* The record of a request to rename a tag.                                 *)
Renaming(p, t, l) == [p EXCEPT !.op = "rename", !.at = "rename", !.tag = t, !.label = l]

(* It is a request.                                                         *)
LEMMA RenamingFits ==
    ASSUME NEW p \in Request, NEW t \in TagIds, NEW l \in Labels, NEW n, n = Renaming(p, t, l)
    PROVE  /\ n \in Request /\ n.op = "rename" /\ n.at = "rename" /\ n.tag = t
           /\ n.label = l /\ n.todo = p.todo /\ n.owes = p.owes /\ n.ids = p.ids
BY DEF Renaming, Request, AllOps

(* rename_tag looks for other tags of the slug.                             *)
LEMMA RenameTagStep ==
    ASSUME TagsInv, NEW r \in Requests, RenameTag(r)
    PROVE  TagsInv'
<1>1. PICK t \in TagIds, l \in Labels :
          Read(r, [Idle EXCEPT !.op = "rename", !.at = "rename", !.tag = t, !.label = l])
  BY DEF RenameTag
<1>2. req[r].owes = {} /\ Idle \in Request /\ Idle.owes = {} /\ Idle.todo = {}
      /\ Idle.ids = {}
  BY OpenFits, IdleFits DEF RenameTag
<1>3. PICK n : n = Renaming(Idle, t, l)
  OBVIOUS
<1>4. /\ n \in Request /\ n.op = "rename" /\ n.at = "rename" /\ n.tag = t
      /\ n.label = l /\ n.todo = {} /\ n.owes = {} /\ n.ids = {}
  BY <1>2, <1>3, RenamingFits
<1>5. Read(r, n)
  BY <1>1, <1>3 DEF Renaming
<1>6. RequestInv(n)
  BY <1>4, PlainInv
<1> QED BY <1>2, <1>4, <1>5, <1>6, ReadKeepsInv

(* The UPDATE of a label, which the unique index may refuse.                *)
LEMMA UpdateLabelStep ==
    ASSUME TagsInv, NEW r \in Requests, UpdateLabel(r)
    PROVE  TagsInv'
<1> DEFINE q == req[r]
           t == q.tag
<1>1. /\ q \in Request /\ PlaceFits(q) /\ WorkFits(q) /\ q.owes = {}
      /\ q.at = "rename" /\ q.op = "rename" /\ t \in TagIds /\ q.label \in Labels
      /\ TypeOK /\ LinksArePairs /\ SlugsAreUnique
  BY StepFits DEF UpdateLabel, PlaceFits
<1>2. q.ids = {} /\ q.todo = {}
  BY <1>1 DEF WorkFits
<1>3. ASSUME t \in TagRows, SlugRows(q.label) \subseteq {t},
             tags' = [tags EXCEPT ![t] = q.label], UNCHANGED <<entries, links, rules>>,
             Write(r, [q EXCEPT !.at = "invalidate", !.owes = Labelled])
      PROVE  TagsInv'
  <2>1. PICK n : n = Written(q, {"tags", "stats"})
    OBVIOUS
  <2>2. Statement(r, n, "stale") /\ req[r].owes = {}
    BY <1>1, <1>3, <2>1 DEF Write, Written, Labelled
  <2>3. {"tags", "stats"} \in SUBSET Lists
    BY DEF Lists
  <2> HIDE DEF q, t
  <2>4. /\ n \in Request /\ n.at = "invalidate" /\ n.op = "rename" /\ n.ids = {}
        /\ n.todo = {} /\ n.owes = {"tags", "stats"}
    BY <1>1, <1>2, <2>1, <2>3, WrittenFits
  <2>5. /\ tags' \in [TagIds -> Labels \cup {"unused", "gone"}]
        /\ tags'[t] = q.label /\ \A u \in TagIds \ {t} : tags'[u] = tags[u]
        /\ TagRows' = TagRows
    BY <1>1, <1>3 DEF TypeOK, TagRows
  <2>6. SlugsAreUnique'
    BY <1>1, <1>3, <2>5 DEF SlugsAreUnique, SlugRows, TagRows
  <2>7. links' \subseteq Entries \X TagIds
    BY <1>1, <1>3 DEF LinksArePairs
  <2>8. \A l \in links' : l[1] \in entries' /\ tags'[l[2]] \in Labels
    <3>1. \A l \in links : l[1] \in entries /\ l[2] \in TagRows
      BY <1>1 DEF TypeOK, LinksArePairs, TagRows
    <3>2. \A u \in TagRows : tags'[u] \in Labels
      BY <2>5 DEF TagRows
    <3> QED BY <1>3, <3>1, <3>2
  <2>9. Changed \subseteq n.owes
    BY <1>3, <2>4, ListsChange DEF Changed, Lists
  <2>10. entries' \subseteq entries /\ rules' \subseteq Rules
    BY <1>1, <1>3 DEF TypeOK
  <2>11. RequestInv(n)'
    BY <2>4, PlainInv
  <2> QED BY <2>2, <2>4, <2>5, <2>6, <2>7, <2>8, <2>9, <2>10, <2>11, StatementKeepsInv
<1>4. ASSUME Read(r, Done(q))
      PROVE  TagsInv'
  <2>1. RequestInv(Done(q)) /\ Done(q) \in Request
    BY <1>1, DoneInv, DoneFits
  <2> QED BY <1>1, <1>4, <2>1, ReadKeepsInv
<1> QED BY <1>3, <1>4 DEF UpdateLabel

(* The record of a request that is one statement.                           *)
Stated(p, op, K) == [p EXCEPT !.op = op, !.at = "invalidate", !.owes = K]

(* It is a request and owes these lists.                                    *)
LEMMA StatedFits ==
    ASSUME NEW p \in Request, NEW op \in {"delete", "create_rule", "delete_rule"},
           NEW K \in SUBSET Lists, NEW n, n = Stated(p, op, K)
    PROVE  /\ n \in Request /\ n.op = op /\ n.at = "invalidate" /\ n.owes = K
           /\ n.todo = p.todo
BY DEF Stated, Request, AllOps

(* The DELETE of a tag, with its links.                                     *)
LEMMA DeleteTagStep ==
    ASSUME TagsInv, NEW r \in Requests, DeleteTag(r)
    PROVE  TagsInv'
<1>1. PICK t \in TagRows : tags' = [tags EXCEPT ![t] = "gone"] /\ links' = LinksWithout(t)
  BY DEF DeleteTag
<1>2. /\ req[r].owes = {} /\ Idle \in Request /\ Idle.todo = {}
      /\ TypeOK /\ LinksArePairs /\ SlugsAreUnique /\ UNCHANGED <<entries, rules>>
  BY OpenFits, IdleFits, StepFits DEF DeleteTag
<1>3. PICK n : n = Stated(Idle, "delete", {"tags", "stats"})
  OBVIOUS
<1>4. {"tags", "stats"} \in SUBSET Lists
  BY DEF Lists
<1>5. /\ n \in Request /\ n.op = "delete" /\ n.at = "invalidate"
      /\ n.owes = {"tags", "stats"} /\ n.todo = {}
  BY <1>2, <1>3, <1>4, StatedFits
<1>6. Statement(r, n, "stale")
  BY <1>3 DEF DeleteTag, Write, Stated, Labelled
<1>7. /\ t \in TagIds /\ tags' \in [TagIds -> Labels \cup {"unused", "gone"}]
      /\ tags'[t] = "gone" /\ \A u \in TagIds \ {t} : tags'[u] = tags[u]
      /\ "gone" \notin Labels /\ TagRows' = TagRows \ {t}
  BY <1>1, <1>2, TagsAssumption DEF TypeOK, TagRows
<1>8. SlugsAreUnique'
  BY <1>2, <1>7 DEF SlugsAreUnique, TagRows
<1>9. links' \subseteq Entries \X TagIds
  BY <1>1, <1>2 DEF LinksArePairs, LinksWithout
<1>10. \A l \in links' : l[1] \in entries' /\ tags'[l[2]] \in Labels
  BY <1>1, <1>2, <1>7 DEF TypeOK, LinksArePairs, LinksWithout
<1>11. Changed \subseteq n.owes
  BY <1>2, <1>5, ListsChange DEF Changed, Lists
<1>12. entries' \subseteq entries /\ rules' \subseteq Rules
  BY <1>2 DEF TypeOK
<1>13. RequestInv(n)'
  BY <1>5, PlainInv
<1> QED BY <1>2, <1>5, <1>6, <1>7, <1>8, <1>9, <1>10, <1>11, <1>12, <1>13, StatementKeepsInv

-----------------------------------------------------------------------------
(* Tagging rules.                                                           *)

(* A statement on rules alone.                                              *)
LEMMA RulesStatementKeepsInv ==
    ASSUME TagsInv, NEW r \in Requests, NEW n \in Request, NEW left \in {"stale", "late"},
           Statement(r, n, left), req[r].owes = {}, rules' \subseteq Rules,
           UNCHANGED <<entries, tags, links>>, RequestInv(n),
           left = "stale" => "rules" \in n.owes
    PROVE  TagsInv'
<1>1. TypeOK /\ LinksArePairs /\ SlugsAreUnique
  BY DEF TagsInv
<1>2. /\ entries' \subseteq entries /\ links' \subseteq Entries \X TagIds
      /\ tags' \in [TagIds -> Labels \cup {"unused", "gone"}]
      /\ \A l \in links' : l[1] \in entries' /\ tags'[l[2]] \in Labels
  BY <1>1 DEF TypeOK, LinksArePairs
<1>3. SlugsAreUnique'
  BY <1>1 DEF SlugsAreUnique, TagRows
<1>4. left = "stale" => Changed \subseteq n.owes
  BY ListsChange DEF Changed, Lists
<1>5. RequestInv(n)'
  BY RestingInv
<1> QED BY <1>2, <1>3, <1>4, <1>5, StatementKeepsInv

(* A rule is created or deleted.                                            *)
LEMMA StatedRuleKeepsInv ==
    ASSUME TagsInv, NEW r \in Requests, req[r].owes = {}, rules' \subseteq Rules,
           NEW op \in {"create_rule", "delete_rule"}, UNCHANGED <<entries, tags, links>>,
           Write(r, Stated(Idle, op, {"rules"}))
    PROVE  TagsInv'
<1>1. PICK n : n = Stated(Idle, op, {"rules"})
  OBVIOUS
<1>2. {"rules"} \in SUBSET Lists /\ Idle \in Request /\ Idle.todo = {}
  BY IdleFits DEF Lists
<1>3. /\ n \in Request /\ n.op = op /\ n.at = "invalidate" /\ n.owes = {"rules"}
      /\ n.todo = {}
  BY <1>1, <1>2, StatedFits
<1>4. RequestInv(n)
  BY <1>3, PlainInv
<1>5. Statement(r, n, "stale")
  BY <1>1 DEF Write
<1> QED BY <1>3, <1>4, <1>5, RulesStatementKeepsInv

(* create_rule.                                                             *)
LEMMA CreateRuleStep ==
    ASSUME TagsInv, NEW r \in Requests, CreateRule(r)
    PROVE  TagsInv'
<1>1. req[r].owes = {} /\ rules \subseteq Rules
  BY OpenFits DEF CreateRule, TagsInv, TypeOK
<1>2. UNCHANGED <<entries, tags, links>> /\ rules' \subseteq Rules
  BY <1>1 DEF CreateRule
<1>3. Write(r, Stated(Idle, "create_rule", {"rules"}))
  BY DEF CreateRule, Stated
<1> QED BY <1>1, <1>2, <1>3, StatedRuleKeepsInv

(* delete_rule.                                                             *)
LEMMA DeleteRuleStep ==
    ASSUME TagsInv, NEW r \in Requests, DeleteRule(r)
    PROVE  TagsInv'
<1>1. req[r].owes = {} /\ rules \subseteq Rules
  BY OpenFits DEF DeleteRule, TagsInv, TypeOK
<1>2. UNCHANGED <<entries, tags, links>> /\ rules' \subseteq Rules
  BY <1>1 DEF DeleteRule
<1>3. Write(r, Stated(Idle, "delete_rule", {"rules"}))
  BY DEF DeleteRule, Stated
<1> QED BY <1>1, <1>2, <1>3, StatedRuleKeepsInv

(* The record of a request to change a rule.                                *)
Changing(p, rule) == [p EXCEPT !.op = "update_rule", !.at = "update", !.old = rule]

(* It is a request.                                                         *)
LEMMA ChangingFits ==
    ASSUME NEW p \in Request, NEW rule \in Rules, NEW n, n = Changing(p, rule)
    PROVE  /\ n \in Request /\ n.op = "update_rule" /\ n.at = "update" /\ n.old = rule
           /\ n.todo = p.todo /\ n.owes = p.owes /\ n.ids = p.ids
BY DEF Changing, Request, AllOps

(* update_rule reads the rule.                                              *)
LEMMA ReadRuleStep ==
    ASSUME TagsInv, NEW r \in Requests, ReadRule(r)
    PROVE  TagsInv'
<1>1. PICK rule \in rules :
          Read(r, [Idle EXCEPT !.op = "update_rule", !.at = "update", !.old = rule])
  BY DEF ReadRule
<1>2. /\ req[r].owes = {} /\ Idle \in Request /\ Idle.owes = {} /\ Idle.todo = {}
      /\ Idle.ids = {} /\ rule \in Rules
  BY OpenFits, IdleFits DEF ReadRule, TagsInv, TypeOK
<1>3. PICK n : n = Changing(Idle, rule)
  OBVIOUS
<1>4. /\ n \in Request /\ n.op = "update_rule" /\ n.at = "update" /\ n.old = rule
      /\ n.todo = {} /\ n.owes = {} /\ n.ids = {}
  BY <1>2, <1>3, ChangingFits
<1>5. Read(r, n)
  BY <1>1, <1>3 DEF Changing
<1>6. RequestInv(n)
  BY <1>2, <1>4, PlainInv
<1> QED BY <1>2, <1>4, <1>5, <1>6, ReadKeepsInv

(* update_rule writes it back.                                              *)
LEMMA UpdateRuleStep ==
    ASSUME TagsInv, NEW r \in Requests, UpdateRule(r)
    PROVE  TagsInv'
<1> DEFINE q == req[r]
<1>1. /\ q \in Request /\ WorkFits(q) /\ q.owes = {} /\ q.op = "update_rule"
      /\ rules \subseteq Rules
  BY StepFits DEF UpdateRule, PlaceFits, TypeOK
<1>2. q.ids = {} /\ q.todo = {}
  BY <1>1 DEF WorkFits
<1>3. ASSUME NEW rule \in Rules, rules' = (rules \ {q.old}) \cup {rule},
             UNCHANGED <<entries, tags, links>>,
             Write(r, [q EXCEPT !.at = "invalidate", !.owes = {"rules"}])
      PROVE  TagsInv'
  <2>1. PICK n : n = Written(q, {"rules"})
    OBVIOUS
  <2>2. Statement(r, n, "stale") /\ req[r].owes = {}
    BY <1>1, <1>3, <2>1 DEF Write, Written
  <2>3. {"rules"} \in SUBSET Lists /\ rules' \subseteq Rules
    BY <1>1, <1>3 DEF Lists
  <2> HIDE DEF q
  <2>4. /\ n \in Request /\ n.at = "invalidate" /\ n.op = "update_rule" /\ n.ids = {}
        /\ n.todo = {} /\ n.owes = {"rules"}
    BY <1>1, <1>2, <2>1, <2>3, WrittenFits
  <2>5. RequestInv(n)
    BY <2>4, PlainInv
  <2> QED BY <1>3, <2>2, <2>3, <2>4, <2>5, RulesStatementKeepsInv
<1>4. ASSUME Read(r, Done(q))
      PROVE  TagsInv'
  <2>1. RequestInv(Done(q)) /\ Done(q) \in Request
    BY <1>1, DoneInv, DoneFits
  <2> QED BY <1>1, <1>4, <2>1, ReadKeepsInv
<1> QED BY <1>3, <1>4 DEF UpdateRule

(* An import of rules, without invalidation.                                *)
LEMMA ImportRuleStep ==
    ASSUME TagsInv, NEW r \in Requests, ImportRule(r)
    PROVE  TagsInv'
<1>1. req[r].owes = {} /\ rules \subseteq Rules
  BY OpenFits DEF ImportRule, TagsInv, TypeOK
<1>2. UNCHANGED <<entries, tags, links>> /\ rules' \subseteq Rules
  BY <1>1 DEF ImportRule
<1>3. [Idle EXCEPT !.op = "import_rule"].ids = {}
  BY DEF Idle
<1>4. Done([Idle EXCEPT !.op = "import_rule"]) = Idle
  BY <1>3 DEF Done
<1>5. Statement(r, Idle, "late")
  BY <1>4 DEF ImportRule
<1> QED BY <1>1, <1>2, <1>5, IdleFits, IdleInv, RulesStatementKeepsInv

-----------------------------------------------------------------------------
(* Other components.                                                        *)

(* The purge of an entry takes its links.                                   *)
LEMMA PurgeEntryStep ==
    ASSUME TagsInv, NEW r \in Requests, PurgeEntry(r)
    PROVE  TagsInv'
<1>1. PICK e \in entries : entries' = entries \ {e} /\ links' = {l \in links : l[1] # e}
  BY DEF PurgeEntry
<1>2. /\ req[r].owes = {} /\ TypeOK /\ LinksArePairs /\ SlugsAreUnique
      /\ UNCHANGED <<tags, rules>> /\ Statement(r, Idle, "late")
  BY OpenFits, StepFits DEF PurgeEntry
<1>3. /\ entries' \subseteq entries /\ rules' \subseteq Rules
      /\ tags' \in [TagIds -> Labels \cup {"unused", "gone"}]
      /\ links' \subseteq Entries \X TagIds
  BY <1>1, <1>2 DEF TypeOK, LinksArePairs
<1>4. \A l \in links' : l[1] \in entries' /\ tags'[l[2]] \in Labels
  BY <1>1, <1>2 DEF TypeOK
<1>5. SlugsAreUnique'
  BY <1>2 DEF SlugsAreUnique, TagRows
<1>6. RequestInv(Idle)'
  BY IdleFits, PlainInv DEF Idle
<1> QED BY <1>2, <1>3, <1>4, <1>5, <1>6, IdleFits, StatementKeepsInv

(* So does the backup that is restored, of all tags.                        *)
LEMMA RestoreBackupStep ==
    ASSUME TagsInv, NEW r \in Requests, RestoreBackup(r)
    PROVE  TagsInv'
<1>1. /\ req[r].owes = {} /\ TypeOK
      /\ tags' = [t \in TagIds |-> IF t \in TagRows THEN "gone" ELSE tags[t]]
      /\ links' = {} /\ rules' = {} /\ UNCHANGED entries /\ Statement(r, Idle, "late")
  BY OpenFits, StepFits DEF RestoreBackup
<1>2. /\ entries' \subseteq entries /\ rules' \subseteq Rules
      /\ tags' \in [TagIds -> Labels \cup {"unused", "gone"}]
      /\ links' \subseteq Entries \X TagIds
      /\ \A l \in links' : l[1] \in entries' /\ tags'[l[2]] \in Labels
  BY <1>1 DEF TypeOK
<1>3. TagRows' = {}
  BY <1>1, TagsAssumption DEF TagRows, TypeOK
<1>4. SlugsAreUnique'
  BY <1>3 DEF SlugsAreUnique
<1>5. RequestInv(Idle)'
  BY IdleFits, PlainInv DEF Idle
<1> QED BY <1>1, <1>2, <1>4, <1>5, IdleFits, StatementKeepsInv

(* A request is answered.                                                   *)
LEMMA FinishStep ==
    ASSUME TagsInv, NEW r \in Requests, Finish(r)
    PROVE  TagsInv'
<1>1. Read(r, Idle) /\ req[r].owes = {}
  BY StepFits DEF Finish
<1> QED BY <1>1, IdleFits, IdleInv, ReadKeepsInv

(* A request is dropped: what it alone was to invalidate is late.           *)
LEMMA DropStep ==
    ASSUME TagsInv, NEW r \in Requests, Drop(r)
    PROVE  TagsInv'
<1>1. /\ req \in [Requests -> Request] /\ cache \in [Lists -> Held]
      /\ UNCHANGED <<entries, tags, links, rules>>
      /\ TypeOK /\ LinksArePairs /\ SlugsAreUnique /\ ListsAreCurrent
  BY DEF TagsInv, TypeOK, Drop
<1>2. /\ req' \in [Requests -> Request] /\ req'[r] = Idle
      /\ \A q \in Requests \ {r} : req'[q] = req[q]
  BY <1>1, IdleFits DEF Drop
<1>3. \A k \in Lists : cache'[k] = IF /\ cache[k] = "stale"
                                     /\ \A q \in Requests \ {r} : k \notin req[q].owes
                                  THEN "late" ELSE cache[k]
  BY DEF Drop
<1>4. cache' \in [Lists -> Held]
  BY <1>1 DEF Drop, Held
<1>5. (TypeOK /\ LinksArePairs /\ SlugsAreUnique)'
  BY <1>1, <1>2, <1>4, RestingTables
<1>6. ListsAreCurrent'
  <2> SUFFICES ASSUME NEW k \in Lists, cache'[k] = "stale"
               PROVE  \E q \in Requests : k \in req'[q].owes
    BY DEF ListsAreCurrent
  <2>1. PICK q \in Requests \ {r} : k \in req[q].owes
    BY <1>3
  <2> QED BY <1>2, <2>1
<1>7. ASSUME NEW q \in Requests
      PROVE  RequestInv(req[q])'
  BY <1>1, <1>2, IdleInv, RestingRequest
<1> QED BY <1>5, <1>6, <1>7 DEF TagsInv

-----------------------------------------------------------------------------
(* The theorems.                                                            *)

(* At first there are no tags, no lists and no requests.                    *)
LEMMA InitEstablishesInv ==
    ASSUME Init
    PROVE  TagsInv
<1>1. TypeOK /\ LinksArePairs
  BY IdleFits DEF Init, TypeOK, LinksArePairs, Held
<1>2. TagRows = {}
  BY TagsAssumption DEF Init, TagRows
<1>3. SlugsAreUnique
  BY <1>2 DEF SlugsAreUnique
<1>4. ListsAreCurrent
  BY DEF Init, ListsAreCurrent
<1>5. ASSUME NEW r \in Requests
      PROVE  RequestInv(req[r])
  <2>1. req[r] = Idle
    BY DEF Init
  <2> QED BY <2>1, IdleInv
<1> QED BY <1>1, <1>3, <1>4, <1>5 DEF TagsInv

(* Every step of every request keeps the invariant.                         *)
LEMMA NextKeepsInv ==
    ASSUME TagsInv, [Next]_vars
    PROVE  TagsInv'
<1>1. CASE Expire
  BY <1>1, ExpireStep
<1>2. ASSUME NEW r \in Requests, OpenRequest(r)
      PROVE  TagsInv'
  BY <1>2, ListTagsStep, ApplyRulesStep, AddTagStep, BulkTagStep, RemoveTagStep,
     RenameTagStep, DeleteTagStep, CreateRuleStep, ReadRuleStep, DeleteRuleStep,
     ImportRuleStep, PurgeEntryStep, RestoreBackupStep DEF OpenRequest
<1>3. ASSUME NEW r \in Requests, RequestStep(r)
      PROVE  TagsInv'
  BY <1>3, InsertListStep, InvalidateStep, NextPairStep, FindTagStep, CreateTagStep,
     LinkTagStep, LinkAllStep, LookUpTagStep, UnlinkStep, UpdateLabelStep,
     UpdateRuleStep, FinishStep DEF RequestStep
<1>4. ASSUME NEW r \in Requests, Drop(r)
      PROVE  TagsInv'
  BY <1>4, DropStep
<1>5. CASE UNCHANGED vars
  <2>1. TypeOK' /\ LinksArePairs' /\ SlugsAreUnique' /\ ListsAreCurrent'
    BY <1>5 DEF TagsInv, vars, TypeOK, LinksArePairs, SlugsAreUnique, TagRows, ListsAreCurrent
  <2>2. ASSUME NEW r \in Requests
        PROVE  RequestInv(req[r])'
    <3>1. PICK m : m = req[r]
      OBVIOUS
    <3>2. RequestInv(m)
      BY <3>1 DEF TagsInv, RequestInv, PlaceFits, WorkFits, InHand, Created,
              TagIsHeld, PairsTagged, PairsUntagged
    <3> QED BY <1>5, <3>1, <3>2, RestingInv, RecordInv DEF vars
  <2> QED BY <2>1, <2>2 DEF TagsInv
<1> QED BY <1>1, <1>2, <1>3, <1>4, <1>5 DEF Next

(* The inductive invariant of Tags.                                         *)
THEOREM TagsInvariant == Spec => []TagsInv
<1>1. Init => TagsInv
  BY InitEstablishesInv
<1>2. TagsInv /\ [Next]_vars => TagsInv'
  BY NextKeepsInv
<1> QED BY <1>1, <1>2, PTL DEF Spec

(* Links always join entries and tags that exist, whatever is purged,       *)
(* deleted or restored.                                                     *)
THEOREM TypeCorrect == Spec => []TypeOK
<1>1. TagsInv => TypeOK
  BY DEF TagsInv
<1> QED BY <1>1, TagsInvariant, PTL

(* A stale list always has a writer that still owes its invalidation; one   *)
(* without is late: dropped writers, insertions after the invalidation and  *)
(* writers that never invalidate.                                           *)
THEOREM ListsAreCurrentHolds == Spec => []ListsAreCurrent
<1>1. TagsInv => ListsAreCurrent
  BY DEF TagsInv
<1> QED BY <1>1, TagsInvariant, PTL

(* A request to tag leaves every entry with every label.                    *)
THEOREM TaggingIsDoneHolds == Spec => []TaggingIsDone
<1>1. TagsInv => TaggingIsDone
  <2> SUFFICES ASSUME TagsInv, NEW r \in Requests, req[r].at = "done", req[r].alone,
                      req[r].op \in {"apply", "add", "bulk_tag"},
                      NEW e \in req[r].ids, NEW l \in req[r].asked, e \in entries
               PROVE  Tagged(e, l)
    BY DEF TaggingIsDone
  <2>1. req[r].todo = {} /\ PairsTagged(req[r])
    BY DEF TagsInv, RequestInv, WorkFits
  <2> QED BY <2>1 DEF PairsTagged
<1> QED BY <1>1, TagsInvariant, PTL

(* A request to untag leaves none of its entries with any of its labels.    *)
THEOREM UntaggingIsDoneHolds == Spec => []UntaggingIsDone
<1>1. TagsInv => UntaggingIsDone
  <2> SUFFICES ASSUME TagsInv, NEW r \in Requests, req[r].at = "done", req[r].alone,
                      req[r].op = "untag", NEW e \in req[r].ids, NEW l \in req[r].asked,
                      NEW t \in LabelRows(l)
               PROVE  <<e, t>> \notin links
    BY DEF UntaggingIsDone
  <2>1. req[r].todo = {} /\ PairsUntagged(req[r])
    BY DEF TagsInv, RequestInv, WorkFits
  <2> QED BY <2>1 DEF PairsUntagged
<1> QED BY <1>1, TagsInvariant, PTL
=============================================================================
