-------------------------------- MODULE Tags --------------------------------
(***************************************************************************)
(* The tags of one user, the links of entries to them, the tagging rules    *)
(* that fetches apply, and the lists of them kept in memory. Every SQL      *)
(* statement and every use of a cache is one step; requests interleave, and *)
(* between any two of their steps axum may drop the handler of one whose    *)
(* client has gone.                                                         *)
(***************************************************************************)
EXTENDS Integers, FiniteSets

CONSTANTS
    Entries,
    TagIds,
    Labels,
    NoTag,
    Slug,       \* Slug[l]: slugify(l), which may be the same for two labels
    Batches,    \* the sets of labels that are asked for at once
    Rules,      \* tagging rules people write: records [rule, tags]
    Articles,   \* what fetches find: functions from fields to values
    Requests,
    Ops         \* Ops[r]: what request r may ask for

AllOps == {"list", "apply", "add", "bulk_tag", "remove", "untag", "rename",
           "delete", "create_rule", "update_rule", "delete_rule", "import_rule",
           "purge_entry", "restore_backup"}

ASSUME TagsAssumption ==
    /\ NoTag \notin TagIds /\ NoTag \notin Entries
    /\ NoTag \notin Labels /\ NoTag \notin Rules
    /\ {"unused", "gone"} \cap Labels = {}
    /\ Slug \in [Labels -> Labels]
    /\ Batches \subseteq SUBSET Labels
    /\ \A rule \in Rules : rule.tags \subseteq Labels
    /\ IsFiniteSet(TagIds)
    /\ Ops \in [Requests -> SUBSET AllOps]

VARIABLES
    entries,   \* the rows of entries; those in the trash keep their tags
    tags,      \* tags[t]: the label of the tag with id t
    links,     \* the rows <<entry, tag>> of entry_tags
    rules,     \* the rows of tagging_rules
    cache,     \* cache[k]: what the cache of list k holds, see Held
    req        \* req[r]: where request r stands

vars == <<entries, tags, links, rules, cache, req>>

-----------------------------------------------------------------------------
Lists == {"tags", "stats", "rules"}

(* Nothing; the list as it is in the table; a list that has changed since,  *)
(* which the writer has yet to invalidate; or one that no writer will       *)
(* invalidate any more, so that it stays until it expires or is written     *)
(* again.                                                                   *)
Held == {"none", "fresh", "stale", "late"}

Request == [op : AllOps \cup {"none"},
            at : {"idle", "insert", "next", "find", "create",
                  "link", "link_all", "look", "unlink", "rename", "update",
                  "invalidate", "done"},
            list : Lists, read : {"fresh", "stale"},
            ids : SUBSET Entries, todo : SUBSET (Entries \X Labels),
            asked : SUBSET Labels, entry : Entries \cup {NoTag},
            label : Labels \cup {NoTag}, tag : TagIds \cup {NoTag},
            old : Rules \cup {NoTag}, owes : SUBSET Lists, alone : BOOLEAN]

Idle == [op |-> "none", at |-> "idle", list |-> "tags", read |-> "fresh",
         ids |-> {}, todo |-> {}, asked |-> {}, entry |-> NoTag, label |-> NoTag,
         tag |-> NoTag, old |-> NoTag, owes |-> {}, alone |-> TRUE]

TypeOK ==
    /\ entries \subseteq Entries
    /\ tags \in [TagIds -> Labels \cup {"unused", "gone"}]
    /\ \A l \in links : l[1] \in entries /\ tags[l[2]] \in Labels
    /\ rules \subseteq Rules
    /\ cache \in [Lists -> Held]
    /\ req \in [Requests -> Request]

Init ==
    /\ entries = Entries
    /\ tags = [t \in TagIds |-> "unused"]
    /\ links = {} /\ rules = {}
    /\ cache = [k \in Lists |-> "none"]
    /\ req = [r \in Requests |-> Idle]

-----------------------------------------------------------------------------
TagRows == {t \in TagIds : tags[t] \in Labels}

(* The rows of a label's slug: at most one, there is a unique index.        *)
SlugRows(l) == {t \in TagRows : Slug[tags[t]] = Slug[l]}

LabelRows(l) == {t \in TagRows : tags[t] = l}

(* entry_count of TagStats: the count of the links, trash included.         *)
EntryCount(t) == Cardinality({l \in links : l[2] = t})

(* The rows of each list.                                                   *)
Rows(k) == CASE k = "tags" -> tags
             [] k = "stats" -> [t \in TagRows |-> <<tags[t], EntryCount(t)>>]
             [] k = "rules" -> rules

-----------------------------------------------------------------------------
(* Tagging rules. Trees of depth two stand for all.                         *)

(* evaluate_condition: an unknown operator never holds.                     *)
EvaluateCondition(c, article) ==
    LET value == article[c.field] IN
    CASE c.op = "eq" -> value = c.value
      [] c.op = "neq" -> value # c.value
      [] c.op = "gt" -> value > c.value
      [] c.op = "lt" -> value < c.value
      [] OTHER -> FALSE

(* A group holds if all its members do, or one of them with OR.             *)
EvaluateGroup(operator, results) ==
    IF operator = "OR" THEN TRUE \in results ELSE FALSE \notin results

EvaluateInner(group, article) ==
    EvaluateGroup(group.operator,
                  {EvaluateCondition(c, article) : c \in group.conditions})

EvaluateRule(rule, article) ==
    EvaluateGroup(rule.operator,
                  {EvaluateCondition(c, article) : c \in rule.conditions}
                  \cup {EvaluateInner(g, article) : g \in rule.groups})

Matching(list, article) ==
    UNION {r.tags : r \in {s \in list : EvaluateRule(s.rule, article)}}

-----------------------------------------------------------------------------
(* A statement of request r that turns it into new. The lists whose rows it *)
(* changes are no longer fresh, neither in the caches nor in the hands of   *)
(* other requests; and requests whose work it crosses are not alone.        *)

Changed == {k \in Lists : Rows(k)' # Rows(k)}

Relabelled == \E t \in TagRows : tags'[t] # tags[t]

Crosses(q) ==
    \/ Relabelled
    \/ q.op \in {"remove", "untag"} /\ ~(links' \subseteq links)
    \/ q.op \in {"apply", "add", "bulk_tag"} /\ ~(links \subseteq links')
    \/ q.op \in {"apply", "add", "bulk_tag"} /\ ~(entries \subseteq entries')
    \/ q.at = "create" /\ \E t \in TagIds \ TagRows :
                             tags'[t] \in Labels /\ Slug[tags'[t]] = Slug[q.label]

Statement(r, new, left) ==
    /\ cache' = [k \in Lists |->
                    IF k \in Changed /\ cache[k] = "fresh" THEN left ELSE cache[k]]
    /\ req' = [q \in Requests |->
                  IF q = r THEN new
                  ELSE [req[q] EXCEPT
                           !.read = IF req[q].at = "insert" /\ req[q].list \in Changed
                                    THEN "stale" ELSE @,
                           !.alone = @ /\ (req[q] # Idle => ~Crosses(req[q]))]]

(* A writer leaves lists stale and owes their invalidation.                 *)
Write(r, new) == Statement(r, new, "stale")

Read(r, new) ==
    /\ req' = [req EXCEPT ![r] = new]
    /\ UNCHANGED <<entries, tags, links, rules, cache>>

Open(r, op) == req[r] = Idle /\ op \in Ops[r]

(* The end of a request; those that tag or untag are looked at once more.   *)
Done(q) == IF q.ids = {} THEN Idle
           ELSE [Idle EXCEPT !.op = q.op, !.at = "done", !.ids = q.ids,
                             !.asked = q.asked, !.alone = q.alone]

Finish(r) == req[r].at = "done" /\ Read(r, Idle)

-----------------------------------------------------------------------------
(* The lists: from the cache if it has one, else a SELECT and an insertion  *)
(* into the cache, which may come after the invalidation by a writer of     *)
(* what the SELECT did not see.                                             *)

GetList(r, k, new) ==
    \/ cache[k] = "none" /\ Read(r, [new EXCEPT !.at = "insert", !.list = k])
    \/ cache[k] # "none" /\ new.op = "list" /\ Read(r, Done(new))

ListTags(r) ==
    /\ Open(r, "list")
    /\ \E k \in {"tags", "stats"} : GetList(r, k, [Idle EXCEPT !.op = "list"])

(* apply_tagging_rules of a fetch: every label of each matching rule.       *)
Ask(q, article, list) ==
    LET asked == Matching(list, article)
    IN  [q EXCEPT !.at = "next", !.list = "tags", !.read = "fresh", !.asked = asked, !.todo = q.ids \X asked]

(* The rules a reader got: what is in the table unless they are stale.      *)
RulesRead(fresh) == IF fresh THEN {rules} ELSE SUBSET Rules

ApplyRules(r) ==
    /\ Open(r, "apply")
    /\ \E e \in Entries :
          LET new == [Idle EXCEPT !.op = "apply", !.ids = {e}] IN
          \/ GetList(r, "rules", new)
          \/ /\ cache["rules"] # "none"
             /\ \E article \in Articles, list \in RulesRead(cache["rules"] = "fresh") :
                   Read(r, Ask(new, article, list))

InsertList(r) ==
    /\ req[r].at = "insert"
    /\ LET k == req[r].list IN
       cache' = [cache EXCEPT ![k] =
                    IF req[r].read = "fresh" THEN "fresh"
                    ELSE IF \E q \in Requests : k \in req[q].owes THEN "stale"
                    ELSE "late"]
    /\ \/ req[r].op = "list" /\ req' = [req EXCEPT ![r] = Done(@)]
       \/ /\ req[r].op = "apply"
          /\ \E article \in Articles, list \in RulesRead(req[r].read = "fresh") :
                req' = [req EXCEPT ![r] = Ask(@, article, list)]
    /\ UNCHANGED <<entries, tags, links, rules>>

(* A list expires after five minutes, or is evicted.                        *)
Expire ==
    /\ \E k \in Lists : cache[k] # "none" /\ cache' = [cache EXCEPT ![k] = "none"]
    /\ UNCHANGED <<entries, tags, links, rules, req>>

(* After its statement a writer invalidates the lists it changed, tags      *)
(* before stats, and goes on.                                               *)
After(q) == IF q.op \notin {"add", "apply", "remove", "untag"} THEN Done(q)
            ELSE [q EXCEPT !.at = IF q.tag = NoTag THEN "next" ELSE "link"]

Invalidate(r) ==
    /\ req[r].at = "invalidate"
    /\ \/ \E k \in req[r].owes :
             /\ k = "stats" => "tags" \notin req[r].owes
             /\ cache' = [cache EXCEPT ![k] = "none"]
             /\ req' = [req EXCEPT ![r].owes = @ \ {k}]
       \/ /\ req[r].owes = {}
          /\ req' = [req EXCEPT ![r] = After(@)]
          /\ UNCHANGED cache
    /\ UNCHANGED <<entries, tags, links, rules>>

-----------------------------------------------------------------------------
(* Tagging. find_or_create_tag looks for the slug and then inserts; the tag *)
(* of another request may have come in between, or go before it is linked.  *)

AddTag(r) ==
    /\ Open(r, "add")
    /\ \E e \in entries, l \in Labels :
          Read(r, [Idle EXCEPT !.op = "add", !.at = "next", !.ids = {e},
                               !.asked = {l}, !.todo = {<<e, l>>}])

(* The loops over entries and labels.                                       *)
NextPair(r) ==
    /\ req[r].at = "next"
    /\ \/ req[r].todo = {} /\ Read(r, Done(req[r]))
       \/ \E p \in req[r].todo :
             Read(r, [req[r] EXCEPT
                         !.at = IF req[r].op \in {"remove", "untag"} THEN "look" ELSE "find",
                         !.entry = p[1], !.label = p[2]])

Strike(q) == [q EXCEPT !.at = "next", !.todo = @ \ {<<q.entry, q.label>>},
                       !.entry = NoTag, !.label = NoTag, !.tag = NoTag]

(* A statement of add fails the request, of apply it skips the label.       *)
Fail(q) == IF q.op = "apply" THEN Strike(q) ELSE Done(q)

(* Tags are sought by slug. (The faulty variant seeks them by label.)       *)
BadFound(l) == LabelRows(l)

Found(l) == SlugRows(l)

FindTag(r) ==
    /\ req[r].at = "find"
    /\ \/ \E t \in Found(req[r].label) :
             Read(r, [req[r] EXCEPT !.at = "link", !.tag = t])
       \/ /\ Found(req[r].label) = {}
          /\ Read(r, [req[r] EXCEPT !.at = "create"])

(* Ids are never used again; once they are out statements fail.             *)
Free == {t \in TagIds : tags[t] = "unused"}

CreateTag(r) ==
    /\ req[r].at = "create"
    /\ \/ /\ SlugRows(req[r].label) # {}
          /\ Read(r, Fail(req[r]))
       \/ /\ SlugRows(req[r].label) = {} /\ Free # {}
          /\ \E t \in Free :
             /\ tags' = [tags EXCEPT ![t] = req[r].label]
             /\ UNCHANGED <<entries, links, rules>>
             /\ Write(r, [req[r] EXCEPT !.at = "invalidate", !.tag = t,
                                        !.owes = {"tags", "stats"}])
       \/ /\ SlugRows(req[r].label) = {} /\ Free = {}
          /\ Read(r, [Fail(req[r]) EXCEPT !.alone = FALSE])

(* ON CONFLICT DO NOTHING; the foreign keys refuse what is gone.            *)
LinkTag(r) ==
    /\ req[r].at = "link"
    /\ LET e == req[r].entry
           t == req[r].tag IN
       \/ /\ e \in entries /\ t \in TagRows
          /\ links' = links \cup {<<e, t>>}
          /\ UNCHANGED <<entries, tags, rules>>
          /\ Write(r, [Strike(req[r]) EXCEPT !.at = "invalidate", !.owes = {"stats"}])
       \/ /\ ~(e \in entries /\ t \in TagRows)
          /\ Read(r, Fail(req[r]))

(* ensure_and_link, for given entries or for those a filter matched: one    *)
(* transaction creates the tags that are missing and links all pairs. It    *)
(* fails as a whole, as when an entry or a tag goes while it runs.          *)
BulkTag(r) ==
    /\ Open(r, "bulk_tag")
    /\ \E S \in SUBSET entries \ {{}}, L \in Batches :
          Read(r, [Idle EXCEPT !.op = "bulk_tag", !.at = "link_all",
                               !.ids = S, !.asked = L])

(* One label for each slug.                                                 *)
Missing(L) == {Slug[l] : l \in {m \in L : SlugRows(m) = {}}}

LinkAll(r) ==
    /\ req[r].at = "link_all"
    /\ \/ /\ req[r].ids \subseteq entries
          /\ \E T \in SUBSET Free :
             \E f \in [T -> {l \in req[r].asked : SlugRows(l) = {}}] :
                /\ Cardinality(T) = Cardinality(Missing(req[r].asked))
                /\ {Slug[f[t]] : t \in T} = Missing(req[r].asked)
                /\ tags' = [t \in TagIds |-> IF t \in T THEN f[t] ELSE tags[t]]
                /\ links' = links \cup
                      (req[r].ids \X (T \cup UNION {SlugRows(l) : l \in req[r].asked}))
          /\ UNCHANGED <<entries, rules>>
          /\ Write(r, [req[r] EXCEPT !.at = "invalidate", !.owes = {"tags", "stats"}])
       \/ Read(r, [Done(req[r]) EXCEPT !.alone = FALSE])

-----------------------------------------------------------------------------
(* Untagging, of one entry or many, looks each label up by its text.        *)

RemoveTag(r) ==
    \/ /\ Open(r, "remove")
       /\ \E e \in entries, t \in TagIds :
             Read(r, [Idle EXCEPT !.op = "remove", !.at = "unlink", !.entry = e,
                                  !.tag = t])
    \/ /\ Open(r, "untag")
       /\ \E S \in SUBSET entries \ {{}}, L \in Batches :
             Read(r, [Idle EXCEPT !.op = "untag", !.at = "next", !.ids = S,
                                  !.asked = L, !.todo = S \X L])

(* A label without a tag is passed over. (The faulty variant gives up.)     *)
BadPassOver(q) == Done(q)

PassOver(q) == Strike(q)

LookUpTag(r) ==
    /\ req[r].at = "look"
    /\ \/ \E t \in LabelRows(req[r].label) :
             Read(r, [req[r] EXCEPT !.at = "unlink", !.tag = t])
       \/ LabelRows(req[r].label) = {} /\ Read(r, PassOver(req[r]))

Unlink(r) ==
    /\ req[r].at = "unlink"
    /\ LET l == <<req[r].entry, req[r].tag>> IN
       \/ /\ l \in links
          /\ links' = links \ {l}
          /\ UNCHANGED <<entries, tags, rules>>
          /\ Write(r, [Strike(req[r]) EXCEPT !.at = "invalidate", !.owes = {"stats"}])
       \/ l \notin links /\ Read(r, Strike(req[r]))

-----------------------------------------------------------------------------
(* The tags themselves. A rename counts the other tags of the new slug and  *)
(* then updates, which fails if there is one by now or the tag is gone.     *)

RenameTag(r) ==
    /\ Open(r, "rename")
    /\ \E t \in TagIds, l \in Labels :
          /\ SlugRows(l) \subseteq {t}
          /\ Read(r, [Idle EXCEPT !.op = "rename", !.at = "rename", !.tag = t,
                                  !.label = l])

(* The lists that carry labels. (The faulty variant forgets the counts.)    *)
BadLabelled == {"tags"}

Labelled == {"tags", "stats"}

UpdateLabel(r) ==
    /\ req[r].at = "rename"
    /\ LET t == req[r].tag IN
       \/ /\ t \in TagRows /\ SlugRows(req[r].label) \subseteq {t}
          /\ tags' = [tags EXCEPT ![t] = req[r].label]
          /\ UNCHANGED <<entries, links, rules>>
          /\ Write(r, [req[r] EXCEPT !.at = "invalidate", !.owes = Labelled])
       \/ /\ ~(t \in TagRows /\ SlugRows(req[r].label) \subseteq {t})
          /\ Read(r, Done(req[r]))

(* The links go with the tag. (The faulty variant leaves them.)             *)
BadLinksWithout(t) == links

LinksWithout(t) == {l \in links : l[2] # t}

DeleteTag(r) ==
    /\ Open(r, "delete")
    /\ \E t \in TagRows :
          /\ tags' = [tags EXCEPT ![t] = "gone"]
          /\ links' = LinksWithout(t)
    /\ UNCHANGED <<entries, rules>>
    /\ Write(r, [Idle EXCEPT !.op = "delete", !.at = "invalidate", !.owes = Labelled])

-----------------------------------------------------------------------------
(* Tagging rules. A PATCH reads the rule and writes it back with what it    *)
(* was given; import_lettura's rules come without invalidation.             *)

CreateRule(r) ==
    /\ Open(r, "create_rule")
    /\ \E rule \in Rules : rules' = rules \cup {rule}
    /\ UNCHANGED <<entries, tags, links>>
    /\ Write(r, [Idle EXCEPT !.op = "create_rule", !.at = "invalidate",
                             !.owes = {"rules"}])

ReadRule(r) ==
    /\ Open(r, "update_rule")
    /\ \E rule \in rules :
          Read(r, [Idle EXCEPT !.op = "update_rule", !.at = "update", !.old = rule])

UpdateRule(r) ==
    /\ req[r].at = "update"
    /\ \/ /\ req[r].old \in rules
          /\ \E rule \in Rules :
                /\ rule.rule = req[r].old.rule \/ rule.tags = req[r].old.tags
                /\ rules' = (rules \ {req[r].old}) \cup {rule}
          /\ UNCHANGED <<entries, tags, links>>
          /\ Write(r, [req[r] EXCEPT !.at = "invalidate", !.owes = {"rules"}])
       \/ req[r].old \notin rules /\ Read(r, Done(req[r]))

DeleteRule(r) ==
    /\ Open(r, "delete_rule")
    /\ \E rule \in rules : rules' = rules \ {rule}
    /\ UNCHANGED <<entries, tags, links>>
    /\ Write(r, [Idle EXCEPT !.op = "delete_rule", !.at = "invalidate",
                             !.owes = {"rules"}])

ImportRule(r) ==
    /\ Open(r, "import_rule")
    /\ \E rule \in Rules : rules' = rules \cup {rule}
    /\ UNCHANGED <<entries, tags, links>>
    /\ Statement(r, Done([Idle EXCEPT !.op = "import_rule"]), "late")

-----------------------------------------------------------------------------
(* What other components do to the tables, without a word to the caches.    *)

PurgeEntry(r) ==
    /\ Open(r, "purge_entry")
    /\ \E e \in entries :
          /\ entries' = entries \ {e}
          /\ links' = {l \in links : l[1] # e}
    /\ UNCHANGED <<tags, rules>>
    /\ Statement(r, Idle, "late")

(* do_restore; of the backups, one without tags and rules.                  *)
RestoreBackup(r) ==
    /\ Open(r, "restore_backup")
    /\ tags' = [t \in TagIds |-> IF t \in TagRows THEN "gone" ELSE tags[t]]
    /\ links' = {} /\ rules' = {}
    /\ UNCHANGED entries
    /\ Statement(r, Idle, "late")

-----------------------------------------------------------------------------
(* axum drops the handler of a request, wherever it stands; what it did     *)
(* stays, what it owed is not done. Fetches are a worker's, not dropped.    *)
Drop(r) ==
    /\ req[r].at \notin {"idle", "done"} /\ req[r].op # "apply"
    /\ cache' = [k \in Lists |->
                    IF /\ cache[k] = "stale"
                       /\ \A q \in Requests \ {r} : k \notin req[q].owes
                    THEN "late" ELSE cache[k]]
    /\ req' = [req EXCEPT ![r] = Idle]
    /\ UNCHANGED <<entries, tags, links, rules>>

OpenRequest(r) ==
    \/ ListTags(r) \/ ApplyRules(r) \/ AddTag(r) \/ BulkTag(r) \/ RemoveTag(r)
    \/ RenameTag(r) \/ DeleteTag(r) \/ CreateRule(r) \/ ReadRule(r) \/ DeleteRule(r)
    \/ ImportRule(r) \/ PurgeEntry(r) \/ RestoreBackup(r)

RequestStep(r) ==
    \/ InsertList(r) \/ Invalidate(r) \/ NextPair(r) \/ FindTag(r) \/ CreateTag(r)
    \/ LinkTag(r) \/ LinkAll(r) \/ LookUpTag(r) \/ Unlink(r) \/ UpdateLabel(r)
    \/ UpdateRule(r) \/ Finish(r)

Next == Expire \/ \E r \in Requests : OpenRequest(r) \/ RequestStep(r) \/ Drop(r)

Spec == Init /\ [][Next]_vars

-----------------------------------------------------------------------------
(* Properties.                                                              *)

(* A cached list that no longer is what the table has is about to be        *)
(* invalidated by its writer, unless it was read before and inserted after  *)
(* that, or its writer was dropped between its statement and the            *)
(* invalidation, or the change came from an import, a purge or a backup: a  *)
(* tag, link or rule written by a request of the API that is not dropped    *)
(* leaves no wrong list behind, however its steps interleave with others.   *)
ListsAreCurrent ==
    \A k \in Lists : cache[k] = "stale" => \E r \in Requests : k \in req[r].owes

Tagged(e, l) == \E t \in SlugRows(l) : <<e, t>> \in links

(* A request to tag entries, or a rule that matched what was fetched, leaves *)
(* every entry with every label, whatever other requests do meanwhile that  *)
(* does not undo it: only a tag of the same name created between its SELECT *)
(* and its INSERT makes it miss one.                                        *)
TaggingIsDone ==
    \A r \in Requests :
        LET q == req[r] IN
        q.at = "done" /\ q.alone /\ q.op \in {"apply", "add", "bulk_tag"} =>
            \A e \in q.ids, l \in q.asked : e \in entries => Tagged(e, l)

(* Once a request to untag is through, none of its entries has any of its   *)
(* labels, unless tags were linked or renamed meanwhile.                    *)
UntaggingIsDone ==
    \A r \in Requests :
        LET q == req[r] IN
        q.at = "done" /\ q.alone /\ q.op = "untag" =>
            \A e \in q.ids, l \in q.asked : \A t \in LabelRows(l) : <<e, t>> \notin links
=============================================================================
