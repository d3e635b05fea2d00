------------------------------- MODULE MCTags -------------------------------
(***************************************************************************)
(* Tags for TLC: three labels, two of them with the same slug; one rule     *)
(* with a nested group, and an article on either side of its limit; beside  *)
(* the request that may ask for anything, fetches apply the rules.          *)
(***************************************************************************)
EXTENDS Tags, TLC

CONSTANTS e1, t1, t2, r1, r2

Long == [field |-> "readingTime", op |-> "gt", value |-> 9]
Chinese == [field |-> "language", op |-> "eq", value |-> "zh"]
Foreign == [field |-> "language", op |-> "neq", value |-> "zh"]

MCRules ==
    {[rule |-> [operator |-> "AND", conditions |-> {Long},
                groups |-> {[operator |-> "OR", conditions |-> {Chinese, Foreign}]}],
      tags |-> {"a"}]}

MCArticles == {[readingTime |-> 10, language |-> "zh"],
               [readingTime |-> 9, language |-> "en"]}

MCLabels == {"A", "a", "B"}
MCSlug == [l \in MCLabels |-> IF l = "B" THEN "B" ELSE "a"]

MCBatches == {{"A", "a"}}

MCRequests == {r1, r2}
MCOps == (r1 :> AllOps) @@ (r2 :> {"apply"})

Symmetry == Permutations({t1, t2})
=============================================================================
