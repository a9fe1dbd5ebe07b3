-------------------------- MODULE MCKnowledgeIndex --------------------------
(***************************************************************************)
(* An instance of KnowledgeIndex small enough for TLC: four assets, one    *)
(* solution set, limits 1, 4 and 2 in place of 5, 50 and 4.                *)
(***************************************************************************)
EXTENDS KnowledgeIndex, TLC

CONSTANTS set1, v1, v2, b1, b2, s1, c1, c2, failed, member, near, far, nearNew, pinned1, unresolved

Contents ==
    LET says(hash, type, set, rank) == [hash |-> hash, type |-> type, set |-> set, rank |-> rank]
    IN  [r \in Record |->
           CASE r = failed  -> says(v1, "failed_solution", set1, 1)
             [] r = member  -> says(v1, "solution", set1, 2)
             [] r = near    -> says(v1, "solution", None, 1)
             [] r = far     -> says(v1, "solution", None, 2)
             [] r = nearNew -> says(v2, "solution", None, 1)]

SetContents ==
    LET members == Asset \intersect {1, 2}
    IN  [s \in SolutionSet |->
           CASE s = pinned1    -> [state |-> "pinned", champion |-> 1, members |-> members]
             [] s = unresolved -> [state |-> "unresolved", champion |-> None, members |-> members]]

\* A set whose champion is a failed solution; an edit turns this into any of
\* its neighbours, a set without a champion among them.
SomeTrees == {[assets |-> <<failed, member, near, far>>, body |-> [a \in Asset |-> v1],
               sets |-> [t \in SetId |-> pinned1]]}

\* One asset whose content is about to change.
OneTree == {[assets |-> <<near>>, body |-> <<v1>>, sets |-> [t \in SetId |-> None]]}

ResolveAndExpand == {[verb |-> "resolve", limit |-> None, mode |-> None],
                     [verb |-> "expand", beyond |-> "type"]}
ResolveOnly == {[verb |-> "resolve", limit |-> None, mode |-> None]}

Unpinned == [s \in Server |-> None]

Interchangeable == Permutations(Builder)

\* Edits are to the set, its members, or take the third asset away. Nothing follows the
\* last answer.
Bounded ==
    /\ Cardinality(answers) < MaxAnswers
    /\ worktree.assets[3] \in {near, None} /\ worktree.assets[4] = far

\* The tree on disk matters while somebody may read it, what a builder read
\* while it or its file may be asked for it.
Relevant ==
    <<IF \E b \in Builder : bpc[b] \in {"idle", "read", "check"} THEN worktree ELSE None,
      head, changes, bpc, target, met, path, file, serverVars,
      [b \in Builder |-> IF bpc[b] \in Building \/ file[b] # None \/ target[b] # None
                       THEN <<cursor[b], compiled[b]>> ELSE None]>>
=============================================================================
