-------------------------- MODULE MCReleaseChanges --------------------------
(***************************************************************************)
(* A branch main with commits c0 <- c1 <- m, where m merges the head h of  *)
(* a branch that left main at c0.  The branch may also be forced back from *)
(* c1 to c0.                                                               *)
(***************************************************************************)
EXTENDS ReleaseChanges, TLC

MCCommits == {"c0", "c1", "h", "m"}

MCMoves == {<<"c0", "c1">>, <<"c1", "m">>, <<"c1", "c0">>}

MCMergeHead == [c \in MCCommits |-> IF c = "m" THEN "h" ELSE NoSha]

MCAncestors ==
  "c0" :> {"c0"} @@ "c1" :> {"c0", "c1"} @@ "h" :> {"c0", "h"} @@ "m" :> MCCommits

MCFiles == {"a", "b"}

\* c1 changes a, h changes b and m has both.
MCContent ==
  "c0" :> ("a" :> 1 @@ "b" :> 1) @@ "c1" :> ("a" :> 2 @@ "b" :> 1)
    @@ "h" :> ("a" :> 1 @@ "b" :> 2) @@ "m" :> ("a" :> 2 @@ "b" :> 2)

RequestSymmetry == Permutations(Requests)
=============================================================================
