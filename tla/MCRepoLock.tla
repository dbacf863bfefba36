----------------------------- MODULE MCRepoLock -----------------------------
(* RepoLock on small instances. *)
EXTENDS RepoLock, TLC

\* Runs differ in their tokens only; used where no property is temporal.
Symmetry == Permutations(Run)
=============================================================================
