-------------------------- MODULE MCGitFileProvider --------------------------
(* GitFileProvider on small instances for TLC. *)
EXTENDS GitFileInvariant, TLC

Symmetry ==
    Permutations(Clients) \cup Permutations(Commits)
        \cup Permutations(ExecutionIDs) \cup Permutations(Regular)
=============================================================================
