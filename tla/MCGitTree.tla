------------------------------ MODULE MCGitTree ------------------------------
(* GitTree on small instances for TLC. *)
EXTENDS GitTree, TLC

MCNames == {".git", "a", "a.b"}

(* In byte order: a directory "a" comes after "a.b".                       *)
MCKeys == <<<<".git", FALSE>>, <<".git", TRUE>>, <<"a", FALSE>>,
            <<"a.b", FALSE>>, <<"a.b", TRUE>>, <<"a", TRUE>>>>

MCKeyRank ==
    [k \in Names \X BOOLEAN |-> CHOOSE i \in DOMAIN MCKeys : MCKeys[i] = k]

MCTargets ==
    {<<"a">>, <<"a", "a.b">>, <<"a", "a">>, <<"a", "">>, <<".git", "a">>}

Symmetry == Permutations(Contents)
=============================================================================
