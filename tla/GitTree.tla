------------------------------- MODULE GitTree -------------------------------
(***************************************************************************)
(* integrations/git: the tree algorithms of the file provider.  Execute    *)
(* rebuilds the trees on the way to one file (readPath, replacePath,       *)
(* WriteTree), Verify compares all leaves of two trees (flattenTree,       *)
(* compareTreeLeaves); the two must agree on what one file's change is.    *)
(*                                                                         *)
(* A tree is the sequence ls-tree lists.  Git stores trees nobody should   *)
(* write: the same name twice, or .git.  So the trees here may hold both.  *)
(* An object ID is the object itself.                                      *)
(*                                                                         *)
(* The algorithms descend into directories by calling themselves.  Each is *)
(* defined as one level of itself, with that call as a parameter, and then *)
(* for trees of two levels: a directory holds files and links.             *)
(***************************************************************************)
EXTENDS Integers, Sequences, FiniteSetsExt, SequencesExt

CONSTANTS
    Names,      \* the names of entries
    KeyRank,    \* the place of treeKey, by name and "is it a directory"
    Contents,   \* blobs, and what links point to
    MaxEntries, \* bound: entries of one tree
    Targets,    \* paths asked for, as strings.Split leaves them
    None

Regular == {"100644", "100755"}
Link    == "120000"
Tree    == "040000"

Leaves(modes) == [name : Names, mode : modes, object : Contents]

(* Every entry there may be: of a file or link, of a directory.            *)
LeafEntries == Leaves(Regular \cup {Link})
Directories == [name : Names, mode : {Tree}, object : Seq(LeafEntries)]
Entries     == LeafEntries \cup Directories

ASSUME TreeAssumption ==
    /\ KeyRank \in [Names \X BOOLEAN -> Nat] /\ MaxEntries \in Nat
    /\ Targets \subseteq Seq(STRING) \ {<<>>}
    /\ None \notin Entries /\ None \notin Seq(Entries)

(* git orders names bytewise and a directory as if its name ended in "/".  *)
TreeKey(e) == KeyRank[e.name, e.mode = Tree]

Sorted(s) == \A i, j \in DOMAIN s : i < j => TreeKey(s[i]) <= TreeKey(s[j])

TreesOf(entries) ==
    UNION {{s \in [1 .. n -> entries] : Sorted(s)} : n \in 0 .. MaxEntries}

Flat     == TreesOf(Leaves({"100644", Link}))
Subtrees == [name : Names, mode : {Tree}, object : Flat]
Trees    == TreesOf(Leaves({"100644", Link}) \cup Subtrees)

-----------------------------------------------------------------------------
(* The algorithms *)

(* A path is refused if it is empty, starts with "/", or has "//" or a     *)
(* component that is not a file's name.                                    *)
ValidateTreePath(cs) ==
    /\ cs # <<"">>
    /\ Len(cs) > 1 => cs[1] # ""
    /\ \A i \in 2 .. Len(cs) - 1 : cs[i] # ""
    /\ Range(cs) \cap {".", "..", ".git"} = {}

Positions(t, name) == {i \in DOMAIN t : t[i].name = name}

ReadLevel(t, cs, Below(_, _)) ==
    LET is == Positions(t, Head(cs))
        e  == t[Min(is)]
    IN  IF is = {} THEN None
        ELSE IF Len(cs) = 1 THEN e
        ELSE IF e.mode # Tree THEN None
        ELSE Below(e.object, Tail(cs))

ReadDirectory(t, cs) == ReadLevel(t, cs, LAMBDA u, ds : None)
ReadPath(t, cs)      == ReadLevel(t, cs, ReadDirectory)

Rearrangements(es) ==
    {[i \in DOMAIN es |-> es[p[i]]] : p \in Bijection(DOMAIN es, DOMAIN es)}

SortedByKey(es) == CHOOSE s \in Rearrangements(es) : Sorted(s)

(* Mutant: names may be repeated. *)
WriteTreeUnchecked(es) == SortedByKey(es)

WriteTree(es) ==
    IF \/ \E i \in DOMAIN es : ~ValidateTreePath(<<es[i].name>>)
       \/ \E i, j \in DOMAIN es : i # j /\ es[i].name = es[j].name
      THEN None
      ELSE SortedByKey(es)

(* Mutant: the file keeps its old mode. *)
ReplacedContent(e, leaf) ==
    IF e.mode \notin Regular THEN None
    ELSE [e EXCEPT !.object = leaf.object]

Replaced(e, leaf) ==
    IF e.mode \notin Regular THEN None
    ELSE [e EXCEPT !.mode = leaf.mode, !.object = leaf.object]

(* A directory whose tree could not be rebuilt cannot be either.           *)
Rebuilt(e, below) ==
    IF e.mode # Tree \/ below = None THEN None
    ELSE [e EXCEPT !.object = below]

ReplaceLevel(t, cs, leaf, Below(_, _, _)) ==
    LET is  == Positions(t, Head(cs))
        i   == Min(is)
        new == IF Len(cs) = 1 THEN Replaced(t[i], leaf)
               ELSE Rebuilt(t[i], Below(t[i].object, Tail(cs), leaf))
    IN  IF is = {} THEN None
        ELSE IF new = None THEN None
        ELSE WriteTree([t EXCEPT ![i] = new])

ReplaceInDirectory(t, cs, leaf) ==
    ReplaceLevel(t, cs, leaf, LAMBDA u, ds, l : None)
ReplacePath(t, cs, leaf) == ReplaceLevel(t, cs, leaf, ReplaceInDirectory)

(* What one entry adds to the map from full path to mode and object.       *)
Part(e, prefix, Below(_, _)) ==
    IF e.mode = Tree THEN Below(e.object, Append(prefix, e.name))
    ELSE [p \in {Append(prefix, e.name)} |->
             [mode |-> e.mode, object |-> e.object]]

(* The loop over the entries: a later one overwrites.                      *)
FlattenLevel(t, prefix, Below(_, _)) ==
    LET part(i) == Part(t[i], prefix, Below)
        last(p) == Max({i \in DOMAIN t : p \in DOMAIN part(i)})
    IN  [p \in UNION {DOMAIN part(i) : i \in DOMAIN t} |-> part(last(p))[p]]

FlattenDirectory(t, prefix) == FlattenLevel(t, prefix, LAMBDA u, q : <<>>)
FlattenTree(t)              == FlattenLevel(t, <<>>, FlattenDirectory)

(* Mutant: additions pass. *)
CompareNoAdditions(b, a, target) ==
    /\ DOMAIN b \subseteq DOMAIN a
    /\ \A p \in DOMAIN b \ {target} : a[p] = b[p]

CompareTreeLeaves(b, a, target) ==
    /\ DOMAIN b = DOMAIN a
    /\ \A p \in DOMAIN b \ {target} : a[p] = b[p]

-----------------------------------------------------------------------------
(* Their use in Execute and Verify *)

VARIABLES
    before,  \* the tree of the authorized tip
    target,  \* the path asked for
    desired, \* the leaf asked for
    after,   \* the tree of the result commit, None before there is one
    pc

vars == <<before, target, desired, after, pc>>

Init ==
    /\ before \in Trees
    /\ target \in Targets
    /\ desired \in [mode : Regular, object : Contents]
    /\ after = None
    /\ pc = "asked"

(* decodeResourceID comes first, then the entry is read as Observe reads   *)
(* it, then the trees are rebuilt.                                         *)
Execute ==
    LET entry == ReadPath(before, target)
        new   == ReplacePath(before, target, desired)
    IN  /\ pc = "asked"
        /\ IF ~ValidateTreePath(target)
             THEN pc' = "invalid" /\ UNCHANGED after
           ELSE IF entry = None
             THEN pc' = "refused" /\ UNCHANGED after
           ELSE IF entry.mode \notin Regular \/ new = None
             THEN pc' = "refused" /\ UNCHANGED after
             ELSE pc' = "made" /\ after' = new
        /\ UNCHANGED <<before, target, desired>>

(* The evidence names a commit with another tree: one that differs from    *)
(* the replacement in one more entry, on either level.                     *)
Without(t) == {RemoveAt(t, i) : i \in DOMAIN t}

With(t, entries) ==
    {s \in UNION {{InsertAt(t, i, e) : i \in 1 .. Len(t) + 1} : e \in entries} :
        Sorted(s)}

Edits(t) ==
    Without(t) \cup With(t, Leaves({"100644", Link}))
        \cup {[t EXCEPT ![i] = e] : i \in DOMAIN t, e \in Leaves({"100755"})}

Edited(t) ==
    Edits(t) \cup
    UNION {{[t EXCEPT ![i].object = s] : s \in Edits(t[i].object)} :
              i \in {j \in DOMAIN t : t[j].mode = Tree}}

Substitute ==
    /\ pc = "made"
    /\ after' \in Edited(after)
    /\ pc' = "other"
    /\ UNCHANGED <<before, target, desired>>

Shows(t) ==
    LET leaves == FlattenTree(t)
    IN  target \in DOMAIN leaves /\ leaves[target] = desired

Verify ==
    /\ pc \in {"made", "other"}
    /\ pc' = IF /\ CompareTreeLeaves(FlattenTree(before), FlattenTree(after), target)
                /\ Shows(after)
               THEN "verified" ELSE "unverified"
    /\ UNCHANGED <<before, target, desired, after>>

Next == Execute \/ Substitute \/ Verify

Spec == Init /\ [][Next]_vars

-----------------------------------------------------------------------------
(* Properties, in terms of what is in a tree, with no traversal *)

Leaf(path, e) == [path |-> path, mode |-> e.mode, object |-> e.object]

(* Every leaf of a tree of two levels, whatever its position.              *)
LeavesOf(t) ==
    {Leaf(<<e.name>>, e) : e \in {f \in Range(t) : f.mode # Tree}} \cup
    UNION {{Leaf(<<d.name, e.name>>, e) : e \in Range(d.object)} :
              d \in {f \in Range(t) : f.mode = Tree}}

AtTarget(t) == {l \in LeavesOf(t) : l.path = target}

(* No path names two entries. *)
WellFormed(t) ==
    /\ \A i, j \in DOMAIN t : t[i].name = t[j].name => i = j
    /\ \A i \in DOMAIN t : t[i].mode = Tree =>
          \A j, k \in DOMAIN t[i].object :
              t[i].object[j].name = t[i].object[k].name => j = k

(* A replacement leaves every other leaf of every tree as it is, in        *)
(* malformed trees too, and the path has exactly the leaf asked for.       *)
ReplacesOneLeaf ==
    pc = "made" =>
        /\ LeavesOf(after) \ AtTarget(after) = LeavesOf(before) \ AtTarget(before)
        /\ AtTarget(after) = {Leaf(target, desired)}
        /\ \A l \in AtTarget(before) : l.mode \in Regular

(* What Execute made, Verify accepts: however odd the rest of the tree is, *)
(* the reading that picks the first entry of a name and the one that keeps *)
(* the last agree on every tree Execute makes.                             *)
OwnResultVerifies ==
    pc = "made" =>
        /\ CompareTreeLeaves(FlattenTree(before), FlattenTree(after), target)
        /\ Shows(after)
        /\ ReadPath(before, target).object
              = FlattenTree(before)[target].object

(* A tree no path of which names two entries is accepted if and only if it *)
(* has the leaves of the authorized tip, but for the one asked for.        *)
VerificationIsExact ==
    pc \in {"verified", "unverified"} /\ WellFormed(before) /\ WellFormed(after) =>
        (pc = "verified" <=>
            LeavesOf(after) = (LeavesOf(before) \ AtTarget(before))
                                 \cup {Leaf(target, desired)})
=============================================================================
