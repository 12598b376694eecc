---------------------------- MODULE GitTreeProofs ----------------------------
(***************************************************************************)
(* Theorems about GitTree for trees with any number of entries, any names, *)
(* contents and paths: what Execute builds is the change of one file, and  *)
(* what Verify accepts is that change.                                     *)
(***************************************************************************)
EXTENDS GitTree, TLAPS, WellFoundedInduction, SequenceTheorems

-----------------------------------------------------------------------------
(* Least and greatest positions *)

(* A nonempty set of natural numbers has a least element.                  *)
LEMMA NatMin ==
    ASSUME NEW T, T \subseteq Nat, T # {}
    PROVE  \E x \in T : \A y \in T : x <= y
<1>1. PICK x \in T : \A y \in T : <<y, x>> \notin OpToRel(<, Nat)
  BY NatLessThanWellFounded, WFMin
<1>2. \A y \in T : ~(y < x)
  BY <1>1 DEF OpToRel
<1> QED
  BY <1>2

(* So Min of it is one of its members.                                     *)
LEMMA MinIsMember ==
    ASSUME NEW T, T \subseteq Nat, T # {}
    PROVE  Min(T) \in T
BY NatMin DEF Min

(* The positions of a sequence have a greatest one.                        *)
LEMMA MaxIsMember ==
    ASSUME NEW n \in Nat, NEW T, T \subseteq 1 .. n, T # {}
    PROVE  Max(T) \in T
<1> DEFINE D == {n - x : x \in T}
<1>1. \A x \in T : x \in Int /\ n - x \in Nat /\ n - x \in D
  OBVIOUS
<1>2. D \subseteq Nat /\ D # {}
  <2>1. PICK x \in T : TRUE
    OBVIOUS
  <2>2. \A d \in D : d \in Nat
    BY <1>1
  <2> QED
    BY <1>1, <2>1, <2>2
<1>3. PICK d \in D : \A e \in D : d <= e
  <2> HIDE DEF D
  <2> QED
    BY <1>2, NatMin
<1>4. PICK x \in T : d = n - x
  BY <1>3
<1>5. ASSUME NEW y \in T
      PROVE  x >= y
  <2>1. d <= n - y
    BY <1>1, <1>3
  <2> QED
    BY <1>1, <1>4, <2>1
<1> QED
  BY <1>4, <1>5 DEF Max

-----------------------------------------------------------------------------
(* Rebuilding one tree *)

(* No name is repeated.                                                    *)
Unique(t) == \A i, j \in DOMAIN t : t[i].name = t[j].name => i = j

(* The tree WriteTree writes has the entries it was given: the sorted one  *)
(* it looks for is there, since the given one is sorted.                   *)
LEMMA WriteTreeKeepsEntries ==
    ASSUME NEW S, NEW es \in Seq(S), Sorted(es), WriteTree(es) # None
    PROVE  /\ Unique(es) /\ Unique(WriteTree(es))
           /\ WriteTree(es) \in Seq(S)
           /\ Sorted(WriteTree(es))
           /\ Range(WriteTree(es)) = Range(es)
<1> DEFINE D == DOMAIN es
<1>1. Unique(es) /\ WriteTree(es) = SortedByKey(es)
  BY DEF WriteTree, Unique
<1>2. D = 1 .. Len(es) /\ Len(es) \in Nat
  OBVIOUS
<1>3. es \in Rearrangements(es)
  <2>1. [i \in D |-> i] \in Bijection(D, D)
    BY DEF Bijection, Injection, Surjection, IsInjective
  <2>2. es = [i \in D |-> es[[j \in D |-> j][i]]]
    OBVIOUS
  <2> QED
    BY <2>1, <2>2 DEF Rearrangements
<1>4. SortedByKey(es) \in Rearrangements(es) /\ Sorted(SortedByKey(es))
  BY <1>3 DEF SortedByKey
<1>5. PICK p \in Bijection(D, D) : SortedByKey(es) = [i \in D |-> es[p[i]]]
  BY <1>4 DEF Rearrangements
<1>6. /\ \A i \in D : p[i] \in D
      /\ \A i, j \in D : p[i] = p[j] => i = j
      /\ \A j \in D : \E i \in D : p[i] = j
  BY DEF Bijection, Injection, Surjection, IsInjective
<1>7. SortedByKey(es) \in Seq(S)
  BY <1>2, <1>5, <1>6
<1>8. /\ DOMAIN SortedByKey(es) = D
      /\ \A i \in D : SortedByKey(es)[i] = es[p[i]]
  BY <1>5
<1>9. Range(SortedByKey(es)) = Range(es)
  <2>1. ASSUME NEW e \in Range(es)
        PROVE  e \in Range(SortedByKey(es))
    <3>1. PICK j \in D : e = es[j]
      BY DEF Range
    <3>2. PICK i \in D : p[i] = j
      BY <1>6
    <3> QED
      BY <1>8, <3>1, <3>2 DEF Range
  <2>2. ASSUME NEW e \in Range(SortedByKey(es))
        PROVE  e \in Range(es)
    <3>1. PICK i \in D : e = SortedByKey(es)[i]
      BY <1>8 DEF Range
    <3> QED
      BY <1>6, <1>8, <3>1 DEF Range
  <2> QED
    BY <2>1, <2>2
<1>10. Unique(SortedByKey(es))
  <2> SUFFICES ASSUME NEW i \in D, NEW j \in D,
                      SortedByKey(es)[i].name = SortedByKey(es)[j].name
               PROVE  i = j
    BY <1>8 DEF Unique
  <2>1. es[p[i]].name = es[p[j]].name
    BY <1>8
  <2>2. \A k, l \in D : es[k].name = es[l].name => k = l
    BY <1>1 DEF Unique
  <2> HIDE DEF D
  <2>3. p[i] = p[j]
    BY <1>6, <2>1, <2>2
  <2> QED
    BY <1>6, <2>3
<1> QED
  BY <1>1, <1>4, <1>7, <1>9, <1>10

(* One tree is another with entry e replaced by new, and neither repeats a *)
(* name.                                                                   *)
Swapped(t, a, e, new) ==
    /\ Unique(t) /\ Unique(a)
    /\ e \in Range(t) /\ new.name = e.name
    /\ Range(a) = (Range(t) \ {e}) \cup {new}

(* The tree written with one entry exchanged.                              *)
WithEntry(t, i, new) == WriteTree([t EXCEPT ![i] = new])

(* What replacePath does at each level of the way.                         *)
LEMMA EntryIsSwapped ==
    ASSUME NEW S, NEW t \in Seq(S), Sorted(t),
           NEW i \in DOMAIN t, NEW new \in S,
           new.name = t[i].name, TreeKey(new) = TreeKey(t[i]),
           WithEntry(t, i, new) # None
    PROVE  /\ WithEntry(t, i, new) \in Seq(S)
           /\ Swapped(t, WithEntry(t, i, new), t[i], new)
<1> DEFINE es == [t EXCEPT ![i] = new]
<1>1. es \in Seq(S) /\ DOMAIN es = DOMAIN t /\ es[i] = new
      /\ \A j \in DOMAIN t \ {i} : es[j] = t[j]
  OBVIOUS
<1>2. Sorted(es)
  BY <1>1 DEF Sorted
<1>3. /\ Unique(es) /\ Unique(WriteTree(es))
      /\ WriteTree(es) \in Seq(S) /\ Range(WriteTree(es)) = Range(es)
  BY <1>1, <1>2, WriteTreeKeepsEntries DEF WithEntry
<1>4. Unique(t)
  BY <1>1, <1>3 DEF Unique
<1>5. Range(es) = (Range(t) \ {t[i]}) \cup {new}
  BY <1>1, <1>4 DEF Range, Unique
<1> QED
  BY <1>3, <1>4, <1>5 DEF Swapped, Range, WithEntry

(* A file with the mode and content asked for.                             *)
Changed(e, leaf) == [name |-> e.name, mode |-> leaf.mode, object |-> leaf.object]

(* The leaves that may be asked for.                                       *)
AskedLeaves == [mode : Regular, object : Contents]

(* Paths are not empty.                                                    *)
Paths == Seq(STRING) \ {<<>>}

(* The result of replacing path cs: the file that is read there is         *)
(* exchanged, in the tree or in a directory of it which is exchanged.      *)
Replacement(t, a, cs, leaf) ==
    LET f == ReadPath(t, cs)
    IN  /\ f \in LeafEntries /\ f.mode \in Regular /\ f.name = cs[Len(cs)]
        /\ \/ /\ Len(cs) = 1
              /\ Swapped(t, a, f, Changed(f, leaf))
           \/ /\ Len(cs) = 2
              /\ \E d \in Range(t) \cap Directories,
                    nd \in Range(a) \cap Directories :
                    /\ d.name = cs[1]
                    /\ Swapped(t, a, d, nd)
                    /\ Swapped(d.object, nd.object, f, Changed(f, leaf))

(* What the first entry of a name is, where there is one.                  *)
LEMMA FirstPosition ==
    ASSUME NEW S, NEW t \in Seq(S), NEW name, Positions(t, name) # {}
    PROVE  /\ Min(Positions(t, name)) \in DOMAIN t
           /\ t[Min(Positions(t, name))].name = name
           /\ t[Min(Positions(t, name))] \in S
           /\ t[Min(Positions(t, name))] \in Range(t)
<1> DEFINE is == Positions(t, name)
<1>1. is \subseteq Nat
  BY DEF Positions
<1>2. Min(is) \in is
  BY <1>1, MinIsMember
<1>3. Min(is) \in DOMAIN t /\ t[Min(is)].name = name
  BY <1>2 DEF Positions
<1> QED
  BY <1>3 DEF Range

(* A directory's file is exchanged: the last component of a path.          *)
LEMMA FileIsReplaced ==
    ASSUME NEW S, LeafEntries \subseteq S, S \subseteq Entries,
           NEW t \in Seq(S), Sorted(t), NEW name, NEW leaf \in AskedLeaves,
           Positions(t, name) # {},
           Replaced(t[Min(Positions(t, name))], leaf) # None,
           WithEntry(t, Min(Positions(t, name)),
                     Replaced(t[Min(Positions(t, name))], leaf)) # None
    PROVE  LET f == t[Min(Positions(t, name))]
               a == WithEntry(t, Min(Positions(t, name)), Replaced(f, leaf))
           IN  /\ f \in LeafEntries /\ f.mode \in Regular /\ f.name = name
               /\ a \in Seq(S)
               /\ Swapped(t, a, f, Changed(f, leaf))
<1> DEFINE i == Min(Positions(t, name))
           f == t[i]
           a == WithEntry(t, i, Replaced(f, leaf))
<1>1. i \in DOMAIN t /\ f.name = name /\ f \in S
  BY FirstPosition
<1> HIDE DEF i
<1>2. f.mode \in Regular /\ Replaced(f, leaf) # None
  BY DEF Replaced, i
<1>3. f \in LeafEntries
  BY <1>1, <1>2 DEF Entries, Directories, Regular, Tree
<1>4. Replaced(f, leaf) = Changed(f, leaf) /\ Changed(f, leaf) \in LeafEntries
  BY <1>2, <1>3 DEF Replaced, Changed, LeafEntries, Leaves, AskedLeaves
<1>5. TreeKey(Changed(f, leaf)) = TreeKey(f)
  <2>1. (Changed(f, leaf).mode = Tree) = (f.mode = Tree)
    BY <1>2 DEF Changed, AskedLeaves, Regular, Tree
  <2>2. Changed(f, leaf).name = f.name
    BY DEF Changed
  <2> QED
    BY <2>1, <2>2, Zenon DEF TreeKey
<1>6. a = WithEntry(t, i, Changed(f, leaf)) /\ a # None
  BY <1>4 DEF i
<1>7. Changed(f, leaf).name = f.name /\ Changed(f, leaf) \in S
  BY <1>4 DEF Changed
<1>8. a \in Seq(S) /\ Swapped(t, a, f, Changed(f, leaf))
  BY <1>1, <1>5, <1>6, <1>7, EntryIsSwapped
<1> QED
  BY <1>1, <1>2, <1>3, <1>8 DEF i

(* The lower level of replacePath.                                         *)
LEMMA DirectoryReplacement ==
    ASSUME NEW t \in Seq(LeafEntries), Sorted(t), NEW cs \in Paths,
           NEW leaf \in AskedLeaves, ReplaceInDirectory(t, cs, leaf) # None
    PROVE  LET a == ReplaceInDirectory(t, cs, leaf)
               f == ReadDirectory(t, cs)
           IN  /\ Len(cs) = 1
               /\ f \in LeafEntries /\ f.mode \in Regular /\ f.name = cs[1]
               /\ a \in Seq(LeafEntries)
               /\ Swapped(t, a, f, Changed(f, leaf))
<1> DEFINE is == Positions(t, cs[1])
           i  == Min(is)
           a  == ReplaceInDirectory(t, cs, leaf)
<1>0. Head(cs) = cs[1]
  BY DEF Paths
<1>1. is # {}
  BY <1>0 DEF ReplaceInDirectory, ReplaceLevel
<1>2. Len(cs) = 1
  <2> SUFFICES ASSUME Len(cs) # 1
               PROVE  FALSE
    OBVIOUS
  <2> QED
    BY <1>0, <1>1 DEF ReplaceInDirectory, ReplaceLevel, Rebuilt
<1>3. /\ Replaced(t[i], leaf) # None
      /\ a = WithEntry(t, i, Replaced(t[i], leaf))
  BY <1>0, <1>1, <1>2 DEF ReplaceInDirectory, ReplaceLevel, WithEntry
<1>4. ReadDirectory(t, cs) = t[i]
  BY <1>0, <1>1, <1>2 DEF ReadDirectory, ReadLevel
<1>5. LeafEntries \subseteq Entries
  BY DEF Entries
<1> HIDE DEF a
<1>6. a # None
  BY DEF a
<1>7. /\ t[i] \in LeafEntries /\ t[i].mode \in Regular /\ t[i].name = cs[1]
      /\ a \in Seq(LeafEntries)
      /\ Swapped(t, a, t[i], Changed(t[i], leaf))
  BY <1>1, <1>3, <1>5, <1>6, FileIsReplaced
<1> QED
  BY <1>2, <1>4, <1>7 DEF a

(* The rest of a path.                                                     *)
LEMMA TailOfPath ==
    ASSUME NEW cs \in Paths, Len(cs) # 1
    PROVE  /\ Tail(cs) \in Paths /\ Len(Tail(cs)) = Len(cs) - 1
           /\ Tail(cs)[1] = cs[2]
<1>1. cs \in Seq(STRING) /\ cs # <<>> /\ Len(cs) \in Nat /\ Len(cs) > 1
  <2>1. cs \in Seq(STRING) /\ cs # <<>>
    BY DEF Paths
  <2>2. Len(cs) \in Nat /\ Len(cs) # 0
    BY <2>1
  <2>3. \A n \in Nat : n # 0 /\ n # 1 => n > 1
    OBVIOUS
  <2> QED
    BY <2>1, <2>2, <2>3
<1>2. /\ Tail(cs) \in Seq(STRING) /\ Len(Tail(cs)) = Len(cs) - 1
      /\ \A i \in 1 .. Len(cs) - 1 : Tail(cs)[i] = cs[i + 1]
  BY <1>1, HeadTailProperties
<1>3. Tail(cs) # <<>>
  BY <1>1, <1>2
<1> QED
  BY <1>1, <1>2, <1>3 DEF Paths

(* The trees a commit has: both levels in git's order.                     *)
SortedLevels(t) ==
    /\ Sorted(t)
    /\ \A d \in Range(t) : d.mode = Tree => Sorted(d.object)

(* replacePath replaces what readPath reads.                               *)
LEMMA PathReplacement ==
    ASSUME NEW t \in Seq(Entries), SortedLevels(t), NEW cs \in Paths,
           NEW leaf \in AskedLeaves, ReplacePath(t, cs, leaf) # None
    PROVE  /\ ReplacePath(t, cs, leaf) \in Seq(Entries)
           /\ Replacement(t, ReplacePath(t, cs, leaf), cs, leaf)
<1> DEFINE is == Positions(t, cs[1])
           i  == Min(is)
           d  == t[i]
           a  == ReplacePath(t, cs, leaf)
<1>0. Head(cs) = cs[1] /\ Len(cs) \in Nat /\ Len(cs) # 0
  BY DEF Paths
<1>1. is # {}
  BY <1>0 DEF ReplacePath, ReplaceLevel
<1>2. /\ i \in DOMAIN t /\ d \in Entries /\ d \in Range(t)
      /\ d.name = cs[1]
  BY <1>1, FirstPosition
<1>3. CASE Len(cs) = 1
  <2>1. /\ Replaced(d, leaf) # None
        /\ a = WithEntry(t, i, Replaced(d, leaf))
    BY <1>0, <1>1, <1>3 DEF ReplacePath, ReplaceLevel, WithEntry
  <2>2. ReadPath(t, cs) = d
    BY <1>0, <1>1, <1>3 DEF ReadPath, ReadLevel
  <2>3. LeafEntries \subseteq Entries
    BY DEF Entries
  <2> HIDE DEF a
  <2>4. a # None
    BY DEF a
  <2>5. /\ d \in LeafEntries /\ d.mode \in Regular /\ d.name = cs[1]
        /\ a \in Seq(Entries)
        /\ Swapped(t, a, d, Changed(d, leaf))
    BY <1>1, <2>1, <2>3, <2>4, FileIsReplaced DEF SortedLevels
  <2> QED
    BY <1>3, <2>2, <2>5 DEF Replacement, a
<1>4. CASE Len(cs) # 1
  <2> DEFINE u == ReplaceInDirectory(d.object, Tail(cs), leaf)
             new == [d EXCEPT !.object = u]
             f == ReadDirectory(d.object, Tail(cs))
  <2>1. /\ Rebuilt(d, u) # None
        /\ a = WithEntry(t, i, Rebuilt(d, u))
    BY <1>0, <1>1, <1>4 DEF ReplacePath, ReplaceLevel, WithEntry
  <2>2. d.mode = Tree /\ u # None /\ a = WithEntry(t, i, new)
    BY <2>1 DEF Rebuilt
  <2>3. ReadPath(t, cs) = f
    BY <1>0, <1>1, <1>4, <2>2 DEF ReadPath, ReadLevel
  <2>4. d \in Directories /\ d.object \in Seq(LeafEntries) /\ Sorted(d.object)
    BY <1>2, <2>2
       DEF Entries, Directories, LeafEntries, Leaves, Regular, Link, Tree,
           SortedLevels
  <2>5. Tail(cs) \in Paths /\ Len(Tail(cs)) = Len(cs) - 1
        /\ Tail(cs)[1] = cs[2]
    BY <1>4, TailOfPath
  <2>6. /\ Len(Tail(cs)) = 1
        /\ f \in LeafEntries /\ f.mode \in Regular /\ f.name = cs[2]
        /\ u \in Seq(LeafEntries)
        /\ Swapped(d.object, u, f, Changed(f, leaf))
    BY <2>2, <2>4, <2>5, DirectoryReplacement
  <2> HIDE DEF a, u, f
  <2>7. new \in Entries /\ new.name = d.name /\ new.mode = d.mode
    BY <2>4, <2>6 DEF Entries, Directories
  <2>8. TreeKey(new) = TreeKey(d)
    <3> HIDE DEF new
    <3>1. (new.mode = Tree) = (d.mode = Tree)
      BY <2>7
    <3> QED
      BY <2>7, <3>1, Zenon DEF TreeKey
  <2>9. a # None
    BY DEF a
  <2>10. a \in Seq(Entries) /\ Swapped(t, a, d, new)
    <3> HIDE DEF new, i
    <3>1. Sorted(t)
      BY DEF SortedLevels
    <3> QED
      BY <1>2, <2>2, <2>7, <2>8, <2>9, <3>1, EntryIsSwapped
  <2>11. /\ new \in Range(a) \cap Directories /\ new.object = u
    <3>1. new \in Directories /\ new.object = u
      BY <2>4, <2>6 DEF Directories
    <3>2. new \in Range(a)
      BY <2>10 DEF Swapped
    <3> QED
      BY <3>1, <3>2
  <2>12. Len(cs) = 2
    <3>1. Len(Tail(cs)) = 1
      BY <2>6
    <3>2. Len(Tail(cs)) = Len(cs) - 1
      BY <2>5
    <3> QED
      BY <1>0, <3>1, <3>2
  <2> HIDE DEF new
  <2> QED
    BY <1>2, <2>3, <2>4, <2>6, <2>10, <2>11, <2>12 DEF Replacement, a
<1> QED
  BY <1>3, <1>4

-----------------------------------------------------------------------------
(* The leaves of a rebuilt tree *)

(* A leaf of the tree itself, and one of a directory of it.                *)
LeafAtTop(t, l) ==
    \E e \in Range(t) : e.mode # Tree /\ l = Leaf(<<e.name>>, e)

LeafBelow(t, l) ==
    \E d \in Range(t) :
        /\ d.mode = Tree
        /\ \E e \in Range(d.object) : l = Leaf(<<d.name, e.name>>, e)

(* What it takes to be a leaf.                                             *)
LEMMA LeavesOfTree ==
    ASSUME NEW t, NEW l
    PROVE  l \in LeavesOf(t) <=> LeafAtTop(t, l) \/ LeafBelow(t, l)
<1> DEFINE Top    == {f \in Range(t) : f.mode # Tree}
           Dirs   == {f \in Range(t) : f.mode = Tree}
           In(d)  == {Leaf(<<d.name, e.name>>, e) : e \in Range(d.object)}
           TopLeaves == {Leaf(<<e.name>>, e) : e \in Top}
           DirLeaves == UNION {In(d) : d \in Dirs}
<1>1. LeavesOf(t) = TopLeaves \cup DirLeaves
  BY DEF LeavesOf
<1>2. l \in TopLeaves <=> \E e \in Top : l = Leaf(<<e.name>>, e)
  OBVIOUS
<1>3. l \in DirLeaves <=> \E d \in Dirs : l \in In(d)
  OBVIOUS
<1>4. \A d : l \in In(d) <=>
               \E e \in Range(d.object) : l = Leaf(<<d.name, e.name>>, e)
  OBVIOUS
<1> HIDE DEF TopLeaves, DirLeaves, In
<1> QED
  BY <1>1, <1>2, <1>3, <1>4 DEF LeafAtTop, LeafBelow, In

(* A path has one length.                                                  *)
LEMMA PathLengths ==
    /\ \A p, q : <<p>> = <<q>> <=> p = q
    /\ \A p, q, r : <<p>> # <<q, r>> /\ <<q, r>> # <<p>>
    /\ \A p, q, r, s : <<p, q>> = <<r, s>> <=> p = r /\ q = s
OBVIOUS

(* A name has one entry.                                                   *)
LEMMA NameIsOneEntry ==
    ASSUME NEW t, Unique(t), NEW e \in Range(t), NEW g \in Range(t),
           e.name = g.name
    PROVE  e = g
BY DEF Unique, Range

(* An exchange can be undone.                                              *)
LEMMA SwappedBack ==
    ASSUME NEW t, NEW a, NEW e, NEW new, Swapped(t, a, e, new)
    PROVE  Swapped(a, t, new, e)
<1>1. new \in Range(a) /\ e.name = new.name /\ Unique(t) /\ Unique(a)
  BY DEF Swapped
<1>2. ASSUME NEW g \in Range(t), g # e
      PROVE  g # new
  BY <1>2, <1>1, NameIsOneEntry DEF Swapped
<1>3. Range(t) = (Range(a) \ {new}) \cup {e}
  BY <1>2 DEF Swapped
<1> QED
  BY <1>1, <1>3 DEF Swapped

(* Exchanging a file exchanges its leaf and no other.                      *)
LEMMA LeavesOfSwapped ==
    ASSUME NEW t, NEW a, NEW e, NEW new, Swapped(t, a, e, new),
           e.mode # Tree, new.mode # Tree,
           NEW p, p = <<e.name>>
    PROVE  /\ Leaf(p, e) \in LeavesOf(t)
           /\ \A l \in LeavesOf(t) :
                 /\ l.path = p => l = Leaf(p, e)
                 /\ l.path # p => l \in LeavesOf(a)
<1>1. e \in Range(t) /\ Unique(t) /\ \A g \in Range(t) \ {e} : g \in Range(a)
  BY DEF Swapped
<1>2. Leaf(p, e) \in LeavesOf(t)
  BY <1>1, LeavesOfTree DEF LeafAtTop, LeafBelow
<1>3. ASSUME NEW l \in LeavesOf(t)
      PROVE  /\ l.path = p => l = Leaf(p, e)
             /\ l.path # p => l \in LeavesOf(a)
  <2>1. CASE LeafAtTop(t, l)
    <3>1. PICK g \in Range(t) : g.mode # Tree /\ l = Leaf(<<g.name>>, g)
      BY <2>1 DEF LeafAtTop
    <3>2. l.path = <<g.name>>
      BY <3>1 DEF Leaf
    <3>3. g = e \/ l \in LeavesOf(a)
      BY <1>1, <3>1, LeavesOfTree DEF LeafAtTop, LeafBelow
    <3>4. g.name = e.name => g = e
      BY <1>1, NameIsOneEntry
    <3> QED
      BY <3>1, <3>2, <3>3, <3>4, PathLengths
  <2>2. CASE LeafBelow(t, l)
    <3>0. PICK d \in Range(t) :
             /\ d.mode = Tree
             /\ \E g \in Range(d.object) : l = Leaf(<<d.name, g.name>>, g)
      BY <2>2 DEF LeafBelow
    <3>1. PICK g \in Range(d.object) :
             d.mode = Tree /\ l = Leaf(<<d.name, g.name>>, g)
      BY <3>0
    <3>2. l.path = <<d.name, g.name>>
      BY <3>1 DEF Leaf
    <3>3. l \in LeavesOf(a)
      BY <1>1, <3>1, LeavesOfTree DEF LeafAtTop, LeafBelow
    <3> QED
      BY <3>2, <3>3, PathLengths
  <2> QED
    BY <2>1, <2>2, LeavesOfTree
<1> QED
  BY <1>2, <1>3

(* A directory is exchanged, in which the file of path p is exchanged.     *)
SwappedBelow(t, a, d, nd, e, new, p) ==
    /\ Swapped(t, a, d, nd) /\ d.mode = Tree /\ nd.mode = Tree
    /\ Swapped(d.object, nd.object, e, new)
    /\ p = <<d.name, e.name>>

(* That exchanges the leaf of the file and no other, too.                  *)
LEMMA LeavesOfSwappedBelow ==
    ASSUME NEW t, NEW a, NEW d, NEW nd, NEW e, NEW new, NEW p,
           SwappedBelow(t, a, d, nd, e, new, p)
    PROVE  /\ Leaf(p, e) \in LeavesOf(t)
           /\ \A l \in LeavesOf(t) :
                 /\ l.path = p => l = Leaf(p, e)
                 /\ l.path # p => l \in LeavesOf(a)
<1>1. /\ d \in Range(t) /\ Unique(t) /\ nd \in Range(a) /\ nd.name = d.name
      /\ \A g \in Range(t) \ {d} : g \in Range(a)
  BY DEF Swapped, SwappedBelow
<1>2. /\ e \in Range(d.object) /\ Unique(d.object)
      /\ \A g \in Range(d.object) \ {e} : g \in Range(nd.object)
      /\ d.mode = Tree /\ nd.mode = Tree /\ p = <<d.name, e.name>>
  BY DEF Swapped, SwappedBelow
<1>3. Leaf(p, e) \in LeavesOf(t)
  BY <1>1, <1>2, LeavesOfTree DEF LeafAtTop, LeafBelow
<1>4. ASSUME NEW l \in LeavesOf(t)
      PROVE  /\ l.path = p => l = Leaf(p, e)
             /\ l.path # p => l \in LeavesOf(a)
  <2>1. CASE LeafAtTop(t, l)
    <3>1. PICK g \in Range(t) : g.mode # Tree /\ l = Leaf(<<g.name>>, g)
      BY <2>1 DEF LeafAtTop
    <3>2. l.path = <<g.name>>
      BY <3>1 DEF Leaf
    <3>3. l \in LeavesOf(a)
      BY <1>1, <1>2, <3>1, LeavesOfTree DEF LeafAtTop, LeafBelow
    <3> QED
      BY <1>2, <3>2, <3>3, PathLengths
  <2>2. CASE LeafBelow(t, l)
    <3>0. PICK c \in Range(t) :
             /\ c.mode = Tree
             /\ \E g \in Range(c.object) : l = Leaf(<<c.name, g.name>>, g)
      BY <2>2 DEF LeafBelow
    <3>1. PICK g \in Range(c.object) :
             c.mode = Tree /\ l = Leaf(<<c.name, g.name>>, g)
      BY <3>0
    <3>2. l.path = <<c.name, g.name>>
      BY <3>1 DEF Leaf
    <3>3. c.name = d.name => c = d
      BY <1>1, NameIsOneEntry
    <3>4. c # d => l \in LeavesOf(a)
      BY <1>1, <1>2, <3>1, LeavesOfTree DEF LeafAtTop, LeafBelow
    <3>5. ASSUME c = d
          PROVE  /\ g.name = e.name => g = e
                 /\ g # e => l \in LeavesOf(a)
      <4>1. g.name = e.name => g = e
        BY <1>2, <3>5, NameIsOneEntry
      <4>2. ASSUME g # e
            PROVE  l \in LeavesOf(a)
        <5>1. g \in Range(nd.object) /\ l = Leaf(<<nd.name, g.name>>, g)
          BY <1>1, <1>2, <3>1, <3>5, <4>2
        <5> QED
          BY <1>1, <1>2, <5>1, LeavesOfTree DEF LeafAtTop, LeafBelow
      <4> QED
        BY <4>1, <4>2
    <3> QED
      BY <1>2, <3>1, <3>2, <3>3, <3>4, <3>5, PathLengths
  <2> QED
    BY <2>1, <2>2, LeavesOfTree
<1> QED
  BY <1>3, <1>4

(* A replacement is an exchange on one of the two levels, either way.      *)
LEMMA ReplacementExchanges ==
    ASSUME NEW t, NEW a, NEW cs \in Paths, NEW leaf \in AskedLeaves,
           Replacement(t, a, cs, leaf)
    PROVE  LET f   == ReadPath(t, cs)
               new == Changed(f, leaf)
           IN  /\ f.mode # Tree /\ new.mode # Tree
               /\ \/ /\ cs = <<f.name>> /\ cs = <<new.name>>
                     /\ Swapped(t, a, f, new) /\ Swapped(a, t, new, f)
                  \/ \E d, nd : /\ SwappedBelow(t, a, d, nd, f, new, cs)
                                /\ SwappedBelow(a, t, nd, d, new, f, cs)
<1> DEFINE f   == ReadPath(t, cs)
           new == Changed(f, leaf)
<1>1. f.mode # Tree /\ new.mode # Tree /\ new.name = f.name
  BY DEF Replacement, Changed, AskedLeaves, Regular, Tree
<1> HIDE DEF f, new
<1>2. CASE Len(cs) = 1 /\ Swapped(t, a, f, new)
  <2>1. cs = <<f.name>> /\ cs = <<new.name>>
    <3>1. f.name = cs[1]
      BY <1>2 DEF Replacement, f
    <3>2. cs = <<cs[1]>>
      BY <1>2 DEF Paths
    <3> QED
      BY <1>1, <3>1, <3>2
  <2>2. Swapped(a, t, new, f)
    BY <1>2, SwappedBack
  <2> QED
    BY <1>1, <1>2, <2>1, <2>2 DEF f, new
<1>3. ASSUME NEW d \in Range(t) \cap Directories,
             NEW nd \in Range(a) \cap Directories,
             Len(cs) = 2, d.name = cs[1], Swapped(t, a, d, nd),
             Swapped(d.object, nd.object, f, new)
      PROVE  /\ SwappedBelow(t, a, d, nd, f, new, cs)
             /\ SwappedBelow(a, t, nd, d, new, f, cs)
  <2>1. d.mode = Tree /\ nd.mode = Tree /\ nd.name = d.name
    BY <1>3 DEF Directories, Swapped
  <2>2. cs = <<d.name, f.name>> /\ cs = <<nd.name, new.name>>
    <3>1. f.name = cs[2]
      BY <1>3 DEF Replacement, f
    <3>2. cs = <<cs[1], cs[2]>>
      BY <1>3 DEF Paths
    <3> QED
      BY <1>1, <1>3, <2>1, <3>1, <3>2
  <2>3. Swapped(a, t, nd, d) /\ Swapped(nd.object, d.object, new, f)
    BY <1>3, SwappedBack
  <2> QED
    BY <1>3, <2>1, <2>2, <2>3 DEF SwappedBelow
<1> QED
  BY <1>1, <1>2, <1>3 DEF Replacement, f, new

(* Replacing a path replaces the one leaf of that path.                    *)
LEMMA ReplacementReplacesOneLeaf ==
    ASSUME NEW t, NEW a, NEW cs \in Paths, NEW leaf \in AskedLeaves,
           Replacement(t, a, cs, leaf)
    PROVE  LET f == ReadPath(t, cs)
           IN  /\ Leaf(cs, f) \in LeavesOf(t)
               /\ Leaf(cs, leaf) \in LeavesOf(a)
               /\ \A l \in LeavesOf(t) :
                     /\ l.path = cs => l = Leaf(cs, f)
                     /\ l.path # cs => l \in LeavesOf(a)
               /\ \A l \in LeavesOf(a) :
                     /\ l.path = cs => l = Leaf(cs, leaf)
                     /\ l.path # cs => l \in LeavesOf(t)
<1> DEFINE f   == ReadPath(t, cs)
           new == Changed(f, leaf)
<1>1. Leaf(cs, new) = Leaf(cs, leaf)
  BY DEF Changed, Leaf
<1>2. /\ f.mode # Tree /\ new.mode # Tree
      /\ \/ /\ cs = <<f.name>> /\ cs = <<new.name>>
            /\ Swapped(t, a, f, new) /\ Swapped(a, t, new, f)
         \/ \E d, nd : /\ SwappedBelow(t, a, d, nd, f, new, cs)
                       /\ SwappedBelow(a, t, nd, d, new, f, cs)
  BY ReplacementExchanges
<1> HIDE DEF f, new
<1>3. /\ Leaf(cs, f) \in LeavesOf(t)
      /\ \A l \in LeavesOf(t) :
            /\ l.path = cs => l = Leaf(cs, f)
            /\ l.path # cs => l \in LeavesOf(a)
  BY <1>2, LeavesOfSwapped, LeavesOfSwappedBelow
<1>4. /\ Leaf(cs, new) \in LeavesOf(a)
      /\ \A l \in LeavesOf(a) :
            /\ l.path = cs => l = Leaf(cs, new)
            /\ l.path # cs => l \in LeavesOf(t)
  BY <1>2, LeavesOfSwapped, LeavesOfSwappedBelow
<1> QED
  BY <1>1, <1>3, <1>4 DEF f

-----------------------------------------------------------------------------
(* What flattenTree returns *)

(* The mode and object of an entry, which is what the map keeps of it.     *)
Kept(e) == [mode |-> e.mode, object |-> e.object]

(* A path of two components.                                               *)
LEMMA PathBelow ==
    ASSUME NEW z, NEW x
    PROVE  Append(<<z>>, x) = <<z, x>>
<1> DEFINE S == {z, x}
           p == Append(<<z>>, x)
<1>1. <<z>> \in Seq(S) /\ <<z, x>> \in Seq(S) /\ x \in S /\ z \in S
  OBVIOUS
<1>2. Len(<<z>>) = 1 /\ <<z>>[1] = z
  OBVIOUS
<1> HIDE DEF S
<1>3. /\ p \in Seq(S) /\ Len(p) = Len(<<z>>) + 1
      /\ \A i \in 1 .. Len(<<z>>) : p[i] = <<z>>[i]
      /\ p[Len(<<z>>) + 1] = x
  BY <1>1, AppendProperties
<1>4. Len(p) = 2 /\ p[1] = z /\ p[2] = x
  BY <1>2, <1>3
<1> HIDE DEF p
<1>5. /\ Len(<<z, x>>) = 2 /\ <<z, x>>[1] = z /\ <<z, x>>[2] = x
  OBVIOUS
<1>6. \A i \in 1 .. Len(p) : p[i] = <<z, x>>[i]
  BY <1>4, <1>5
<1>7. p = <<z, x>>
  BY <1>1, <1>3, <1>4, <1>5, <1>6, SeqEqual
<1> QED
  BY <1>7 DEF p

(* The map of a directory named z.                                         *)
LEMMA DirectoryMap ==
    ASSUME NEW t \in Seq(LeafEntries), NEW z
    PROVE  LET F == FlattenDirectory(t, <<z>>)
           IN  /\ \A p : p \in DOMAIN F <=> \E e \in Range(t) : p = <<z, e.name>>
               /\ \A p \in DOMAIN F :
                     \E e \in Range(t) : p = <<z, e.name>> /\ F[p] = Kept(e)
<1> DEFINE F       == FlattenDirectory(t, <<z>>)
           part(i) == Part(t[i], <<z>>, LAMBDA u, q : <<>>)
           at(p)   == {i \in DOMAIN t : p \in DOMAIN part(i)}
<1>1. F = [p \in UNION {DOMAIN part(i) : i \in DOMAIN t} |->
              part(Max(at(p)))[p]]
  BY DEF FlattenDirectory, FlattenLevel
<1>2. ASSUME NEW i \in DOMAIN t
      PROVE  part(i) = [p \in {<<z, t[i].name>>} |-> Kept(t[i])]
  <2>1. t[i] \in LeafEntries
    OBVIOUS
  <2>2. t[i].mode # Tree
    BY <2>1 DEF LeafEntries, Leaves, Regular, Link, Tree
  <2>3. part(i) = [p \in {Append(<<z>>, t[i].name)} |-> Kept(t[i])]
    BY <2>2 DEF Part, Kept
  <2>4. Append(<<z>>, t[i].name) = <<z, t[i].name>>
    BY PathBelow
  <2> HIDE DEF part
  <2> QED
    BY <2>3, <2>4, Zenon
<1> HIDE DEF part, F
<1>3. \A p : p \in DOMAIN F <=> \E i \in DOMAIN t : p \in DOMAIN part(i)
  BY <1>1
<1>4. ASSUME NEW p \in DOMAIN F
      PROVE  Max(at(p)) \in at(p)
  <2>1. at(p) # {}
    BY <1>3
  <2>2. at(p) \subseteq 1 .. Len(t) /\ Len(t) \in Nat
    OBVIOUS
  <2> HIDE DEF at
  <2> QED
    BY <2>1, <2>2, MaxIsMember
<1>5. \A p : p \in DOMAIN F <=> \E e \in Range(t) : p = <<z, e.name>>
  <2>1. \A i \in DOMAIN t : DOMAIN part(i) = {<<z, t[i].name>>}
    BY <1>2
  <2>2. ASSUME NEW p
        PROVE  p \in DOMAIN F <=> \E i \in DOMAIN t : p = <<z, t[i].name>>
    <3>1. \A i \in DOMAIN t : p \in DOMAIN part(i) <=> p = <<z, t[i].name>>
      BY <2>1
    <3> HIDE DEF at
    <3> QED
      BY <1>3, <3>1, Zenon
  <2> QED
    BY <2>2 DEF Range
<1>6. ASSUME NEW p \in DOMAIN F
      PROVE  \E e \in Range(t) : p = <<z, e.name>> /\ F[p] = Kept(e)
  <2> DEFINE i == Max(at(p))
  <2>1. i \in DOMAIN t /\ p \in DOMAIN part(i)
    BY <1>4
  <2>2. F[p] = part(i)[p]
    BY <1>1, <1>6
  <2> HIDE DEF i
  <2>3. p = <<z, t[i].name>> /\ F[p] = Kept(t[i])
    BY <1>2, <2>1, <2>2
  <2> QED
    BY <2>1, <2>3 DEF Range
<1> QED
  BY <1>5, <1>6 DEF F

(* What one entry of the root adds to the map.                             *)
EntryMap(e) == Part(e, <<>>, FlattenDirectory)

(* A file or a link adds its own path.                                     *)
LEMMA EntryMapOfLeaf ==
    ASSUME NEW e, e.mode # Tree
    PROVE  EntryMap(e) = [p \in {<<e.name>>} |-> Kept(e)]
<1>1. Append(<<>>, e.name) = <<e.name>>
  OBVIOUS
<1> QED
  BY <1>1 DEF EntryMap, Part, Kept

(* A directory holds files and links.                                      *)
LEMMA DirectoryObject ==
    ASSUME NEW e \in Entries, e.mode = Tree
    PROVE  e.object \in Seq(LeafEntries)
BY DEF Entries, Directories, LeafEntries, Leaves, Regular, Link, Tree

(* The entries of a tree.                                                  *)
LEMMA RangeOfTree ==
    ASSUME NEW S, NEW t \in Seq(S)
    PROVE  \A e \in Range(t) : e \in S
BY DEF Range

(* A directory adds its files and links, below its own name.               *)
LEMMA EntryMapOfDirectory ==
    ASSUME NEW d \in Entries, d.mode = Tree
    PROVE  /\ \A p : p \in DOMAIN EntryMap(d) <=>
                        \E e \in Range(d.object) : p = <<d.name, e.name>>
           /\ \A p \in DOMAIN EntryMap(d) :
                 \E e \in Range(d.object) :
                    p = <<d.name, e.name>> /\ EntryMap(d)[p] = Kept(e)
<1>1. Append(<<>>, d.name) = <<d.name>>
  OBVIOUS
<1>2. EntryMap(d) = FlattenDirectory(d.object, <<d.name>>)
  BY <1>1 DEF EntryMap, Part
<1>3. d.object \in Seq(LeafEntries)
  BY DirectoryObject
<1>4. /\ \A p : p \in DOMAIN FlattenDirectory(d.object, <<d.name>>) <=>
                   \E e \in Range(d.object) : p = <<d.name, e.name>>
      /\ \A p \in DOMAIN FlattenDirectory(d.object, <<d.name>>) :
            \E e \in Range(d.object) :
               /\ p = <<d.name, e.name>>
               /\ FlattenDirectory(d.object, <<d.name>>)[p] = Kept(e)
  BY <1>3, DirectoryMap
<1> QED
  BY <1>2, <1>4

(* The map of a tree: a path comes from an entry that adds it.             *)
LEMMA TreeMap ==
    ASSUME NEW t \in Seq(Entries)
    PROVE  LET F == FlattenTree(t)
           IN  /\ \A p : p \in DOMAIN F <=>
                            \E e \in Range(t) : p \in DOMAIN EntryMap(e)
               /\ \A p \in DOMAIN F :
                     \E e \in Range(t) :
                        p \in DOMAIN EntryMap(e) /\ F[p] = EntryMap(e)[p]
<1> DEFINE F       == FlattenTree(t)
           part(i) == EntryMap(t[i])
           at(p)   == {i \in DOMAIN t : p \in DOMAIN part(i)}
<1>1. F = [p \in UNION {DOMAIN part(i) : i \in DOMAIN t} |->
              part(Max(at(p)))[p]]
  BY DEF FlattenTree, FlattenLevel, EntryMap
<1> HIDE DEF F
<1>2. \A p : p \in DOMAIN F <=> \E i \in DOMAIN t : p \in DOMAIN part(i)
  BY <1>1
<1>3. ASSUME NEW p \in DOMAIN F
      PROVE  Max(at(p)) \in at(p)
  <2>1. at(p) # {}
    BY <1>2
  <2>2. at(p) \subseteq 1 .. Len(t) /\ Len(t) \in Nat
    OBVIOUS
  <2> HIDE DEF at
  <2> QED
    BY <2>1, <2>2, MaxIsMember
<1>4. \A p : p \in DOMAIN F <=> \E e \in Range(t) : p \in DOMAIN EntryMap(e)
  BY <1>2 DEF Range
<1>5. ASSUME NEW p \in DOMAIN F
      PROVE  \E e \in Range(t) :
                p \in DOMAIN EntryMap(e) /\ F[p] = EntryMap(e)[p]
  <2> DEFINE i == Max(at(p))
  <2>1. i \in DOMAIN t /\ p \in DOMAIN EntryMap(t[i])
    BY <1>3
  <2>2. F[p] = EntryMap(t[i])[p]
    BY <1>1, <1>5
  <2> HIDE DEF i
  <2> QED
    BY <2>1, <2>2 DEF Range
<1> QED
  BY <1>4, <1>5 DEF F

(* Every path of the map has a leaf of that path, mode and object, and     *)
(* every leaf is a path of the map.                                        *)
LEMMA MapIsOfLeaves ==
    ASSUME NEW t \in Seq(Entries)
    PROVE  /\ \A p \in DOMAIN FlattenTree(t) :
                 \E l \in LeavesOf(t) : l.path = p /\ FlattenTree(t)[p] = Kept(l)
           /\ \A l \in LeavesOf(t) : l.path \in DOMAIN FlattenTree(t)
<1> DEFINE F == FlattenTree(t)
<1>1. ASSUME NEW p \in DOMAIN F
      PROVE  \E l \in LeavesOf(t) : l.path = p /\ F[p] = Kept(l)
  <2> HIDE DEF F
  <2>1. PICK e \in Range(t) : p \in DOMAIN EntryMap(e) /\ F[p] = EntryMap(e)[p]
    BY TreeMap DEF F
  <2>2. CASE e.mode # Tree
    <3>1. p = <<e.name>> /\ F[p] = Kept(e)
      BY <2>1, <2>2, EntryMapOfLeaf
    <3>2. Leaf(p, e) \in LeavesOf(t)
      BY <2>2, <3>1, LeavesOfTree DEF LeafAtTop
    <3>3. Leaf(p, e).path = p /\ Kept(Leaf(p, e)) = Kept(e)
      BY DEF Leaf, Kept
    <3> QED
      BY <3>1, <3>2, <3>3
  <2>3. CASE e.mode = Tree
    <3>1. e \in Entries
      BY RangeOfTree
    <3>2. PICK g \in Range(e.object) : p = <<e.name, g.name>> /\ F[p] = Kept(g)
      BY <2>1, <2>3, <3>1, EntryMapOfDirectory
    <3>3. Leaf(p, g) \in LeavesOf(t)
      BY <2>3, <3>2, LeavesOfTree DEF LeafBelow
    <3>4. Leaf(p, g).path = p /\ Kept(Leaf(p, g)) = Kept(g)
      BY DEF Leaf, Kept
    <3> QED
      BY <3>2, <3>3, <3>4
  <2> QED
    BY <2>2, <2>3
<1>2. ASSUME NEW l \in LeavesOf(t)
      PROVE  l.path \in DOMAIN F
  <2> HIDE DEF F
  <2>1. CASE LeafAtTop(t, l)
    <3>1. PICK e \in Range(t) : e.mode # Tree /\ l = Leaf(<<e.name>>, e)
      BY <2>1 DEF LeafAtTop
    <3>2. l.path = <<e.name>>
      BY <3>1 DEF Leaf
    <3>3. l.path \in DOMAIN EntryMap(e)
      BY <3>1, <3>2, EntryMapOfLeaf
    <3> QED
      BY <3>3, TreeMap DEF F
  <2>2. CASE LeafBelow(t, l)
    <3>0. PICK d \in Range(t) :
             /\ d.mode = Tree
             /\ \E e \in Range(d.object) : l = Leaf(<<d.name, e.name>>, e)
      BY <2>2 DEF LeafBelow
    <3>1. PICK e \in Range(d.object) : l = Leaf(<<d.name, e.name>>, e)
      BY <3>0
    <3>2. l.path = <<d.name, e.name>>
      BY <3>1 DEF Leaf
    <3>3. d \in Entries
      BY RangeOfTree
    <3>4. l.path \in DOMAIN EntryMap(d)
      BY <3>0, <3>2, <3>3, EntryMapOfDirectory
    <3> QED
      BY <3>4, TreeMap DEF F
  <2> QED
    BY <2>1, <2>2, LeavesOfTree
<1> QED
  BY <1>1, <1>2

(* Where names are unique, an entry's paths and values are the map's.      *)
LEMMA MapOfEntry ==
    ASSUME NEW t \in Seq(Entries), Unique(t), NEW e \in Range(t),
           NEW p \in DOMAIN EntryMap(e)
    PROVE  p \in DOMAIN FlattenTree(t) /\ FlattenTree(t)[p] = EntryMap(e)[p]
<1>1. ASSUME NEW g \in Range(t), NEW q \in DOMAIN EntryMap(g)
      PROVE  \/ q = <<g.name>>
             \/ \E x : q = <<g.name, x>>
  <2>1. CASE g.mode # Tree
    BY <2>1, EntryMapOfLeaf
  <2>2. CASE g.mode = Tree
    <3>1. g \in Entries
      BY RangeOfTree
    <3>2. \E x \in Range(g.object) : q = <<g.name, x.name>>
      BY <2>2, <3>1, EntryMapOfDirectory
    <3> QED
      BY <3>2
  <2> QED
    BY <2>1, <2>2
<1>2. p \in DOMAIN FlattenTree(t)
  BY TreeMap
<1>3. PICK g \in Range(t) :
         p \in DOMAIN EntryMap(g) /\ FlattenTree(t)[p] = EntryMap(g)[p]
  BY <1>2, TreeMap
<1>4. g.name = e.name
  <2>1. p = <<g.name>> \/ \E x : p = <<g.name, x>>
    BY <1>1, <1>3
  <2>2. p = <<e.name>> \/ \E x : p = <<e.name, x>>
    BY <1>1
  <2> QED
    BY <2>1, <2>2, PathLengths
<1>5. g = e
  BY <1>4, NameIsOneEntry
<1> QED
  BY <1>2, <1>3, <1>5

(* So it is in a directory.                                                *)
LEMMA MapOfFile ==
    ASSUME NEW d \in Entries, d.mode = Tree, Unique(d.object),
           NEW e \in Range(d.object)
    PROVE  /\ <<d.name, e.name>> \in DOMAIN EntryMap(d)
           /\ EntryMap(d)[<<d.name, e.name>>] = Kept(e)
<1> DEFINE p == <<d.name, e.name>>
<1>1. p \in DOMAIN EntryMap(d)
  BY EntryMapOfDirectory
<1>2. PICK g \in Range(d.object) :
         p = <<d.name, g.name>> /\ EntryMap(d)[p] = Kept(g)
  BY <1>1, EntryMapOfDirectory
<1>3. g.name = e.name
  BY <1>2, PathLengths
<1>4. g = e
  BY <1>3, NameIsOneEntry
<1> QED
  BY <1>1, <1>2, <1>4

(* The paths of one map are the other's, with the same value but at p.     *)
KeptElsewhere(t, a, p) ==
    \A r \in DOMAIN FlattenTree(t) :
        /\ r \in DOMAIN FlattenTree(a)
        /\ r # p => FlattenTree(a)[r] = FlattenTree(t)[r]

(* Exchanging a file changes the map at its path only.                     *)
LEMMA MapOfSwapped ==
    ASSUME NEW t \in Seq(Entries), NEW a \in Seq(Entries), NEW e, NEW new,
           Swapped(t, a, e, new), e.mode # Tree, new.mode # Tree,
           NEW p, p = <<e.name>>
    PROVE  /\ p \in DOMAIN FlattenTree(t) /\ FlattenTree(t)[p] = Kept(e)
           /\ KeptElsewhere(t, a, p)
<1>1. /\ e \in Range(t) /\ Unique(t) /\ Unique(a)
      /\ new \in Range(a) /\ new.name = e.name
      /\ \A g \in Range(t) \ {e} : g \in Range(a)
  BY DEF Swapped
<1>2. /\ DOMAIN EntryMap(e) = {p} /\ EntryMap(e)[p] = Kept(e)
      /\ DOMAIN EntryMap(new) = {p}
  BY <1>1, EntryMapOfLeaf
<1>3. p \in DOMAIN FlattenTree(t) /\ FlattenTree(t)[p] = Kept(e)
  BY <1>1, <1>2, MapOfEntry
<1>4. p \in DOMAIN FlattenTree(a)
  BY <1>1, <1>2, MapOfEntry
<1>5. ASSUME NEW r \in DOMAIN FlattenTree(t)
      PROVE  /\ r \in DOMAIN FlattenTree(a)
             /\ r # p => FlattenTree(a)[r] = FlattenTree(t)[r]
  <2>1. PICK g \in Range(t) :
           r \in DOMAIN EntryMap(g) /\ FlattenTree(t)[r] = EntryMap(g)[r]
    BY TreeMap
  <2>2. CASE g = e
    BY <1>2, <1>4, <2>1, <2>2
  <2>3. CASE g # e
    <3>1. g \in Range(a)
      BY <1>1, <2>3
    <3> QED
      BY <1>1, <2>1, <3>1, MapOfEntry
  <2> QED
    BY <2>2, <2>3
<1> QED
  BY <1>3, <1>5 DEF KeptElsewhere

(* So does exchanging a directory in which a file is exchanged.            *)
LEMMA MapOfSwappedBelow ==
    ASSUME NEW t \in Seq(Entries), NEW a \in Seq(Entries),
           NEW d, NEW nd, NEW e, NEW new, NEW p,
           SwappedBelow(t, a, d, nd, e, new, p)
    PROVE  /\ p \in DOMAIN FlattenTree(t) /\ FlattenTree(t)[p] = Kept(e)
           /\ KeptElsewhere(t, a, p)
<1>1. /\ d \in Range(t) /\ Unique(t) /\ Unique(a)
      /\ nd \in Range(a) /\ nd.name = d.name
      /\ \A g \in Range(t) \ {d} : g \in Range(a)
      /\ d.mode = Tree /\ nd.mode = Tree
      /\ p = <<d.name, e.name>>
  BY DEF SwappedBelow, Swapped
<1>2. /\ e \in Range(d.object) /\ Unique(d.object) /\ Unique(nd.object)
      /\ new \in Range(nd.object) /\ new.name = e.name
      /\ \A h \in Range(d.object) \ {e} : h \in Range(nd.object)
  BY DEF SwappedBelow, Swapped
<1>3. d \in Entries /\ nd \in Entries
  BY <1>1, RangeOfTree
<1>4. p \in DOMAIN FlattenTree(t) /\ FlattenTree(t)[p] = Kept(e)
  <2>1. p \in DOMAIN EntryMap(d) /\ EntryMap(d)[p] = Kept(e)
    BY <1>1, <1>2, <1>3, MapOfFile
  <2> QED
    BY <1>1, <2>1, MapOfEntry
<1>5. ASSUME NEW r \in DOMAIN FlattenTree(t)
      PROVE  /\ r \in DOMAIN FlattenTree(a)
             /\ r # p => FlattenTree(a)[r] = FlattenTree(t)[r]
  <2>1. PICK g \in Range(t) :
           r \in DOMAIN EntryMap(g) /\ FlattenTree(t)[r] = EntryMap(g)[r]
    BY TreeMap
  <2>2. CASE g = d
    <3>1. PICK h \in Range(d.object) : r = <<d.name, h.name>>
      BY <1>1, <1>3, <2>1, <2>2, EntryMapOfDirectory
    <3>2. \E k \in Range(nd.object) : r = <<nd.name, k.name>>
      BY <1>1, <1>2, <3>1
    <3>3. r \in DOMAIN EntryMap(nd)
      BY <1>1, <1>3, <3>2, EntryMapOfDirectory
    <3>4. r \in DOMAIN FlattenTree(a) /\ FlattenTree(a)[r] = EntryMap(nd)[r]
      BY <1>1, <3>3, MapOfEntry
    <3>5. ASSUME r # p
          PROVE  EntryMap(nd)[r] = EntryMap(d)[r]
      <4>1. h \in Range(nd.object) /\ r = <<nd.name, h.name>>
        BY <1>1, <1>2, <3>1, <3>5
      <4>2. EntryMap(d)[r] = Kept(h)
        BY <1>1, <1>2, <1>3, <3>1, MapOfFile
      <4>3. EntryMap(nd)[r] = Kept(h)
        BY <1>1, <1>2, <1>3, <4>1, MapOfFile
      <4> QED
        BY <4>2, <4>3
    <3> QED
      BY <2>1, <2>2, <3>4, <3>5
  <2>3. CASE g # d
    <3>1. g \in Range(a)
      BY <1>1, <2>3
    <3> QED
      BY <1>1, <2>1, <3>1, MapOfEntry
  <2> QED
    BY <2>2, <2>3
<1> QED
  BY <1>4, <1>5 DEF KeptElsewhere

(* A replacement changes the map at the path replaced only, in trees whose *)
(* other directories repeat names, too.                                    *)
LEMMA MapOfReplacement ==
    ASSUME NEW t \in Seq(Entries), NEW a \in Seq(Entries), NEW cs \in Paths,
           NEW leaf \in AskedLeaves, Replacement(t, a, cs, leaf)
    PROVE  LET f == ReadPath(t, cs)
           IN  /\ cs \in DOMAIN FlattenTree(t) /\ FlattenTree(t)[cs] = Kept(f)
               /\ cs \in DOMAIN FlattenTree(a) /\ FlattenTree(a)[cs] = leaf
               /\ KeptElsewhere(t, a, cs) /\ KeptElsewhere(a, t, cs)
<1> DEFINE f   == ReadPath(t, cs)
           new == Changed(f, leaf)
<1>1. Kept(new) = leaf
  BY DEF Changed, Kept, AskedLeaves
<1>2. /\ f.mode # Tree /\ new.mode # Tree
      /\ \/ /\ cs = <<f.name>> /\ cs = <<new.name>>
            /\ Swapped(t, a, f, new) /\ Swapped(a, t, new, f)
         \/ \E d, nd : /\ SwappedBelow(t, a, d, nd, f, new, cs)
                       /\ SwappedBelow(a, t, nd, d, new, f, cs)
  BY ReplacementExchanges
<1> HIDE DEF f, new
<1>3. /\ cs \in DOMAIN FlattenTree(t) /\ FlattenTree(t)[cs] = Kept(f)
      /\ KeptElsewhere(t, a, cs)
  BY <1>2, MapOfSwapped, MapOfSwappedBelow
<1>4. /\ cs \in DOMAIN FlattenTree(a) /\ FlattenTree(a)[cs] = Kept(new)
      /\ KeptElsewhere(a, t, cs)
  BY <1>2, MapOfSwapped, MapOfSwappedBelow
<1> QED
  BY <1>1, <1>3, <1>4 DEF f

-----------------------------------------------------------------------------
(* Verification of trees no path of which names two entries *)

(* Of a path and what is kept there, there is one leaf.                    *)
LEMMA LeafIsKept ==
    ASSUME NEW t, NEW l \in LeavesOf(t)
    PROVE  /\ l = [path |-> l.path, mode |-> l.mode, object |-> l.object]
           /\ l = Leaf(l.path, l)
<1>1. LeafAtTop(t, l) \/ LeafBelow(t, l)
  BY LeavesOfTree
<1>2. LeafAtTop(t, l) => \E p, e : l = Leaf(p, e)
  BY DEF LeafAtTop
<1>3. LeafBelow(t, l) => \E p, e : l = Leaf(p, e)
  BY DEF LeafBelow
<1>4. PICK p, e : l = Leaf(p, e)
  BY <1>1, <1>2, <1>3
<1> QED
  BY <1>4 DEF Leaf

(* A path and what is kept there are all of a leaf.                        *)
LEMMA SameLeaf ==
    ASSUME NEW t, NEW a, NEW l \in LeavesOf(t), NEW m \in LeavesOf(a),
           l.path = m.path, Kept(l) = Kept(m)
    PROVE  l = m
<1>1. l.mode = m.mode /\ l.object = m.object
  BY DEF Kept
<1> QED
  BY <1>1, LeafIsKept

(* Where no path names two entries, no path names two leaves.              *)
LEMMA OneLeafPerPath ==
    ASSUME NEW t, WellFormed(t),
           NEW l \in LeavesOf(t), NEW m \in LeavesOf(t), l.path = m.path
    PROVE  l = m
<1>1. Unique(t) /\ \A d \in Range(t) : d.mode = Tree => Unique(d.object)
  BY DEF WellFormed, Unique, Range
<1>2. \A p, e : Leaf(p, e).path = p
  BY DEF Leaf
<1>3. ASSUME NEW k, LeafAtTop(t, k)
      PROVE  \E e \in Range(t) : k = Leaf(<<e.name>>, e) /\ k.path = <<e.name>>
  BY <1>2, <1>3 DEF LeafAtTop
<1>4. ASSUME NEW k, LeafBelow(t, k)
      PROVE  \E d \in Range(t) :
                /\ d.mode = Tree
                /\ \E e \in Range(d.object) : /\ k = Leaf(<<d.name, e.name>>, e)
                                              /\ k.path = <<d.name, e.name>>
  <2>1. PICK d \in Range(t) :
           /\ d.mode = Tree
           /\ \E e \in Range(d.object) : k = Leaf(<<d.name, e.name>>, e)
    BY <1>4 DEF LeafBelow
  <2>2. PICK e \in Range(d.object) : k = Leaf(<<d.name, e.name>>, e)
    BY <2>1
  <2>3. k.path = <<d.name, e.name>>
    BY <1>2, <2>2
  <2> QED
    BY <2>1, <2>2, <2>3
<1>5. CASE LeafAtTop(t, l) /\ LeafAtTop(t, m)
  <2>1. PICK e \in Range(t) : l = Leaf(<<e.name>>, e) /\ l.path = <<e.name>>
    BY <1>3, <1>5
  <2>2. PICK g \in Range(t) : m = Leaf(<<g.name>>, g) /\ m.path = <<g.name>>
    BY <1>3, <1>5
  <2>3. e.name = g.name
    BY <2>1, <2>2, PathLengths
  <2>4. e = g
    BY <1>1, <2>3, NameIsOneEntry
  <2> QED
    BY <2>1, <2>2, <2>4
<1>6. CASE LeafBelow(t, l) /\ LeafBelow(t, m)
  <2>1. PICK d \in Range(t) :
           /\ d.mode = Tree
           /\ \E e \in Range(d.object) : /\ l = Leaf(<<d.name, e.name>>, e)
                                         /\ l.path = <<d.name, e.name>>
    BY <1>4, <1>6
  <2>2. PICK c \in Range(t) :
           /\ c.mode = Tree
           /\ \E g \in Range(c.object) : /\ m = Leaf(<<c.name, g.name>>, g)
                                         /\ m.path = <<c.name, g.name>>
    BY <1>4, <1>6
  <2>3. PICK e \in Range(d.object) : /\ l = Leaf(<<d.name, e.name>>, e)
                                     /\ l.path = <<d.name, e.name>>
    BY <2>1
  <2>4. PICK g \in Range(c.object) : /\ m = Leaf(<<c.name, g.name>>, g)
                                     /\ m.path = <<c.name, g.name>>
    BY <2>2
  <2>5. d.name = c.name /\ e.name = g.name
    BY <2>3, <2>4, PathLengths
  <2>6. d = c
    BY <1>1, <2>5, NameIsOneEntry
  <2>7. e = g
    BY <1>1, <2>1, <2>5, <2>6, NameIsOneEntry
  <2> QED
    BY <2>3, <2>4, <2>6, <2>7
<1>7. ASSUME NEW k, NEW j, LeafAtTop(t, k), LeafBelow(t, j)
      PROVE  k.path # j.path
  <2>1. \E x : k.path = <<x>>
    BY <1>3, <1>7
  <2>2. \E x, y : j.path = <<x, y>>
    BY <1>4, <1>7
  <2> QED
    BY <2>1, <2>2, PathLengths
<1>8. /\ LeafAtTop(t, l) \/ LeafBelow(t, l)
      /\ LeafAtTop(t, m) \/ LeafBelow(t, m)
  BY LeavesOfTree
<1> QED
  BY <1>5, <1>6, <1>7, <1>8

(* The map of such a tree has the leaves and nothing else.                 *)
LEMMA MapIsLeaves ==
    ASSUME NEW t \in Seq(Entries), WellFormed(t)
    PROVE  /\ \A l \in LeavesOf(t) : /\ l.path \in DOMAIN FlattenTree(t)
                                     /\ FlattenTree(t)[l.path] = Kept(l)
           /\ \A p \in DOMAIN FlattenTree(t) :
                 \E l \in LeavesOf(t) : l.path = p /\ FlattenTree(t)[p] = Kept(l)
<1>1. ASSUME NEW l \in LeavesOf(t)
      PROVE  /\ l.path \in DOMAIN FlattenTree(t)
             /\ FlattenTree(t)[l.path] = Kept(l)
  <2>1. l.path \in DOMAIN FlattenTree(t)
    BY MapIsOfLeaves
  <2>2. PICK m \in LeavesOf(t) :
           m.path = l.path /\ FlattenTree(t)[l.path] = Kept(m)
    BY <2>1, MapIsOfLeaves
  <2>3. l = m
    BY <2>2, OneLeafPerPath
  <2> QED
    BY <2>1, <2>2, <2>3
<1> QED
  BY <1>1, MapIsOfLeaves

(* The leaves of a path.                                                   *)
AtPath(t, p) == {l \in LeavesOf(t) : l.path = p}

(* Comparing the maps is comparing the leaves.                             *)
LEMMA ComparisonIsExact ==
    ASSUME NEW b \in Seq(Entries), NEW a \in Seq(Entries),
           WellFormed(b), WellFormed(a),
           NEW cs, NEW leaf \in AskedLeaves,
           NEW old \in LeavesOf(b), old.path = cs
    PROVE  /\ CompareTreeLeaves(FlattenTree(b), FlattenTree(a), cs)
           /\ cs \in DOMAIN FlattenTree(a) /\ FlattenTree(a)[cs] = leaf
           <=>
           LeavesOf(a) = (LeavesOf(b) \ AtPath(b, cs)) \cup {Leaf(cs, leaf)}
<1> DEFINE B    == FlattenTree(b)
           A    == FlattenTree(a)
           new  == Leaf(cs, leaf)
           rest == {l \in LeavesOf(b) : l.path # cs}
           same == CompareTreeLeaves(B, A, cs) /\ cs \in DOMAIN A /\ A[cs] = leaf
<1>1. /\ \A l \in LeavesOf(b) : l.path \in DOMAIN B /\ B[l.path] = Kept(l)
      /\ \A p \in DOMAIN B :
            \E l \in LeavesOf(b) : l.path = p /\ B[p] = Kept(l)
  BY MapIsLeaves
<1>2. /\ \A l \in LeavesOf(a) : l.path \in DOMAIN A /\ A[l.path] = Kept(l)
      /\ \A p \in DOMAIN A :
            \E l \in LeavesOf(a) : l.path = p /\ A[p] = Kept(l)
  BY MapIsLeaves
<1>3. new.path = cs /\ Kept(new) = leaf
  BY DEF Leaf, Kept, AskedLeaves
<1>4. \A l : l.mode = leaf.mode /\ l.object = leaf.object
                => Leaf(cs, l) = new
  BY DEF Leaf
<1> HIDE DEF A, B, new
<1>5. ASSUME same, NEW l \in LeavesOf(a)
      PROVE  l \in rest \cup {new}
  <2>1. l.path \in DOMAIN A /\ A[l.path] = Kept(l)
    BY <1>2
  <2>2. CASE l.path = cs
    <3>1. Kept(l) = leaf
      BY <1>5, <2>1, <2>2
    <3>2. l.mode = leaf.mode /\ l.object = leaf.object
      BY <3>1 DEF Kept
    <3>3. l = Leaf(cs, l)
      BY <2>2, LeafIsKept
    <3> QED
      BY <1>4, <3>2, <3>3
  <2>3. CASE l.path # cs
    <3>1. l.path \in DOMAIN B /\ B[l.path] = Kept(l)
      BY <1>5, <2>1, <2>3 DEF CompareTreeLeaves
    <3>2. PICK m \in LeavesOf(b) : m.path = l.path /\ Kept(l) = Kept(m)
      BY <1>1, <3>1
    <3>3. l = m
      BY <3>2, SameLeaf
    <3> QED
      BY <2>3, <3>3
  <2> QED
    BY <2>2, <2>3
<1>6. ASSUME same, NEW l \in rest
      PROVE  l \in LeavesOf(a)
  <2>1. l.path \in DOMAIN A /\ A[l.path] = Kept(l)
    BY <1>1, <1>6 DEF CompareTreeLeaves
  <2>2. PICK m \in LeavesOf(a) : m.path = l.path /\ Kept(l) = Kept(m)
    BY <1>2, <2>1
  <2>3. l = m
    BY <2>2, SameLeaf
  <2> QED
    BY <2>3
<1>7. ASSUME same
      PROVE  new \in LeavesOf(a)
  <2>1. PICK m \in LeavesOf(a) : m.path = cs /\ Kept(m) = leaf
    BY <1>2, <1>7
  <2>2. m.mode = leaf.mode /\ m.object = leaf.object
    BY <2>1 DEF Kept
  <2>3. m = Leaf(cs, m)
    BY <2>1, LeafIsKept
  <2>4. m = new
    BY <1>4, <2>2, <2>3
  <2> QED
    BY <2>4
<1>8. ASSUME LeavesOf(a) = rest \cup {new}
      PROVE  same
  <2>1. new \in LeavesOf(a) /\ \A l \in rest : l \in LeavesOf(a)
    BY <1>8
  <2>2. cs \in DOMAIN A /\ A[cs] = leaf
    BY <1>2, <1>3, <2>1
  <2>3. ASSUME NEW p \in DOMAIN B
        PROVE  p \in DOMAIN A /\ (p # cs => A[p] = B[p])
    <3>1. PICK l \in LeavesOf(b) : l.path = p /\ B[p] = Kept(l)
      BY <1>1
    <3>2. CASE p = cs
      BY <2>2, <3>2
    <3>3. CASE p # cs
      <4>1. l \in LeavesOf(a)
        BY <2>1, <3>1, <3>3
      <4> QED
        BY <1>2, <3>1, <4>1
    <3> QED
      BY <3>2, <3>3
  <2>4. ASSUME NEW p \in DOMAIN A
        PROVE  p \in DOMAIN B
    <3>1. PICK l \in LeavesOf(a) : l.path = p
      BY <1>2
    <3>2. l \in LeavesOf(b) \/ p = cs
      BY <1>3, <1>8, <3>1
    <3> QED
      BY <1>1, <3>1, <3>2
  <2>5. CompareTreeLeaves(B, A, cs)
    BY <2>3, <2>4 DEF CompareTreeLeaves
  <2> QED
    BY <2>2, <2>5
<1>9. rest = LeavesOf(b) \ AtPath(b, cs)
  BY DEF AtPath
<1>10. same <=> LeavesOf(a) = rest \cup {new}
  <2> HIDE DEF same, rest
  <2> QED
    BY <1>5, <1>6, <1>7, <1>8
<1> QED
  BY <1>9, <1>10 DEF A, B, new

-----------------------------------------------------------------------------
(* The invariant *)

(* Trees, path and leaf are of their kinds, both levels in git's order.    *)
TypeInv ==
    /\ before \in Seq(Entries) /\ SortedLevels(before)
    /\ target \in Targets /\ desired \in AskedLeaves
    /\ after \in Seq(Entries) \cup {None}
    /\ pc \in {"asked", "invalid", "refused", "made", "other",
               "verified", "unverified"}

(* Once there is a result, the path had a file that could be replaced,     *)
(* whatever commit the evidence names.                                     *)
Executed ==
    pc \in {"made", "other", "verified", "unverified"} =>
        /\ after \in Seq(Entries)
        /\ Replacement(before, ReplacePath(before, target, desired),
                       target, desired)

(* Execute's own result is the replacement.                                *)
Own == pc = "made" => after = ReplacePath(before, target, desired)

(* The verdict is about the trees as they are: they do not change again.   *)
Verdict ==
    pc \in {"verified", "unverified"} =>
        (pc = "verified" <=>
            /\ CompareTreeLeaves(FlattenTree(before), FlattenTree(after), target)
            /\ Shows(after))

(* The inductive invariant.                                                *)
TreeInv == TypeInv /\ Executed /\ Own /\ Verdict

(* A path asked for has a first component.                                 *)
LEMMA TargetIsPath ==
    ASSUME NEW cs \in Targets
    PROVE  cs \in Paths
BY TreeAssumption DEF Paths

(* The trees enumerated are trees with both levels in git's order.         *)
LEMMA TreesAreTrees ==
    ASSUME NEW t \in Trees
    PROVE  t \in Seq(Entries) /\ SortedLevels(t)
<1>1. ASSUME NEW S, NEW s \in TreesOf(S)
      PROVE  s \in Seq(S) /\ Sorted(s)
  <2>1. PICK n \in 0 .. MaxEntries : s \in [1 .. n -> S] /\ Sorted(s)
    BY DEF TreesOf
  <2>2. n \in Nat
    BY TreeAssumption
  <2> QED
    BY <2>1, <2>2
<1>2. Leaves({"100644", Link}) \subseteq LeafEntries
  BY DEF Leaves, LeafEntries, Regular
<1>3. ASSUME NEW s \in Flat
      PROVE  s \in Seq(LeafEntries) /\ Sorted(s)
  <2>1. s \in Seq(Leaves({"100644", Link})) /\ Sorted(s)
    BY <1>1 DEF Flat
  <2> QED
    BY <1>2, <2>1
<1>4. ASSUME NEW d \in Subtrees
      PROVE  d \in Directories /\ Sorted(d.object)
  BY <1>3 DEF Subtrees, Directories
<1> DEFINE S == Leaves({"100644", Link}) \cup Subtrees
<1>5. S \subseteq Entries
  BY <1>2, <1>4 DEF Entries
<1>6. t \in Seq(S) /\ Sorted(t)
  <2> HIDE DEF S
  <2>1. t \in TreesOf(S)
    BY DEF Trees, S
  <2> QED
    BY <1>1, <2>1
<1>7. ASSUME NEW d \in Range(t), d.mode = Tree
      PROVE  Sorted(d.object)
  <2>1. d \in S
    BY <1>6, RangeOfTree
  <2>2. d \in Subtrees
    BY <1>7, <2>1 DEF Leaves, Link, Tree
  <2> QED
    BY <1>4, <2>2
<1>8. t \in Seq(Entries)
  <2> HIDE DEF S
  <2> QED
    BY <1>5, <1>6
<1> QED
  BY <1>6, <1>7, <1>8 DEF SortedLevels

(* A tree with one entry more, less or changed is a tree.                  *)
LEMMA EditsAreTrees ==
    ASSUME NEW S, LeafEntries \subseteq S, NEW t \in Seq(S), NEW s \in Edits(t)
    PROVE  s \in Seq(S)
<1>1. /\ Leaves({"100644", Link}) \subseteq S
      /\ Leaves({"100755"}) \subseteq S
  BY DEF Leaves, LeafEntries, Regular
<1>2. CASE s \in Without(t)
  <2>1. PICK i \in DOMAIN t : s = RemoveAt(t, i)
    BY <1>2 DEF Without
  <2> QED
    BY <2>1 DEF RemoveAt
<1>3. CASE s \in With(t, Leaves({"100644", Link}))
  <2>1. PICK e \in Leaves({"100644", Link}) :
           \E i \in 1 .. Len(t) + 1 : s = InsertAt(t, i, e)
    BY <1>3 DEF With
  <2>2. PICK i \in 1 .. Len(t) + 1 : s = InsertAt(t, i, e)
    BY <2>1
  <2>3. e \in S
    BY <1>1
  <2> QED
    BY <2>2, <2>3 DEF InsertAt
<1>4. CASE s \in {[t EXCEPT ![i] = e] : i \in DOMAIN t, e \in Leaves({"100755"})}
  <2>1. PICK i \in DOMAIN t, e \in Leaves({"100755"}) : s = [t EXCEPT ![i] = e]
    BY <1>4
  <2>2. e \in S
    BY <1>1
  <2> QED
    BY <2>1, <2>2
<1> QED
  BY <1>2, <1>3, <1>4 DEF Edits

(* So is one with such a change in a directory.                            *)
LEMMA EditedAreTrees ==
    ASSUME NEW t \in Seq(Entries), NEW s \in Edited(t)
    PROVE  s \in Seq(Entries)
<1>0. LeafEntries \subseteq Entries
  BY DEF Entries
<1>1. CASE s \in Edits(t)
  BY <1>0, <1>1, EditsAreTrees
<1>2. CASE s \notin Edits(t)
  <2>1. PICK i \in DOMAIN t :
           /\ t[i].mode = Tree
           /\ s \in {[t EXCEPT ![i].object = u] : u \in Edits(t[i].object)}
    BY <1>2 DEF Edited
  <2>2. PICK u \in Edits(t[i].object) : s = [t EXCEPT ![i].object = u]
    BY <2>1
  <2>3. t[i] \in Entries
    OBVIOUS
  <2>4. t[i] \in Directories
    BY <2>1, <2>3 DEF Entries, LeafEntries, Leaves, Regular, Link, Tree
  <2>5. u \in Seq(LeafEntries)
    BY <2>4, EditsAreTrees DEF Directories
  <2>6. [t[i] EXCEPT !.object = u] \in Entries
    BY <2>4, <2>5 DEF Directories, Entries
  <2>7. s = [t EXCEPT ![i] = [t[i] EXCEPT !.object = u]]
    BY <2>2
  <2> QED
    BY <2>6, <2>7
<1> QED
  BY <1>1, <1>2

(* Before Execute the invariant asks for types only.                       *)
LEMMA TreeInvInit == Init => TreeInv
<1> SUFFICES ASSUME Init
             PROVE  TreeInv
  OBVIOUS
<1>1. TypeInv
  BY TreesAreTrees DEF Init, TypeInv, AskedLeaves
<1>2. Executed /\ Own /\ Verdict
  BY DEF Init, Executed, Own, Verdict
<1> QED
  BY <1>1, <1>2 DEF TreeInv

(* Execute refuses, or replaces what it read.                              *)
LEMMA TreeInvExecute ==
    ASSUME TreeInv, Execute
    PROVE  TreeInv'
<1>1. TypeInv /\ pc = "asked" /\ UNCHANGED <<before, target, desired>>
  BY DEF TreeInv, Execute
<1>2. CASE pc' \in {"invalid", "refused"} /\ UNCHANGED after
  BY <1>1, <1>2
     DEF TreeInv, TypeInv, Executed, Own, Verdict, SortedLevels, Sorted
<1>3. CASE /\ pc' = "made" /\ after' = ReplacePath(before, target, desired)
           /\ ReplacePath(before, target, desired) # None
  <2>1. target \in Paths
    BY <1>1, TargetIsPath DEF TypeInv
  <2>2. /\ after' \in Seq(Entries)
        /\ Replacement(before, after', target, desired)
    BY <1>1, <1>3, <2>1, PathReplacement DEF TypeInv
  <2>3. TypeInv'
    BY <1>1, <1>3, <2>2 DEF TypeInv
  <2>4. (Executed /\ Own /\ Verdict)'
    BY <1>1, <1>3, <2>2 DEF Executed, Own, Verdict
  <2> QED
    BY <2>3, <2>4 DEF TreeInv
<1> QED
  BY <1>2, <1>3 DEF Execute

(* The evidence may name any other tree.                                   *)
LEMMA TreeInvSubstitute ==
    ASSUME TreeInv, Substitute
    PROVE  TreeInv'
<1>1. /\ TypeInv /\ Executed /\ pc = "made" /\ pc' = "other"
      /\ after' \in Edited(after) /\ UNCHANGED <<before, target, desired>>
  BY DEF TreeInv, Substitute
<1>2. after' \in Seq(Entries)
  BY <1>1, EditedAreTrees DEF Executed
<1>3. TypeInv'
  BY <1>1, <1>2 DEF TypeInv
<1>4. (Executed /\ Own /\ Verdict)'
  BY <1>1, <1>2 DEF Executed, Own, Verdict
<1> QED
  BY <1>3, <1>4 DEF TreeInv

(* Verify compares the trees as they are.                                  *)
LEMMA TreeInvVerify ==
    ASSUME TreeInv, Verify
    PROVE  TreeInv'
<1> DEFINE ok == /\ CompareTreeLeaves(FlattenTree(before), FlattenTree(after),
                                      target)
                 /\ Shows(after)
<1>1. /\ TypeInv /\ Executed /\ pc \in {"made", "other"}
      /\ pc' = IF ok THEN "verified" ELSE "unverified"
      /\ UNCHANGED <<before, target, desired, after>>
  BY DEF TreeInv, Verify
<1>2. ok' = ok
  BY <1>1 DEF Shows
<1> HIDE DEF ok
<1>3. pc' \in {"verified", "unverified"} /\ (pc' = "verified" <=> ok)
  BY <1>1
<1>4. TypeInv'
  BY <1>1, <1>3 DEF TypeInv
<1>5. Executed' /\ Own'
  BY <1>1, <1>3 DEF Executed, Own
<1>6. Verdict'
  BY <1>2, <1>3 DEF Verdict, ok
<1> QED
  BY <1>4, <1>5, <1>6 DEF TreeInv

(* The invariant always holds.                                             *)
LEMMA TreeInvariance == Spec => []TreeInv
<1>1. TreeInv /\ [Next]_vars => TreeInv'
  <2> SUFFICES ASSUME TreeInv, [Next]_vars
               PROVE  TreeInv'
    OBVIOUS
  <2>1. CASE Next
    BY <2>1, TreeInvExecute, TreeInvSubstitute, TreeInvVerify DEF Next
  <2>2. CASE UNCHANGED vars
    BY <2>2 DEF vars, TreeInv, TypeInv, Executed, Own, Verdict, Shows
  <2> QED
    BY <2>1, <2>2
<1> QED
  BY <1>1, TreeInvInit, PTL DEF Spec

-----------------------------------------------------------------------------
(* Theorems *)

(* Trees stay trees of two levels, and the path and leaf asked for stay    *)
(* what was asked, whatever Execute builds and the evidence names.         *)
THEOREM TreesKeepTypes == Spec => []TypeInv
<1>1. TreeInv => TypeInv
  BY DEF TreeInv
<1> QED
  BY <1>1, TreeInvariance, PTL

(* replacePath and WriteTree change the file asked for and no other leaf,  *)
(* in trees of any size that repeat names or hold .git elsewhere.          *)
THEOREM ReplacementIsOneLeaf == Spec => []ReplacesOneLeaf
<1>1. TreeInv => ReplacesOneLeaf
  <2> SUFFICES ASSUME TreeInv, pc = "made"
               PROVE  /\ LeavesOf(after) \ AtTarget(after) =
                            LeavesOf(before) \ AtTarget(before)
                      /\ AtTarget(after) = {Leaf(target, desired)}
                      /\ \A l \in AtTarget(before) : l.mode \in Regular
    BY DEF ReplacesOneLeaf
  <2> DEFINE f == ReadPath(before, target)
  <2>1. /\ target \in Paths /\ desired \in AskedLeaves
        /\ Replacement(before, after, target, desired)
    BY TargetIsPath DEF TreeInv, TypeInv, Executed, Own
  <2>2. f.mode \in Regular
    BY <2>1 DEF Replacement
  <2>3. /\ Leaf(target, desired) \in LeavesOf(after)
        /\ \A l \in LeavesOf(before) :
              /\ l.path = target => l = Leaf(target, f)
              /\ l.path # target => l \in LeavesOf(after)
        /\ \A l \in LeavesOf(after) :
              /\ l.path = target => l = Leaf(target, desired)
              /\ l.path # target => l \in LeavesOf(before)
    BY <2>1, ReplacementReplacesOneLeaf
  <2> HIDE DEF f
  <2>4. Leaf(target, desired).path = target /\ Leaf(target, f).mode = f.mode
    BY DEF Leaf
  <2>5. LeavesOf(after) \ AtTarget(after) = LeavesOf(before) \ AtTarget(before)
    BY <2>3 DEF AtTarget
  <2>6. AtTarget(after) = {Leaf(target, desired)}
    BY <2>3, <2>4 DEF AtTarget
  <2>7. \A l \in AtTarget(before) : l.mode \in Regular
    BY <2>2, <2>3, <2>4 DEF AtTarget
  <2> QED
    BY <2>5, <2>6, <2>7
<1> QED
  BY <1>1, TreeInvariance, PTL

(* What Execute makes, Verify accepts: readPath takes the first entry of a *)
(* name and flattenTree keeps the last, but a tree that can be rebuilt has *)
(* one on every level of the way.                                          *)
THEOREM OwnResultIsAccepted == Spec => []OwnResultVerifies
<1>1. TreeInv => OwnResultVerifies
  <2> SUFFICES ASSUME TreeInv, pc = "made"
               PROVE  /\ CompareTreeLeaves(FlattenTree(before),
                                           FlattenTree(after), target)
                      /\ Shows(after)
                      /\ ReadPath(before, target).object
                            = FlattenTree(before)[target].object
    BY DEF OwnResultVerifies
  <2> DEFINE f == ReadPath(before, target)
  <2>1. /\ before \in Seq(Entries) /\ after \in Seq(Entries)
        /\ target \in Paths /\ desired \in AskedLeaves
        /\ Replacement(before, after, target, desired)
    BY TargetIsPath DEF TreeInv, TypeInv, Executed, Own
  <2>2. /\ FlattenTree(before)[target] = Kept(f)
        /\ target \in DOMAIN FlattenTree(after)
        /\ FlattenTree(after)[target] = desired
        /\ KeptElsewhere(before, after, target)
        /\ KeptElsewhere(after, before, target)
    BY <2>1, MapOfReplacement
  <2>3. CompareTreeLeaves(FlattenTree(before), FlattenTree(after), target)
    BY <2>2 DEF KeptElsewhere, CompareTreeLeaves
  <2>4. Shows(after)
    BY <2>2 DEF Shows
  <2>5. f.object = FlattenTree(before)[target].object
    BY <2>2 DEF Kept
  <2> QED
    BY <2>3, <2>4, <2>5
<1> QED
  BY <1>1, TreeInvariance, PTL

(* Of trees no path of which names two entries, Verify accepts the one     *)
(* change asked for and nothing else: no leaf more, less or changed.       *)
THEOREM VerificationAcceptsTheChange == Spec => []VerificationIsExact
<1>1. TreeInv => VerificationIsExact
  <2> SUFFICES ASSUME TreeInv, pc \in {"verified", "unverified"},
                      WellFormed(before), WellFormed(after)
               PROVE  pc = "verified" <=>
                        LeavesOf(after) = (LeavesOf(before) \ AtTarget(before))
                                             \cup {Leaf(target, desired)}
    BY DEF VerificationIsExact
  <2>1. /\ before \in Seq(Entries) /\ after \in Seq(Entries)
        /\ target \in Paths /\ desired \in AskedLeaves
        /\ Replacement(before, ReplacePath(before, target, desired),
                       target, desired)
    BY TargetIsPath DEF TreeInv, TypeInv, Executed
  <2>2. pc = "verified" <=>
           /\ CompareTreeLeaves(FlattenTree(before), FlattenTree(after), target)
           /\ Shows(after)
    BY DEF TreeInv, Verdict
  <2>3. PICK old \in LeavesOf(before) : old.path = target
    <3>1. Leaf(target, ReadPath(before, target)) \in LeavesOf(before)
      BY <2>1, ReplacementReplacesOneLeaf
    <3>2. Leaf(target, ReadPath(before, target)).path = target
      BY DEF Leaf
    <3> QED
      BY <3>1, <3>2
  <2>4. /\ CompareTreeLeaves(FlattenTree(before), FlattenTree(after), target)
        /\ target \in DOMAIN FlattenTree(after)
        /\ FlattenTree(after)[target] = desired
        <=>
        LeavesOf(after) = (LeavesOf(before) \ AtPath(before, target))
                             \cup {Leaf(target, desired)}
    BY <2>1, <2>3, ComparisonIsExact
  <2>5. Shows(after) <=> /\ target \in DOMAIN FlattenTree(after)
                         /\ FlattenTree(after)[target] = desired
    BY DEF Shows
  <2>6. AtTarget(before) = AtPath(before, target)
    BY DEF AtTarget, AtPath
  <2> QED
    BY <2>2, <2>4, <2>5, <2>6, Zenon
<1> QED
  BY <1>1, TreeInvariance, PTL
=============================================================================
