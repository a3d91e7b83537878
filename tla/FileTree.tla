------------------------------ MODULE FileTree ------------------------------
(***************************************************************************)
(* The file system as the functions of base/file_opr.cpp and the command   *)
(* mv see it: the result of one system call on a tree, as operators.  It   *)
(* is external to src/.                                                    *)
(*                                                                         *)
(* A path is the sequence of its components behind slashes: "/a/b" is      *)
(* <<"a", "b">>, "/" is <<"">>, "/a/" is <<"a", "">>, and the empty string *)
(* is <<>>, which names nothing.                                           *)
(***************************************************************************)
EXTENDS Integers, FiniteSets, SequencesExt

CONSTANTS Names,    \* the names of files and directories
          Special,  \* those that a shell does not read as they are: with a
                    \* blank, a pattern, a semicolon, a minus in front
          Nodes,    \* the numbers of the inodes, those not yet in use included
          Root,     \* the inode of "/"
          MaxLinks  \* how many symbolic links a path may lead through

None == 0
Dots == {".", ".."}
PathComponents == Names \cup Dots \cup {""}

ASSUME TreeAssumption ==
    /\ Nodes \subseteq Nat \ {None} /\ Root \in Nodes
    /\ IsFiniteSet(Nodes)
    /\ Names \cap (Dots \cup {""}) = {}
    /\ Special \subseteq Names
    /\ MaxLinks \in Nat

\* A node is in the directory "up" under "name"; a link leads to the entry
\* "to" of the root.  A node is not used yet, in the tree, or gone.
Node == [kind : {"dir", "file", "link", "unused", "gone"},
         up : Nodes, name : Names \cup {""}, to : Names \cup {""}]

-----------------------------------------------------------------------------
(* Resolving a path.                                                       *)

Live(fs) == {n \in Nodes : fs[n].kind \in {"dir", "file", "link"}}
IsDir(fs, n) == n # None /\ fs[n].kind = "dir"
Children(fs, d) == {n \in Live(fs) \ {Root} : fs[n].up = d}
Entry(fs, d, x) ==
    LET found == {n \in Children(fs, d) : fs[n].name = x}
    IN IF found = {} THEN None ELSE CHOOSE n \in found : TRUE

\* Where a walk stands, and how many links it has followed.
Follow(fs, w) ==
    IF w.at = None \/ fs[w.at].kind # "link" THEN w
    ELSE LET n == Entry(fs, Root, fs[w.at].to)
         IN IF w.links >= MaxLinks \/ n = None \/ fs[n].kind = "link"
            THEN [at |-> None, links |-> w.links]
            ELSE [at |-> n, links |-> w.links + 1]

Component(fs, w, x) ==
    LET d == Follow(fs, w)
        at == IF ~IsDir(fs, d.at) THEN None
              ELSE IF x \in {"", "."} THEN d.at
              ELSE IF x = ".." THEN fs[d.at].up
              ELSE Entry(fs, d.at, x)
    IN [at |-> at, links |-> d.links]

Walk(fs, path) ==
    LET walk[i \in 0 .. Len(path)] ==
            IF i = 0 THEN [at |-> Root, links |-> 0]
            ELSE Component(fs, walk[i - 1], path[i])
    IN walk[Len(path)]

LStat(fs, path) == IF path = <<>> THEN None ELSE Walk(fs, path).at
Stat(fs, path) == IF path = <<>> THEN None ELSE Follow(fs, Walk(fs, path)).at

\* The directory in which the last component of a path is looked up.
Parent(fs, path) == Follow(fs, Walk(fs, Front(path))).at

-----------------------------------------------------------------------------
(* Changing the tree: the tree after the call, the same when it failed.    *)

Without(fs, n) == [fs EXCEPT ![n].kind = "gone"]

\* A path without the slashes at its end, which mkdir, rmdir and rename pass
\* over.
Trimmed(path) ==
    LET named == {i \in DOMAIN path : path[i] # ""}
    IN IF named = {} THEN path ELSE SubSeq(path, 1, Max(named))

\* mkdir fails when the name exists or there is no room for another node.
Mkdir(fs, path) ==
    LET d == Parent(fs, Trimmed(path))
        x == Last(Trimmed(path))
        unused == {n \in Nodes : fs[n].kind = "unused"}
    IN IF IsDir(fs, d) /\ x \in Names /\ Entry(fs, d, x) = None /\ unused # {}
       THEN [fs EXCEPT ![CHOOSE n \in unused : TRUE] =
                [kind |-> "dir", up |-> d, name |-> x, to |-> ""]]
       ELSE fs

Unlink(fs, path) ==
    LET n == LStat(fs, path)
    IN IF n # None /\ ~IsDir(fs, n) THEN Without(fs, n) ELSE fs

Rmdir(fs, path) ==
    LET n == LStat(fs, Trimmed(path))
    IN IF /\ IsDir(fs, n) /\ n # Root
          /\ Children(fs, n) = {} /\ Last(Trimmed(path)) \notin Dots
       THEN Without(fs, n) ELSE fs

\* d is in the tree below n, or n itself.
Inside(fs, d, n) ==
    LET up[k \in 0 .. Cardinality(Nodes)] ==
            IF k = 0 THEN d ELSE fs[up[k - 1]].up
    IN \E k \in DOMAIN up : up[k] = n

\* rename: a file takes the place of a file, a directory that of an empty
\* directory.
Rename(fs, n, d, x) ==
    LET old == Entry(fs, d, x)
        moved == [fs EXCEPT ![n].up = d, ![n].name = x]
    IN IF ~IsDir(fs, d) \/ x \notin Names \/ n = Root \/ Inside(fs, d, n) THEN fs
       ELSE IF old \in {None, n} THEN moved
       ELSE IF IsDir(fs, old) # IsDir(fs, n) \/ Children(fs, old) # {} THEN fs
       ELSE Without(moved, old)

\* A path that a shell takes for what it says.
Literal(path) == \A i \in DOMAIN path : path[i] \notin Special

\* mv src dst: into dst when that is a directory.  No src: mv complains.
\* Only a directory may be given, or get, a name with a slash behind it.
Mv(fs, src, dst) ==
    LET n == LStat(fs, Trimmed(src))
        slash == Trimmed(src) # src \/ Trimmed(dst) # dst
    IN IF src = <<>> \/ n = None \/ Last(Trimmed(src)) \notin Names THEN fs
       ELSE IF IsDir(fs, Stat(fs, dst))
            THEN IF Trimmed(src) # src /\ ~IsDir(fs, n) THEN fs
                 ELSE Rename(fs, n, Stat(fs, dst), Last(Trimmed(src)))
            ELSE IF slash /\ ~IsDir(fs, n) THEN fs
                 ELSE Rename(fs, n, Parent(fs, Trimmed(dst)), Last(Trimmed(dst)))

-----------------------------------------------------------------------------
\* All that a path leads to: its node, what is below it, and what links lead
\* to from there.
Targets(fs, S) ==
    {Entry(fs, Root, fs[n].to) : n \in {m \in S : fs[m].kind = "link"}} \ {None}
Grown(fs, S) == S \cup Targets(fs, S) \cup UNION {Children(fs, n) : n \in S}
Reach(fs, path) ==
    LET reached[k \in 0 .. Cardinality(Nodes)] ==
            IF k = 0 THEN {LStat(fs, path), Stat(fs, path)} \ {None}
            ELSE Grown(fs, reached[k - 1])
    IN reached[Cardinality(Nodes)]

=============================================================================
