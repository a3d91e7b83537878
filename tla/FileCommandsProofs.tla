------------------------- MODULE FileCommandsProofs -------------------------
(***************************************************************************)
(* Theorems about the commands on files, for any tree, sessions, arguments *)
(* and number of commands.                                                 *)
(***************************************************************************)
EXTENDS FileCommands, FiniteSetTheorems, SequenceTheorems,
        WellFoundedInduction, TLAPS

-----------------------------------------------------------------------------
(* The inductive invariant.                                                *)

\* Where a command is, and how many directories it has open there.
Stage(p, j) ==
    /\ j.cmd = "none" <=> p = "idle"
    /\ j.cmd \notin {"none", "LIST"} => j.path # <<>>
    /\ p = "test dir" => j.cmd # "DELE"
    /\ p = "test file" => j.cmd \in {"DELE", "RNFR", "RNTO"}
    /\ p \in {"make_dir", "mkdir"} => j.cmd = "MKD"
    /\ p = "mv" => j.cmd = "RNTO"
    /\ p \in {"rm", "unlink"} => j.cmd \in {"DELE", "RMD"}
    /\ p \in {"opendir", "readdir", "next"} => j.cmd \in {"DELE", "RMD", "LIST"}
    /\ p \notin {"opendir", "readdir", "next", "unlink"} => j.stack = <<>>
    /\ p \in {"readdir", "next"} => j.stack # <<>>
    /\ j.cmd = "LIST" => Len(j.stack) = IF p \in {"readdir", "next"} THEN 1 ELSE 0

\* The handles of a session are those of its frames, and what it leaked: one
\* at most of each command that was not alone.
Handled(j, h, o) == Len(j.stack) <= h /\ h <= o + Len(j.stack)

\* The path q goes on from p by the names of entries.
Below(q, p) ==
    /\ Len(p) <= Len(q)
    /\ \A i \in 1 .. Len(p) : q[i] = p[i]
    /\ \A i \in Len(p) + 1 .. Len(q) : q[i] \notin Dots

\* A DELE or RMD is at a path below its own.
Removing(p, j) ==
    j.cmd \in {"DELE", "RMD"} =>
        /\ p \in {"opendir", "unlink"} => Below(j.at, j.path)
        /\ \A i \in 1 .. Len(j.stack) :
              Below(j.stack[i].path, j.path) /\ j.stack[i].todo \cap Dots = {}

\* The names in a directory.
Entries(t, d) == {t[n].name : n \in Children(t, d)} \cup Dots

\* A LIST that nobody disturbed reads the directory it has opened.
Listed(t, p, j) ==
    j.cmd = "LIST" /\ p \in {"readdir", "next"} =>
        /\ j.stack[1].dir = Stat(t, j.stack[1].path)
        /\ IsDir(t, j.stack[1].dir)
        /\ p = "next" => j.stack[1].todo \subseteq Entries(t, j.stack[1].dir)

\* What the tests of an RNTO that nobody disturbed have found.
Renamed(t, p, j) ==
    j.cmd = "RNTO" =>
        /\ p = "test file" => ~IsDir(t, Stat(t, j.path))
        /\ p = "mv" => Stat(t, j.path) = None

Named(t) ==
    \A n \in Live(t) \ {Root} :
        /\ t[n].name \in Names
        /\ \A m \in Children(t, t[n].up) : t[m].name = t[n].name => m = n

\* The tree is one: what is in it is in a directory that is in it, under a
\* name of its own.
WellFormed(t) ==
    /\ t[Root].kind = "dir" /\ t[Root].up = Root
    /\ \A n \in Live(t) : IsDir(t, t[n].up)
    /\ Named(t)

SessionInv(s) ==
    /\ Stage(pc[s], job[s])
    /\ Handled(job[s], handles[s], disturbed[s])
    /\ Removing(pc[s], job[s])
    /\ alone[s] => Listed(fs, pc[s], job[s]) /\ Renamed(fs, pc[s], job[s])
    /\ Cmd(s) \in {"DELE", "RMD"} => Reach(fs, Path(s)) \subseteq reach[s]

IInv ==
    /\ TypeOK
    /\ WellFormed(fs)
    /\ \A s \in Sessions : SessionInv(s)

-----------------------------------------------------------------------------
(* Induction over numbers, and recursive functions.                        *)

\* A set of numbers has a least one.
LEMMA MinMember ==
    ASSUME NEW S, S \subseteq Nat, S # {}
    PROVE  \E x \in S : \A y \in S : x =< y
<1> DEFINE LT == {p \in Nat \X Nat : p[1] < p[2]}
<1>1. IsWellFoundedOn(LT, Nat)
  BY NatLessThanWellFounded DEF OpToRel
<1> HIDE DEF LT
<1>2. PICK x \in S : \A y \in S : ~ (<<y, x>> \in LT)
  BY <1>1, WFMin
<1>3. \A y \in S : x =< y
  <2>1. TAKE y \in S
  <2>2. x \in Nat /\ y \in Nat
    BY <1>2
  <2>3. ~ (y < x)
    BY <1>2, <2>2 DEF LT
  <2>. QED
    BY <2>2, <2>3
<1>. QED
  BY <1>2, <1>3

\* What holds of a, and with each number of the next, holds up to b.
LEMMA UpTo ==
    ASSUME NEW a \in Nat, NEW b \in Nat, NEW S, a \in S,
           \A n \in a + 1 .. b : n - 1 \in S => n \in S
    PROVE  a .. b \subseteq S
<1> DEFINE Missing == {n \in a .. b : n \notin S}
<1>1. SUFFICES ASSUME Missing # {} PROVE FALSE
  OBVIOUS
<1>2. Missing \subseteq Nat
  OBVIOUS
<1>3. PICK m \in Missing : \A y \in Missing : m =< y
  BY <1>1, <1>2, MinMember
<1>4. m \in a + 1 .. b
  BY <1>3
<1>5. m - 1 \in a .. b /\ m - 1 \notin Missing
  BY <1>3, <1>4
<1>. QED
  BY <1>3, <1>4, <1>5

LEMMA MaxMember ==
    ASSUME NEW N \in Nat, NEW S, S \subseteq 1 .. N, S # {}
    PROVE  Max(S) \in S /\ \A x \in S : x <= Max(S)
<1> DEFINE Far == {N - x : x \in S}
<1>1. \A x \in S : x \in Nat /\ N - x \in Nat
  OBVIOUS
<1>2. Far \subseteq Nat /\ Far # {}
  BY <1>1
<1>3. PICK y \in Far : \A z \in Far : y =< z
  <2> HIDE DEF Far
  <2>. QED
    BY <1>2, MinMember
<1>4. PICK m \in S : y = N - m
  BY <1>3
<1>5. ASSUME NEW x \in S PROVE m >= x
  <2>1. y =< N - x
    BY <1>3
  <2>2. N - m =< N - x /\ m \in Nat /\ x \in Nat
    BY <1>1, <1>4, <2>1
  <2>. QED
    BY <2>2
<1>6. Max(S) \in S /\ \A x \in S : Max(S) >= x
  BY <1>5 DEF Max
<1>. QED
  BY <1>1, <1>6

LEMMA ElementType ==
    ASSUME NEW S, NEW s \in Seq(S), NEW i \in 1 .. Len(s)
    PROVE  s[i] \in S
  OBVIOUS

\* A function that is given by its first value and by each from the one
\* before exists.
Recursion(f, N, A, a, G) ==
    /\ f \in [0 .. N -> A]
    /\ f[0] = a
    /\ \A i \in 1 .. N : f[i] = G[<<f[i - 1], i>>]

LEMMA RecursionExists ==
    ASSUME NEW N \in Nat, NEW A, NEW a \in A, NEW G \in [A \X (1 .. N) -> A]
    PROVE  \E f : Recursion(f, N, A, a, G)
<1> USE DEF Recursion
<1> DEFINE Upon(n) == {f \in [0 .. n -> A] :
                          f[0] = a /\ \A i \in 1 .. n : f[i] = G[<<f[i - 1], i>>]}
           S == {n \in 0 .. N : Upon(n) # {}}
<1>1. 0 \in S
  <2>1. [i \in 0 .. 0 |-> a] \in Upon(0)
    OBVIOUS
  <2>. QED
    BY <2>1
<1>2. ASSUME NEW n \in 0 + 1 .. N, n - 1 \in S PROVE n \in S
  <2>1. PICK f \in [0 .. n - 1 -> A] :
           f[0] = a /\ \A i \in 1 .. n - 1 : f[i] = G[<<f[i - 1], i>>]
    BY <1>2
  <2>2. n \in 1 .. N /\ n \in Nat /\ n - 1 \in 0 .. n - 1
    BY <1>2
  <2> DEFINE g == [i \in 0 .. n |-> IF i = n THEN G[<<f[n - 1], n>>] ELSE f[i]]
  <2>3. G[<<f[n - 1], n>>] \in A
    BY <2>2
  <2>4. \A i \in 0 .. n : i # n => i \in 0 .. n - 1
    BY <2>2
  <2>5. g \in [0 .. n -> A]
    BY <2>3, <2>4
  <2>6. g[0] = a
    BY <2>1, <2>2
  <2>7. ASSUME NEW i \in 1 .. n PROVE g[i] = G[<<g[i - 1], i>>]
    <3>1. i \in 0 .. n /\ i - 1 \in 0 .. n /\ i - 1 # n
      BY <2>2
    <3>2. g[i - 1] = f[i - 1]
      BY <3>1
    <3>3. CASE i = n
      BY <3>1, <3>2, <3>3
    <3>4. CASE i # n
      <4>1. i \in 1 .. n - 1
        BY <2>2, <3>4
      <4>2. g[i] = f[i]
        BY <3>1, <3>4
      <4>. QED
        BY <2>1, <3>2, <4>1, <4>2
    <3>. QED
      BY <3>3, <3>4
  <2>8. g \in Upon(n)
    BY <2>5, <2>6, <2>7
  <2> HIDE DEF Upon, g
  <2>9. n \in 0 .. N
    BY <2>2
  <2>. QED
    BY <2>8, <2>9
<1> HIDE DEF S
<1>3. 0 .. N \subseteq S
  BY <1>1, <1>2, UpTo
<1>4. N \in 0 .. N
  OBVIOUS
<1>5. Upon(N) # {}
  BY <1>3, <1>4 DEF S
<1>. QED
  BY <1>5

-----------------------------------------------------------------------------
(* Resolving a path: the types.                                            *)

PathType == Seq(PathComponents)
Place == [at : Nodes \cup {None}, links : Nat]

LEMMA NodeFacts ==
    /\ Nodes \subseteq Nat \ {0} /\ Root \in Nodes /\ IsFiniteSet(Nodes) /\ None = 0
    /\ None \notin Nodes
    /\ \A x \in Names : x \notin {"", ".", ".."}
    /\ \A t \in [Nodes -> Node] : \A n \in Nodes :
          /\ t[n] \in Node /\ t[n].up \in Nodes
          /\ t[n].kind \in {"dir", "file", "link", "unused", "gone"}
          /\ t[n].name \in Names \cup {""} /\ t[n].to \in Names \cup {""}
<1>1. /\ Nodes \subseteq Nat \ {0} /\ Root \in Nodes /\ IsFiniteSet(Nodes) /\ None = 0
      /\ \A x \in Names : x \notin {"", ".", ".."}
  BY TreeAssumption DEF None, Dots
<1>2. None \notin Nodes
  BY <1>1
<1>3. ASSUME NEW t \in [Nodes -> Node], NEW n \in Nodes
      PROVE  /\ t[n] \in Node /\ t[n].up \in Nodes
             /\ t[n].kind \in {"dir", "file", "link", "unused", "gone"}
             /\ t[n].name \in Names \cup {""} /\ t[n].to \in Names \cup {""}
  BY DEF Node
<1>. QED
  BY <1>1, <1>2, <1>3

LEMMA LiveFacts ==
    ASSUME NEW t, NEW n
    PROVE  /\ n \in Live(t) <=> n \in Nodes /\ t[n].kind \in {"dir", "file", "link"}
           /\ \A d : n \in Children(t, d) <=> n \in Live(t) /\ n # Root /\ t[n].up = d
  BY DEF Live, Children

LEMMA TreeEntry ==
    ASSUME NEW t, NEW d, NEW x
    PROVE  /\ Entry(t, d, x) \in Live(t) \cup {None}
           /\ Entry(t, d, x) # None =>
                /\ Entry(t, d, x) \in Children(t, d)
                /\ t[Entry(t, d, x)].name = x
           /\ Entry(t, d, x) = None => \A n \in Children(t, d) : t[n].name # x
<1> DEFINE found == {n \in Children(t, d) : t[n].name = x}
<1>1. CASE found = {}
  <2>1. Entry(t, d, x) = None
    BY <1>1 DEF Entry
  <2>. QED
    BY <1>1, <2>1
<1>2. CASE found # {}
  <2>1. Entry(t, d, x) = CHOOSE n \in found : TRUE
    BY <1>2 DEF Entry
  <2>2. Entry(t, d, x) \in found
    BY <1>2, <2>1
  <2>3. Entry(t, d, x) \in Children(t, d) /\ t[Entry(t, d, x)].name = x
    BY <2>2
  <2>4. Entry(t, d, x) \in Live(t) /\ Entry(t, d, x) \in Nodes
    BY <2>3 DEF Children, Live
  <2>. QED
    BY <2>3, <2>4, NodeFacts
<1>. QED
  BY <1>1, <1>2

LEMMA FollowType ==
    ASSUME NEW t, NEW w \in Place
    PROVE  /\ Follow(t, w) \in Place
           /\ Follow(t, w).at # None => t[Follow(t, w).at].kind # "link"
           /\ \/ Follow(t, w) = w
              \/ Follow(t, w).at = None
              \/ /\ w.at # None /\ t[w.at].kind = "link"
                 /\ Follow(t, w).at = Entry(t, Root, t[w.at].to)
<1> DEFINE n == Entry(t, Root, t[w.at].to)
<1>0. /\ w.at \in Nodes \cup {None} /\ w.links \in Nat /\ w.links + 1 \in Nat
      /\ n \in Nodes \cup {None}
  BY TreeEntry, LiveFacts DEF Place
<1>1. CASE w.at = None \/ t[w.at].kind # "link"
  BY <1>1 DEF Follow
<1>2. CASE ~(w.at = None \/ t[w.at].kind # "link")
  <2>1. CASE w.links >= MaxLinks \/ n = None \/ t[n].kind = "link"
    <3>1. Follow(t, w) = [at |-> None, links |-> w.links]
      BY <1>2, <2>1 DEF Follow
    <3>. QED
      BY <1>0, <3>1 DEF Place
  <2>2. CASE ~(w.links >= MaxLinks \/ n = None \/ t[n].kind = "link")
    <3>1. Follow(t, w) = [at |-> n, links |-> w.links + 1]
      BY <1>2, <2>2 DEF Follow
    <3>. QED
      BY <1>0, <1>2, <2>2, <3>1 DEF Place
  <2>. QED
    BY <2>1, <2>2
<1>. QED
  BY <1>1, <1>2

\* Where a step of the walk leads from the directory d.
Step(t, d, x) ==
    IF ~IsDir(t, d) THEN None
    ELSE IF x \in {"", "."} THEN d
    ELSE IF x = ".." THEN t[d].up
    ELSE Entry(t, d, x)

LEMMA ComponentFacts ==
    ASSUME NEW t \in [Nodes -> Node], NEW w \in Place, NEW x
    PROVE  /\ Component(t, w, x) \in Place
           /\ Component(t, w, x).at = Step(t, Follow(t, w).at, x)
<1> DEFINE d == Follow(t, w)
<1>1. d \in Place /\ d.at \in Nodes \cup {None} /\ d.links \in Nat
  BY FollowType DEF Place
<1>2. Component(t, w, x) = [at |-> Step(t, d.at, x), links |-> d.links]
  BY DEF Component, Step
<1>3. IsDir(t, d.at) => d.at \in Nodes
  BY <1>1 DEF IsDir
<1>4. IsDir(t, d.at) => t[d.at].up \in Nodes
  BY <1>3, NodeFacts
<1>5. Entry(t, d.at, x) \in Nodes \cup {None}
  BY TreeEntry, LiveFacts
<1> HIDE DEF d
<1>6. Step(t, d.at, x) \in Nodes \cup {None}
  BY <1>1, <1>4, <1>5 DEF Step
<1>. QED
  BY <1>1, <1>2, <1>6 DEF Place, d

-----------------------------------------------------------------------------
(* Resolving a path: the walk, place by place.                             *)

Start == [at |-> Root, links |-> 0]

IsWalk(t, path, f) ==
    /\ f \in [0 .. Len(path) -> Place]
    /\ f[0] = Start
    /\ \A i \in 1 .. Len(path) : f[i] = Component(t, f[i - 1], path[i])

LEMMA StartType == Start \in Place
  BY NodeFacts DEF Start, Place

LEMMA WalkFacts ==
    ASSUME NEW t \in [Nodes -> Node], NEW path \in PathType
    PROVE  \E f : IsWalk(t, path, f) /\ Walk(t, path) = f[Len(path)]
<1> DEFINE N == Len(path)
           G == [x \in Place \X (1 .. N) |-> Component(t, x[1], path[x[2]])]
           Def(f) == f = [i \in 0 .. N |-> IF i = 0 THEN [at |-> Root, links |-> 0]
                                           ELSE Component(t, f[i - 1], path[i])]
           walk == CHOOSE f : Def(f)
<1>1. N \in Nat
  BY DEF PathType
<1>2. Start \in Place
  BY StartType
<1>3. G \in [Place \X (1 .. N) -> Place]
  <2>1. ASSUME NEW x \in Place \X (1 .. N)
        PROVE  Component(t, x[1], path[x[2]]) \in Place
    BY ComponentFacts
  <2>. QED
    BY <2>1
<1>4. PICK f : Recursion(f, N, Place, Start, G)
  <2> HIDE DEF N, G
  <2>. QED
    BY <1>1, <1>2, <1>3, RecursionExists, Zenon
<1>5. f \in [0 .. N -> Place] /\ f[0] = Start
  BY <1>4 DEF Recursion
<1>6. \A i \in 1 .. N : f[i] = Component(t, f[i - 1], path[i])
  <2>1. TAKE i \in 1 .. N
  <2>2. i - 1 \in 0 .. N
    BY <1>1
  <2>3. f[i - 1] \in Place
    BY <1>5, <2>2
  <2>4. <<f[i - 1], i>> \in Place \X (1 .. N)
    BY <2>3
  <2>5. G[<<f[i - 1], i>>] = Component(t, f[i - 1], path[i])
    BY <2>4
  <2> HIDE DEF G
  <2>. QED
    BY <1>4, <2>5 DEF Recursion
<1>7. Def(f)
  <2>1. \A i \in 0 .. N : i # 0 => i \in 1 .. N
    BY <1>1
  <2>2. \A i \in 0 .. N : f[i] = IF i = 0 THEN [at |-> Root, links |-> 0]
                                 ELSE Component(t, f[i - 1], path[i])
    BY <1>5, <1>6, <2>1 DEF Start
  <2> HIDE DEF N
  <2>. QED
    BY <1>5, <2>2
<1>8. Def(walk)
  BY <1>7
<1>9. Walk(t, path) = walk[N]
  BY DEF Walk
<1> HIDE DEF walk
<1>10. walk[0] = Start
  BY <1>1, <1>8 DEF Start
<1>11. ASSUME NEW i \in 1 .. N PROVE walk[i] = Component(t, walk[i - 1], path[i])
  <2>1. i \in 0 .. N /\ i # 0
    BY <1>1
  <2>. QED
    BY <1>8, <2>1
<1>12. \A i \in 0 .. N : walk[i] \in Place
  <2> DEFINE S == {i \in 0 .. N : walk[i] \in Place}
  <2>1. 0 \in S
    BY <1>1, <1>2, <1>10
  <2>2. ASSUME NEW n \in 0 + 1 .. N, n - 1 \in S PROVE n \in S
    <3>1. n \in 1 .. N /\ n \in 0 .. N
      BY <1>1
    <3>2. walk[n - 1] \in Place
      BY <2>2
    <3>3. walk[n] = Component(t, walk[n - 1], path[n])
      BY <1>11, <3>1
    <3>. QED
      BY <3>1, <3>2, <3>3, ComponentFacts
  <2> HIDE DEF S, N
  <2>3. 0 .. N \subseteq S
    BY <1>1, <2>1, <2>2, UpTo
  <2>. QED
    BY <2>3 DEF S
<1>13. walk \in [0 .. N -> Place]
  <2>1. walk = [i \in 0 .. N |-> walk[i]]
    <3>1. walk = [i \in 0 .. N |-> IF i = 0 THEN [at |-> Root, links |-> 0]
                                   ELSE Component(t, walk[i - 1], path[i])]
      BY <1>8
    <3>. QED
      BY <3>1
  <2>. QED
    BY <1>12, <2>1
<1>. QED
  BY <1>9, <1>10, <1>11, <1>13 DEF IsWalk

LEMMA WalkType ==
    ASSUME NEW t \in [Nodes -> Node], NEW path \in PathType
    PROVE  Walk(t, path) \in Place
<1>1. PICK f : IsWalk(t, path, f) /\ Walk(t, path) = f[Len(path)]
  BY WalkFacts
<1>2. Len(path) \in 0 .. Len(path)
  BY DEF PathType
<1>. QED
  BY <1>1, <1>2 DEF IsWalk

\* Two paths that start with the same components lead to the same place.
LEMMA WalkAgree ==
    ASSUME NEW t \in [Nodes -> Node], NEW p \in PathType, NEW q \in PathType,
           NEW f, IsWalk(t, p, f), NEW g, IsWalk(t, q, g),
           NEW k \in Nat, k <= Len(p), k <= Len(q),
           \A i \in 1 .. k : p[i] = q[i]
    PROVE  f[k] = g[k]
<1> DEFINE S == {i \in 0 .. k : f[i] = g[i]}
<1>1. 0 \in S
  BY DEF IsWalk
<1>2. ASSUME NEW n \in 0 + 1 .. k, n - 1 \in S PROVE n \in S
  <2>1. n \in 1 .. k /\ n \in 0 .. k /\ n \in 1 .. Len(p) /\ n \in 1 .. Len(q)
    BY DEF PathType
  <2>2. f[n - 1] = g[n - 1] /\ p[n] = q[n]
    BY <1>2, <2>1
  <2>3. f[n] = Component(t, f[n - 1], p[n]) /\ g[n] = Component(t, g[n - 1], q[n])
    BY <2>1 DEF IsWalk
  <2>. QED
    BY <2>1, <2>2, <2>3
<1> HIDE DEF S
<1>3. 0 \in Nat
  OBVIOUS
<1>4. 0 .. k \subseteq S
  BY <1>1, <1>2, <1>3, UpTo
<1>. QED
  BY <1>4 DEF S

LEMMA FrontFacts ==
    ASSUME NEW S, NEW p \in Seq(S), p # <<>>
    PROVE  /\ Len(p) \in Nat \ {0}
           /\ Front(p) \in Seq(S) /\ Len(Front(p)) = Len(p) - 1
           /\ \A i \in 1 .. Len(p) - 1 : Front(p)[i] = p[i]
           /\ Last(p) \in S /\ Last(p) = p[Len(p)]
<1>1. Len(p) \in Nat \ {0}
  OBVIOUS
<1> DEFINE k == Len(p) - 1
<1>2. 1 \in 1 .. Len(p) + 1 /\ k \in 0 .. Len(p) /\ k \in 1 - 1 .. Len(p) /\ k \in Nat
  BY <1>1
<1>3. Front(p) = SubSeq(p, 1, k)
  BY DEF Front
<1> HIDE DEF k
<1>4. /\ SubSeq(p, 1, k) \in Seq(S)
      /\ Len(SubSeq(p, 1, k)) = IF 1 <= k THEN k - 1 + 1 ELSE 0
      /\ \A i \in 1 .. k - 1 + 1 : SubSeq(p, 1, k)[i] = p[1 + i - 1]
  BY <1>2, SubSeqProperties
<1>5. Len(Front(p)) = k /\ \A i \in 1 .. k : Front(p)[i] = p[i]
  BY <1>2, <1>3, <1>4
<1>6. Last(p) = p[Len(p)] /\ Len(p) \in 1 .. Len(p)
  BY <1>1 DEF Last
<1>. QED
  BY <1>1, <1>3, <1>4, <1>5, <1>6, ElementType DEF k

LEMMA TrimmedFacts ==
    ASSUME NEW p \in PathType
    PROVE  /\ Trimmed(p) \in PathType
           /\ Len(Trimmed(p)) \in Nat /\ Len(Trimmed(p)) <= Len(p)
           /\ \A i \in 1 .. Len(Trimmed(p)) : Trimmed(p)[i] = p[i]
           /\ \A i \in Len(Trimmed(p)) + 1 .. Len(p) : p[i] = ""
           /\ p # <<>> => Trimmed(p) # <<>>
<1> DEFINE named == {i \in DOMAIN p : p[i] # ""}
           k == Max(named)
           Trim(q) == /\ q \in PathType /\ Len(q) \in Nat /\ Len(q) <= Len(p)
                      /\ \A i \in 1 .. Len(q) : q[i] = p[i]
                      /\ \A i \in Len(q) + 1 .. Len(p) : p[i] = ""
                      /\ p # <<>> => q # <<>>
<1>0. SUFFICES Trim(Trimmed(p))
  BY Zenon
<1>1. Len(p) \in Nat /\ DOMAIN p = 1 .. Len(p)
  BY DEF PathType
<1>2. CASE named = {}
  <2>1. Trimmed(p) = p
    BY <1>2 DEF Trimmed
  <2>2. \A l \in Nat : l + 1 .. l = {}
    OBVIOUS
  <2>3. Len(p) + 1 .. Len(p) = {} /\ Len(p) <= Len(p)
    BY <1>1, <2>2
  <2>4. Trim(p)
    BY <1>1, <2>3
  <2> HIDE DEF Trim
  <2>. QED
    BY <2>1, <2>4
<1>3. CASE named # {}
  <2>1. Trimmed(p) = SubSeq(p, 1, k)
    BY <1>3 DEF Trimmed
  <2>2. named \subseteq 1 .. Len(p)
    BY <1>1
  <2>3. k \in named /\ \A i \in named : i <= k
    <3> HIDE DEF named
    <3>. QED
      BY <1>1, <1>3, <2>2, MaxMember
  <2>4. \A i \in 1 .. Len(p) : p[i] # "" => i <= k
    BY <1>1, <2>3
  <2>5. k \in 1 .. Len(p)
    BY <2>2, <2>3
  <2> HIDE DEF k, named
  <2>6. \A i \in k + 1 .. Len(p) : p[i] = ""
    <3>1. TAKE i \in k + 1 .. Len(p)
    <3>2. i \in 1 .. Len(p) /\ ~(i <= k)
      BY <1>1, <2>5
    <3>. QED
      BY <2>4, <3>2
  <2>7. /\ SubSeq(p, 1, k) \in PathType
        /\ Len(SubSeq(p, 1, k)) = IF 1 <= k THEN k - 1 + 1 ELSE 0
        /\ \A i \in 1 .. k - 1 + 1 : SubSeq(p, 1, k)[i] = p[1 + i - 1]
    <3>1. 1 \in 1 .. Len(p) + 1 /\ k \in 1 - 1 .. Len(p)
      BY <1>1, <2>5
    <3>. QED
      BY <3>1, SubSeqProperties DEF PathType
  <2>8. Len(SubSeq(p, 1, k)) = k /\ \A i \in 1 .. k : SubSeq(p, 1, k)[i] = p[i]
    BY <2>5, <2>7
  <2>9. SubSeq(p, 1, k) # <<>>
    BY <2>5, <2>8
  <2>10. /\ Len(SubSeq(p, 1, k)) \in Nat /\ Len(SubSeq(p, 1, k)) <= Len(p)
         /\ \A i \in 1 .. Len(SubSeq(p, 1, k)) : SubSeq(p, 1, k)[i] = p[i]
         /\ \A i \in Len(SubSeq(p, 1, k)) + 1 .. Len(p) : p[i] = ""
    <3>1. Len(SubSeq(p, 1, k)) = k
      BY <2>8
    <3>2. k \in Nat /\ k <= Len(p)
      BY <1>1, <2>5
    <3>. QED
      BY <2>6, <2>8, <3>1, <3>2
  <2>11. Trim(SubSeq(p, 1, k))
    BY <2>7, <2>9, <2>10
  <2> HIDE DEF Trim
  <2>. QED
    BY <2>1, <2>11
<1>. QED
  BY <1>2, <1>3

\* The last component is looked up where the path before it leads.
LEMMA WalkStep ==
    ASSUME NEW t \in [Nodes -> Node], NEW p \in PathType, p # <<>>
    PROVE  Walk(t, p) = Component(t, Walk(t, Front(p)), Last(p))
<1> DEFINE q == Front(p)
           k == Len(p) - 1
<1>1. /\ Len(p) \in Nat \ {0} /\ q \in PathType /\ Len(q) = k
      /\ \A i \in 1 .. k : p[i] = q[i]
      /\ Last(p) = p[Len(p)]
  BY FrontFacts DEF PathType
<1>2. k \in Nat /\ k <= Len(p) /\ k <= Len(q)
  BY <1>1
<1>3. PICK f : IsWalk(t, p, f) /\ Walk(t, p) = f[Len(p)]
  BY WalkFacts
<1>4. PICK g : IsWalk(t, q, g) /\ Walk(t, q) = g[Len(q)]
  BY <1>1, WalkFacts
<1>5. f[k] = g[k]
  <2> HIDE DEF k, q
  <2>. QED
    BY <1>1, <1>2, <1>3, <1>4, WalkAgree
<1>6. f[Len(p)] = Component(t, f[Len(p) - 1], p[Len(p)])
  <2>1. Len(p) \in 1 .. Len(p)
    BY <1>1
  <2>. QED
    BY <1>3, <2>1 DEF IsWalk
<1>. QED
  BY <1>1, <1>3, <1>4, <1>5, <1>6

LEMMA StatType ==
    ASSUME NEW t \in [Nodes -> Node], NEW p \in PathType
    PROVE  LStat(t, p) \in Nodes \cup {None} /\ Stat(t, p) \in Nodes \cup {None}
<1>1. Walk(t, p) \in Place /\ Follow(t, Walk(t, p)) \in Place
  BY WalkType, FollowType
<1>. QED
  BY <1>1 DEF LStat, Stat, Place

\* A slash behind the name of a directory leads no further.
LEMMA TrimmedStat ==
    ASSUME NEW t \in [Nodes -> Node], NEW p \in PathType, p # <<>>,
           IsDir(t, LStat(t, Trimmed(p)))
    PROVE  LStat(t, p) = LStat(t, Trimmed(p))
<1> DEFINE q == Trimmed(p)
           k == Len(q)
           n == LStat(t, q)
<1>1. /\ q \in PathType /\ q # <<>> /\ k \in Nat /\ k <= Len(p)
      /\ \A i \in 1 .. k : p[i] = q[i]
      /\ \A i \in k + 1 .. Len(p) : p[i] = ""
  BY TrimmedFacts
<1>2. PICK f : IsWalk(t, p, f) /\ Walk(t, p) = f[Len(p)]
  BY WalkFacts
<1>3. PICK g : IsWalk(t, q, g) /\ Walk(t, q) = g[k]
  <2> HIDE DEF q
  <2>. QED
    BY <1>1, WalkFacts
<1>4. n = Walk(t, q).at
  <2> HIDE DEF q
  <2>. QED
    BY <1>1 DEF LStat
<1> HIDE DEF q
<1>5. f[k] = g[k]
  <2>1. q \in PathType /\ k \in Nat /\ k <= Len(p)
        /\ \A i \in 1 .. k : p[i] = q[i]
    BY <1>1
  <2>2. k <= k
    BY <2>1
  <2>3. k <= Len(q) /\ IsWalk(t, p, f) /\ IsWalk(t, q, g)
    BY <1>2, <1>3, <2>2
  <2> HIDE DEF k
  <2>. QED
    BY <2>1, <2>3, WalkAgree
<1>6. n # None /\ t[n].kind = "dir"
  BY DEF IsDir, q
<1> HIDE DEF n
<1> DEFINE S == {i \in k .. Len(p) : f[i].at = n}
<1>7. Len(p) \in Nat /\ k \in k .. Len(p) /\ Len(p) \in k .. Len(p)
  <2>1. Len(p) \in Nat
    BY DEF PathType
  <2>2. k \in Nat /\ k <= Len(p)
    BY <1>1
  <2>3. ASSUME NEW a \in Nat, NEW b \in Nat, a <= b PROVE a \in a .. b /\ b \in a .. b
    BY <2>3
  <2> HIDE DEF k
  <2>. QED
    BY <2>1, <2>2, <2>3
<1>8. k \in S
  BY <1>3, <1>4, <1>5, <1>7
<1>9. ASSUME NEW i \in k + 1 .. Len(p), i - 1 \in S PROVE i \in S
  <2>1. i \in 1 .. Len(p) /\ i \in k .. Len(p) /\ i - 1 \in 0 .. Len(p)
    <3>1. ASSUME NEW a \in Nat, NEW b \in Nat, NEW j \in a + 1 .. b
          PROVE  j \in 1 .. b /\ j \in a .. b /\ j - 1 \in 0 .. b
      BY <3>1
    <3>2. k \in Nat /\ Len(p) \in Nat
      BY <1>1, <1>7
    <3> HIDE DEF k
    <3>. QED
      BY <1>9, <3>1, <3>2
  <2>2. f[i - 1] \in Place /\ f[i - 1].at = n
    BY <1>2, <1>9, <2>1 DEF IsWalk
  <2>3. f[i] = Component(t, f[i - 1], "")
    BY <1>1, <1>2, <2>1 DEF IsWalk
  <2>4. Follow(t, f[i - 1]) = f[i - 1]
    BY <1>6, <2>2 DEF Follow
  <2>5. Step(t, n, "") = n
    BY <1>6 DEF Step, IsDir
  <2>6. f[i].at = n
    BY <2>2, <2>3, <2>4, <2>5, ComponentFacts
  <2>. QED
    BY <2>1, <2>6
<1> HIDE DEF S, k
<1>10. k .. Len(p) \subseteq S
  BY <1>1, <1>7, <1>8, <1>9, UpTo
<1>11. f[Len(p)].at = n
  BY <1>7, <1>10 DEF S
<1>. QED
  BY <1>2, <1>11 DEF LStat, n, q

\* In a tree every path leads to something that is there, or to nothing.
LEMMA WalkLive ==
    ASSUME NEW t \in [Nodes -> Node], NEW p \in PathType, WellFormed(t)
    PROVE  /\ Walk(t, p).at \in Live(t) \cup {None}
           /\ Follow(t, Walk(t, p)).at \in Live(t) \cup {None}
<1>1. PICK f : IsWalk(t, p, f) /\ Walk(t, p) = f[Len(p)]
  BY WalkFacts
<1>2. \A w \in Place : w.at \in Live(t) \cup {None} => Follow(t, w).at \in Live(t) \cup {None}
  BY FollowType, TreeEntry
<1>3. \A d \in Nodes : IsDir(t, d) => d \in Live(t) /\ t[d].up \in Live(t) \cup {None}
  <2>1. TAKE d \in Nodes
  <2>2. SUFFICES ASSUME IsDir(t, d) PROVE d \in Live(t) /\ t[d].up \in Live(t) \cup {None}
    OBVIOUS
  <2>3. d \in Live(t)
    BY <2>2, LiveFacts DEF IsDir
  <2>4. IsDir(t, t[d].up) /\ t[d].up \in Nodes
    BY <2>3, NodeFacts DEF WellFormed
  <2>. QED
    BY <2>3, <2>4, LiveFacts DEF IsDir
<1>4. ASSUME NEW w \in Place, NEW x, w.at \in Live(t) \cup {None}
      PROVE  Component(t, w, x).at \in Live(t) \cup {None}
  <2> DEFINE d == Follow(t, w).at
  <2>1. d \in Live(t) \cup {None} /\ d \in Nodes \cup {None}
    BY <1>2, <1>4, FollowType DEF Place
  <2>2. Component(t, w, x).at = Step(t, d, x)
    BY ComponentFacts
  <2> HIDE DEF d
  <2>3. IsDir(t, d) => d \in Nodes
    BY <2>1 DEF IsDir
  <2>. QED
    BY <1>3, <2>1, <2>2, <2>3, TreeEntry DEF Step
<1> DEFINE S == {i \in 0 .. Len(p) : f[i].at \in Live(t) \cup {None}}
<1>5. 0 \in S
  <2>1. Root \in Live(t)
    BY NodeFacts, LiveFacts DEF WellFormed
  <2>2. f[0].at = Root /\ Len(p) \in Nat
    BY <1>1 DEF IsWalk, Start, PathType
  <2>. QED
    BY <2>1, <2>2
<1>6. ASSUME NEW n \in 0 + 1 .. Len(p), n - 1 \in S PROVE n \in S
  <2>1. n \in 1 .. Len(p) /\ n \in 0 .. Len(p) /\ n - 1 \in 0 .. Len(p)
    BY DEF PathType
  <2>2. f[n - 1] \in Place /\ f[n] = Component(t, f[n - 1], p[n])
    BY <1>1, <2>1 DEF IsWalk
  <2>3. f[n - 1].at \in Live(t) \cup {None}
    BY <1>6
  <2>. QED
    BY <1>4, <2>1, <2>2, <2>3
<1> HIDE DEF S
<1>7. 0 \in Nat /\ Len(p) \in Nat /\ Len(p) \in 0 .. Len(p)
  BY DEF PathType
<1>8. 0 .. Len(p) \subseteq S
  BY <1>5, <1>6, <1>7, UpTo
<1>9. Walk(t, p).at \in Live(t) \cup {None}
  BY <1>1, <1>7, <1>8 DEF S
<1>. QED
  BY <1>2, <1>9, WalkType

LEMMA StatKind ==
    ASSUME NEW t \in [Nodes -> Node], NEW p \in PathType, WellFormed(t), Stat(t, p) # None
    PROVE  Stat(t, p) \in Live(t) /\ t[Stat(t, p)].kind \in {"dir", "file"}
<1>1. Stat(t, p) = Follow(t, Walk(t, p)).at
  BY DEF Stat
<1>2. Stat(t, p) \in Live(t)
  BY <1>1, WalkLive
<1>3. t[Stat(t, p)].kind # "link"
  BY <1>1, WalkType, FollowType
<1>. QED
  BY <1>2, <1>3, LiveFacts

LEMMA AppendFacts ==
    ASSUME NEW S, NEW s \in Seq(S), NEW e \in S
    PROVE  /\ Append(s, e) \in Seq(S) /\ Append(s, e) # <<>>
           /\ Len(Append(s, e)) = Len(s) + 1
           /\ \A i \in 1 .. Len(s) : Append(s, e)[i] = s[i]
           /\ Append(s, e)[Len(s) + 1] = e
           /\ Front(Append(s, e)) = s /\ Last(Append(s, e)) = e
<1> DEFINE a == Append(s, e)
<1>1. /\ a \in Seq(S) /\ a # <<>> /\ Len(a) = Len(s) + 1
      /\ \A i \in 1 .. Len(s) : a[i] = s[i]
      /\ a[Len(s) + 1] = e
  BY AppendProperties
<1>2. Len(s) \in Nat
  BY LenProperties
<1> HIDE DEF a
<1>3. /\ Front(a) \in Seq(S) /\ Len(Front(a)) = Len(a) - 1
      /\ \A i \in 1 .. Len(a) - 1 : Front(a)[i] = a[i]
      /\ Last(a) = a[Len(a)]
  BY <1>1, FrontFacts
<1>4. Len(Front(a)) = Len(s) /\ \A i \in 1 .. Len(Front(a)) : Front(a)[i] = s[i]
  BY <1>1, <1>2, <1>3
<1>5. Front(a) = s
  BY <1>3, <1>4, SeqEqual
<1>. QED
  BY <1>1, <1>2, <1>3, <1>5 DEF a

\* What a directory holds is there, under the path of the directory.
LEMMA EntryStat ==
    ASSUME NEW t \in [Nodes -> Node], NEW p \in PathType, NEW x \in PathComponents,
           IsDir(t, Stat(t, p)), x \in Entries(t, Stat(t, p))
    PROVE  LStat(t, Append(p, x)) # None
<1> DEFINE d == Stat(t, p)
           q == Append(p, x)
<1>1. /\ p # <<>> /\ d = Follow(t, Walk(t, p)).at
  BY DEF Stat, IsDir
<1>2. q \in PathType /\ q # <<>> /\ Front(q) = p /\ Last(q) = x
  BY AppendFacts DEF PathType
<1>3. d \in Nodes /\ d # None /\ IsDir(t, d) /\ t[d].up \in Nodes
  BY StatType, NodeFacts DEF IsDir
<1>4. LStat(t, q) = Step(t, d, x)
  <2>1. Walk(t, q) = Component(t, Walk(t, p), x)
    BY <1>2, WalkStep
  <2>2. Component(t, Walk(t, p), x).at = Step(t, Follow(t, Walk(t, p)).at, x)
    BY WalkType, ComponentFacts
  <2>. QED
    BY <1>1, <1>2, <2>1, <2>2 DEF LStat
<1>5. x \in {t[n].name : n \in Children(t, d)} \/ x \in {".", ".."}
  BY DEF Entries, Dots
<1>6. SUFFICES LStat(t, q) # None
  OBVIOUS
<1> HIDE DEF d, q
<1>7. t[d].up # None
  BY <1>3, NodeFacts
<1>8. Step(t, d, x) = IF x \in {"", "."} THEN d
                     ELSE IF x = ".." THEN t[d].up ELSE Entry(t, d, x)
  BY <1>3 DEF Step
<1>9. CASE x \in {".", ".."}
  BY <1>3, <1>4, <1>7, <1>8, <1>9
<1>10. CASE x \in {t[n].name : n \in Children(t, d)}
  <2>1. Entry(t, d, x) # None
    BY <1>10, TreeEntry
  <2>. QED
    BY <1>3, <1>4, <1>7, <1>8, <2>1
<1>. QED
  BY <1>5, <1>9, <1>10

-----------------------------------------------------------------------------
(* All that a path leads to.                                               *)

LEMMA GrownFacts ==
    ASSUME NEW t, NEW S \in SUBSET Nodes
    PROVE  Grown(t, S) \in SUBSET Nodes /\ S \subseteq Grown(t, S)
<1>1. Targets(t, S) \subseteq Nodes
  BY TreeEntry, LiveFacts DEF Targets
<1>2. UNION {Children(t, n) : n \in S} \subseteq Nodes
  <2>1. \A n : Children(t, n) \subseteq Nodes
    BY DEF Children, Live
  <2>. QED
    BY <2>1
<1>. QED
  BY <1>1, <1>2 DEF Grown

LEMMA GrownMonotone ==
    ASSUME NEW t, NEW S, NEW C, S \subseteq C
    PROVE  Grown(t, S) \subseteq Grown(t, C)
<1>1. Targets(t, S) \subseteq Targets(t, C)
  BY DEF Targets
<1>2. UNION {Children(t, n) : n \in S} \subseteq UNION {Children(t, n) : n \in C}
  BY Zenon
<1>. QED
  BY <1>1, <1>2 DEF Grown

\* A set that grows in each step is all of the nodes after as many steps as
\* there are nodes, so it has stopped to grow by then.  It is the least that
\* grows no more.
LEMMA ReachFacts ==
    ASSUME NEW t \in [Nodes -> Node], NEW path \in PathType
    PROVE  /\ Reach(t, path) \in SUBSET Nodes
           /\ {LStat(t, path), Stat(t, path)} \ {None} \subseteq Reach(t, path)
           /\ Grown(t, Reach(t, path)) = Reach(t, path)
           /\ \A C : {LStat(t, path), Stat(t, path)} \ {None} \subseteq C
                        /\ Grown(t, C) \subseteq C
                     => Reach(t, path) \subseteq C
<1> DEFINE N == Cardinality(Nodes)
           base == {LStat(t, path), Stat(t, path)} \ {None}
           A == SUBSET Nodes
           G == [x \in A \X (1 .. N) |-> Grown(t, x[1])]
           Def(f) == f = [k \in 0 .. N |-> IF k = 0 THEN {LStat(t, path), Stat(t, path)} \ {None}
                                           ELSE Grown(t, f[k - 1])]
           reached == CHOOSE f : Def(f)
<1>1. N \in Nat /\ IsFiniteSet(Nodes)
  BY NodeFacts, FS_CardinalityType
<1>2. base \in A
  BY StatType
<1>3. G \in [A \X (1 .. N) -> A]
  <2>1. ASSUME NEW x \in A \X (1 .. N)
        PROVE  Grown(t, x[1]) \in A
    BY GrownFacts
  <2>. QED
    BY <2>1
<1>4. PICK f : Recursion(f, N, A, base, G)
  <2> HIDE DEF N, A, base, G
  <2>. QED
    BY <1>1, <1>2, <1>3, RecursionExists, Zenon
<1>5. f \in [0 .. N -> A] /\ f[0] = base
  BY <1>4 DEF Recursion
<1>6. \A i \in 1 .. N : f[i] = Grown(t, f[i - 1])
  <2>1. TAKE i \in 1 .. N
  <2>2. i - 1 \in 0 .. N
    BY <1>1
  <2>3. f[i - 1] \in A
    BY <1>5, <2>2
  <2>4. <<f[i - 1], i>> \in A \X (1 .. N)
    BY <2>3
  <2> HIDE DEF A
  <2>5. G[<<f[i - 1], i>>] = Grown(t, f[i - 1])
    BY <2>4
  <2> HIDE DEF G
  <2>. QED
    BY <1>4, <2>5 DEF Recursion
<1>7. Def(f)
  <2>1. \A i \in 0 .. N : i # 0 => i \in 1 .. N
    BY <1>1
  <2>2. \A i \in 0 .. N : f[i] = IF i = 0 THEN base ELSE Grown(t, f[i - 1])
    BY <1>5, <1>6, <2>1
  <2> HIDE DEF N, A
  <2>. QED
    BY <1>5, <2>2
<1>8. Def(reached)
  BY <1>7
<1>9. Reach(t, path) = reached[N]
  BY DEF Reach
<1> HIDE DEF reached
<1>10. reached[0] = base
  BY <1>1, <1>8
<1> HIDE DEF base
<1>11. ASSUME NEW i \in 1 .. N PROVE reached[i] = Grown(t, reached[i - 1])
  <2>1. i \in 0 .. N /\ i # 0
    BY <1>1
  <2>. QED
    BY <1>8, <2>1
<1>12. Grown(t, base) \in A /\ base \subseteq Nodes
  BY <1>2, GrownFacts
<1> DEFINE Good(k) == /\ reached[k] \in A /\ base \subseteq reached[k]
                      /\ \/ Grown(t, reached[k]) = reached[k]
                         \/ Cardinality(reached[k]) >= k
           S == {k \in 0 .. N : Good(k)}
<1>13. 0 \in S
  <2>1. IsFiniteSet(base) /\ Cardinality(base) \in Nat
    BY <1>1, <1>12, FS_Subset, FS_CardinalityType
  <2>. QED
    BY <1>1, <1>2, <1>10, <2>1
<1>14. ASSUME NEW n \in 0 + 1 .. N, n - 1 \in S PROVE n \in S
  <2> DEFINE old == reached[n - 1]
             new == reached[n]
  <2>1. n \in 1 .. N /\ n \in 0 .. N /\ n \in Nat /\ n - 1 \in Nat
    BY <1>1
  <2>2. /\ old \in A /\ base \subseteq old
        /\ Grown(t, old) = old \/ Cardinality(old) >= n - 1
    BY <1>14
  <2>3. new = Grown(t, old)
    BY <1>11, <2>1
  <2>4. new \in A /\ old \subseteq new
    BY <2>2, <2>3, GrownFacts
  <2>5. CASE Grown(t, old) = old
    BY <2>1, <2>2, <2>3, <2>5
  <2>6. CASE Grown(t, old) # old
    <3>1. IsFiniteSet(new) /\ Cardinality(new) \in Nat
      BY <1>1, <2>4, FS_Subset, FS_CardinalityType
    <3>2. IsFiniteSet(old) /\ Cardinality(old) \in Nat
      BY <1>1, <2>2, FS_Subset, FS_CardinalityType
    <3>3. Cardinality(old) <= Cardinality(new) /\ Cardinality(old) # Cardinality(new)
      BY <2>3, <2>4, <2>6, <3>1, FS_Subset
    <3> HIDE DEF old, new
    <3>4. Cardinality(new) >= n
      BY <2>1, <2>2, <2>6, <3>1, <3>2, <3>3
    <3>. QED
      BY <2>1, <2>2, <2>4, <3>4 DEF old, new
  <2>. QED
    BY <2>5, <2>6
<1> HIDE DEF S
<1>15. 0 \in Nat /\ N \in 0 .. N
  BY <1>1
<1>16. 0 .. N \subseteq S
  <2> HIDE DEF N
  <2>. QED
    BY <1>1, <1>13, <1>14, <1>15, UpTo
<1>17. Good(N)
  BY <1>15, <1>16 DEF S
<1>18. Grown(t, reached[N]) = reached[N]
  <2>1. CASE Cardinality(reached[N]) >= N
    <3>1. Cardinality(reached[N]) \in Nat
      BY <1>1, <1>17, FS_Subset, FS_CardinalityType
    <3>2. Cardinality(reached[N]) <= Cardinality(Nodes)
      BY <1>1, <1>17, FS_Subset
    <3>3. Cardinality(reached[N]) = Cardinality(Nodes)
      BY <1>1, <2>1, <3>1, <3>2
    <3>4. reached[N] = Nodes
      BY <1>1, <1>17, <3>3, FS_Subset
    <3>. QED
      BY <3>4, GrownFacts
  <2>. QED
    BY <1>17, <2>1
<1>19. ASSUME NEW C, base \subseteq C, Grown(t, C) \subseteq C
       PROVE  Reach(t, path) \subseteq C
  <2> DEFINE T == {k \in 0 .. N : reached[k] \subseteq C}
  <2>1. 0 \in T
    BY <1>1, <1>10, <1>19
  <2>2. ASSUME NEW n \in 0 + 1 .. N, n - 1 \in T PROVE n \in T
    <3>1. n \in 1 .. N /\ n \in 0 .. N
      BY <1>1
    <3>2. Grown(t, reached[n - 1]) \subseteq Grown(t, C)
      BY <2>2, GrownMonotone
    <3>3. reached[n] \subseteq C
      BY <1>11, <1>19, <3>1, <3>2
    <3>. QED
      BY <3>1, <3>3
  <2> HIDE DEF T, N
  <2>3. 0 .. N \subseteq T
    BY <1>1, <1>15, <2>1, <2>2, UpTo
  <2>. QED
    BY <1>9, <1>15, <2>3 DEF T
<1>. QED
  BY <1>9, <1>17, <1>18, <1>19 DEF base

\* A path that goes on from another by names leads to what that leads to.
LEMMA ReachCovers ==
    ASSUME NEW t \in [Nodes -> Node], NEW p \in PathType, NEW q \in PathType,
           p # <<>>, Below(q, p)
    PROVE  LStat(t, q) \in Reach(t, p) \cup {None}
<1> DEFINE R == Reach(t, p)
<1>1. /\ R \in SUBSET Nodes
      /\ {LStat(t, p), Stat(t, p)} \ {None} \subseteq R
      /\ Grown(t, R) = R
  BY ReachFacts
<1>2. /\ Len(p) \in Nat \ {0} /\ Len(q) \in Nat /\ Len(p) <= Len(q) /\ q # <<>>
      /\ \A i \in 1 .. Len(p) : q[i] = p[i]
      /\ \A i \in Len(p) + 1 .. Len(q) : q[i] \notin Dots
  <2>1. Len(p) \in Nat \ {0} /\ Len(q) \in Nat /\ Len(p) <= Len(q)
    BY DEF PathType, Below
  <2>2. q # <<>>
    BY <2>1
  <2>. QED
    BY <2>1, <2>2 DEF Below
<1>3. PICK f : IsWalk(t, p, f) /\ Walk(t, p) = f[Len(p)]
  BY WalkFacts
<1>4. PICK g : IsWalk(t, q, g) /\ Walk(t, q) = g[Len(q)]
  BY WalkFacts
<1>5. f[Len(p)] = g[Len(p)]
  <2>1. Len(p) <= Len(p)
    BY <1>2
  <2>2. \A i \in 1 .. Len(p) : p[i] = q[i]
    BY <1>2
  <2>. QED
    BY <1>2, <1>3, <1>4, <2>1, <2>2, WalkAgree
<1>6. LStat(t, p) = Walk(t, p).at /\ LStat(t, q) = Walk(t, q).at
  BY <1>2 DEF LStat
<1> DEFINE S == {i \in 0 .. Len(q) : g[i].at \in R \cup {None}}
<1>7. Len(p) \in S
  BY <1>1, <1>2, <1>3, <1>5, <1>6
<1> HIDE DEF R
<1>8. ASSUME NEW n \in Len(p) + 1 .. Len(q), n - 1 \in S PROVE n \in S
  <2> DEFINE w == g[n - 1]
             d == Follow(t, w).at
  <2>1. /\ n \in 1 .. Len(q) /\ n \in 0 .. Len(q) /\ n - 1 \in 0 .. Len(q)
        /\ q[n] \notin Dots
    BY <1>2
  <2>2. w \in Place /\ g[n] = Component(t, w, q[n])
    BY <1>4, <2>1 DEF IsWalk
  <2>3. w.at \in R \cup {None}
    BY <1>8
  <2>4. d \in R \cup {None}
    <3>1. \/ Follow(t, w) = w
          \/ d = None
          \/ /\ w.at # None /\ t[w.at].kind = "link"
             /\ d = Entry(t, Root, t[w.at].to)
      BY <2>2, FollowType
    <3>2. ASSUME w.at # None, t[w.at].kind = "link", d = Entry(t, Root, t[w.at].to), d # None
          PROVE  d \in R
      <4>1. w.at \in {m \in R : t[m].kind = "link"}
        BY <2>3, <3>2
      <4>2. d \in Targets(t, R)
        BY <3>2, <4>1 DEF Targets
      <4>. QED
        BY <1>1, <4>2 DEF Grown
    <3>. QED
      BY <2>3, <3>1, <3>2
  <2>5. g[n].at = Step(t, d, q[n])
    BY <2>2, ComponentFacts
  <2> HIDE DEF d
  <2>6. ASSUME Entry(t, d, q[n]) # None, d \in R PROVE Entry(t, d, q[n]) \in R
    <3>1. Entry(t, d, q[n]) \in Children(t, d)
      BY <2>6, TreeEntry
    <3>2. Entry(t, d, q[n]) \in Grown(t, R)
      BY <2>6, <3>1 DEF Grown
    <3>. QED
      BY <1>1, <3>2
  <2>7. IsDir(t, d) => d # None
    BY DEF IsDir
  <2>8. Step(t, d, q[n]) \in R \cup {None}
    BY <2>1, <2>4, <2>6, <2>7 DEF Step, Dots
  <2>. QED
    BY <2>1, <2>5, <2>8
<1> HIDE DEF S
<1>9. Len(p) \in Nat /\ Len(q) \in Nat /\ Len(q) \in Len(p) .. Len(q)
  BY <1>2
<1>10. Len(p) .. Len(q) \subseteq S
  BY <1>7, <1>8, <1>9, UpTo
<1>. QED
  BY <1>4, <1>6, <1>9, <1>10 DEF S, R

LEMMA BelowFacts ==
    ASSUME NEW p \in PathType
    PROVE  /\ Below(p, p)
           /\ \A q \in PathType, x \in PathComponents :
                 Below(q, p) /\ x \notin Dots => Below(Append(q, x), p)
<1>1. Below(p, p)
  BY DEF Below, PathType
<1>2. ASSUME NEW q \in PathType, NEW x \in PathComponents, Below(q, p), x \notin Dots
      PROVE  Below(Append(q, x), p)
  <2> DEFINE a == Append(q, x)
  <2>1. /\ Len(a) = Len(q) + 1
        /\ \A i \in 1 .. Len(q) : a[i] = q[i]
        /\ a[Len(q) + 1] = x
    BY AppendFacts DEF PathType
  <2>2. Len(p) \in Nat /\ Len(q) \in Nat /\ Len(p) <= Len(q)
    BY <1>2 DEF Below, PathType
  <2> HIDE DEF a
  <2>3. \A i \in 1 .. Len(p) : a[i] = p[i]
    <3>1. TAKE i \in 1 .. Len(p)
    <3>2. i \in 1 .. Len(q)
      BY <2>2
    <3>. QED
      BY <1>2, <2>1, <3>2 DEF Below
  <2>4. \A i \in Len(p) + 1 .. Len(a) : a[i] \notin Dots
    <3>1. TAKE i \in Len(p) + 1 .. Len(a)
    <3>2. CASE i = Len(q) + 1
      BY <1>2, <2>1, <3>2
    <3>3. CASE i # Len(q) + 1
      <4>1. i \in 1 .. Len(q) /\ i \in Len(p) + 1 .. Len(q)
        BY <2>1, <2>2, <3>3
      <4>. QED
        BY <1>2, <2>1, <4>1 DEF Below
    <3>. QED
      BY <3>2, <3>3
  <2>5. Len(p) <= Len(a)
    BY <2>1, <2>2
  <2>. QED
    BY <2>3, <2>4, <2>5 DEF Below, a
<1>. QED
  BY <1>1, <1>2

-----------------------------------------------------------------------------
(* Changing the tree: the types, and that it stays one.                    *)

LEMMA WithoutFacts ==
    ASSUME NEW t \in [Nodes -> Node], NEW n \in Nodes
    PROVE  /\ Without(t, n) \in [Nodes -> Node]
           /\ Without(t, n)[n].kind = "gone"
           /\ Without(t, n)[n].up = t[n].up
           /\ \A m \in Nodes : m # n => Without(t, n)[m] = t[m]
           /\ Live(Without(t, n)) = Live(t) \ {n}
<1>1. t[n] \in Node
  OBVIOUS
<1>2. [t[n] EXCEPT !.kind = "gone"] \in Node
  BY <1>1 DEF Node
<1>3. Without(t, n) = [t EXCEPT ![n] = [t[n] EXCEPT !.kind = "gone"]]
  BY DEF Without
<1>4. Without(t, n) \in [Nodes -> Node]
  BY <1>2, <1>3
<1>5. Without(t, n)[n] = [t[n] EXCEPT !.kind = "gone"]
  BY <1>3
<1>6. Without(t, n)[n].kind = "gone" /\ Without(t, n)[n].up = t[n].up
  BY <1>1, <1>5 DEF Node
<1>7. \A m \in Nodes : m # n => Without(t, n)[m] = t[m]
  BY <1>3
<1> HIDE DEF Live
<1>8. \A m \in Nodes : m \in Live(Without(t, n)) <=> m \in Live(t) /\ m # n
  BY <1>6, <1>7, LiveFacts
<1>9. \A m : m \in Live(Without(t, n)) \/ m \in Live(t) => m \in Nodes
  BY LiveFacts
<1>. QED
  BY <1>4, <1>6, <1>7, <1>8, <1>9

\* A node that is no directory, or an empty one, may go.
LEMMA WithoutWellFormed ==
    ASSUME NEW t \in [Nodes -> Node], NEW n \in Nodes, WellFormed(t),
           n # Root, Children(t, n) = {} \/ ~IsDir(t, n)
    PROVE  WellFormed(Without(t, n))
<1> DEFINE u == Without(t, n)
<1>1. /\ u \in [Nodes -> Node] /\ \A m \in Nodes : m # n => u[m] = t[m]
      /\ Live(u) = Live(t) \ {n}
  BY WithoutFacts
<1>2. Root \in Nodes /\ None \notin Nodes
  BY NodeFacts
<1> HIDE DEF u
<1>3. u[Root].kind = "dir" /\ u[Root].up = Root
  BY <1>1, <1>2 DEF WellFormed
<1>4. ASSUME NEW m \in Live(u) PROVE IsDir(u, u[m].up)
  <2>1. m \in Live(t) /\ m # n /\ m \in Nodes /\ u[m] = t[m] /\ t[m].up \in Nodes
    BY <1>1, LiveFacts, NodeFacts
  <2>2. IsDir(t, t[m].up)
    BY <2>1 DEF WellFormed
  <2>3. t[m].up # n
    <3>1. CASE m = Root
      BY <3>1 DEF WellFormed
    <3>2. CASE m # Root
      <4>1. m \in Children(t, t[m].up)
        BY <2>1, <3>2, LiveFacts
      <4>. QED
        BY <2>2, <4>1
    <3>. QED
      BY <3>1, <3>2
  <2>4. u[t[m].up] = t[t[m].up]
    BY <1>1, <2>1, <2>3
  <2>. QED
    BY <2>1, <2>2, <2>4 DEF IsDir
<1>5. Named(u)
  <2>1. ASSUME NEW m \in Live(u) \ {Root}
        PROVE  /\ u[m].name \in Names
               /\ \A o \in Children(u, u[m].up) : u[o].name = u[m].name => o = m
    <3>1. m \in Live(t) \ {Root} /\ u[m] = t[m]
      BY <1>1, <2>1, LiveFacts
    <3>2. \A o \in Children(u, u[m].up) : o \in Children(t, t[m].up) /\ u[o] = t[o]
      BY <1>1, <3>1, LiveFacts
    <3>. QED
      BY <3>1, <3>2 DEF WellFormed, Named
  <2>. QED
    BY <2>1 DEF Named
<1>. QED
  BY <1>3, <1>4, <1>5 DEF WellFormed, u

LEMMA LiveDir ==
    ASSUME NEW t, NEW n \in Nodes \cup {None}, IsDir(t, n)
    PROVE  n \in Live(t)
  BY LiveFacts DEF IsDir

LEMMA UnlinkFacts ==
    ASSUME NEW t \in [Nodes -> Node], NEW p \in PathType, WellFormed(t)
    PROVE  /\ Unlink(t, p) \in [Nodes -> Node] /\ WellFormed(Unlink(t, p))
           /\ Live(t) \ Live(Unlink(t, p)) \subseteq {LStat(t, p)} \ {None}
<1> DEFINE n == LStat(t, p)
<1>1. n \in Nodes \cup {None}
  BY StatType
<1>2. Root \in Nodes /\ IsDir(t, Root)
  BY NodeFacts DEF WellFormed, IsDir
<1>3. CASE n # None /\ ~IsDir(t, n)
  <2>1. Unlink(t, p) = Without(t, n)
    BY <1>3 DEF Unlink
  <2> HIDE DEF n
  <2>2. n \in Nodes /\ n # Root
    BY <1>1, <1>2, <1>3
  <2>3. WellFormed(Without(t, n))
    BY <1>3, <2>2, WithoutWellFormed
  <2>. QED
    BY <1>3, <2>1, <2>2, <2>3, WithoutFacts DEF n
<1>4. CASE ~(n # None /\ ~IsDir(t, n))
  BY <1>4 DEF Unlink
<1>. QED
  BY <1>3, <1>4

LEMMA RmdirFacts ==
    ASSUME NEW t \in [Nodes -> Node], NEW p \in PathType, WellFormed(t), p # <<>>
    PROVE  /\ Rmdir(t, p) \in [Nodes -> Node] /\ WellFormed(Rmdir(t, p))
           /\ \/ Rmdir(t, p) = t
              \/ \E n \in Nodes : /\ n = LStat(t, p) /\ IsDir(t, n)
                                 /\ Live(Rmdir(t, p)) = Live(t) \ {n}
<1> DEFINE q == Trimmed(p)
           n == LStat(t, q)
           may == IsDir(t, n) /\ n # Root /\ Children(t, n) = {} /\ Last(q) \notin Dots
<1>1. q \in PathType
  BY TrimmedFacts
<1>2. n \in Nodes \cup {None}
  BY <1>1, StatType
<1>3. Rmdir(t, p) = IF may THEN Without(t, n) ELSE t
  BY DEF Rmdir
<1>4. CASE may
  <2>1. n \in Nodes /\ n # Root /\ Children(t, n) = {} /\ IsDir(t, n)
    BY <1>2, <1>4 DEF IsDir
  <2>0. n = LStat(t, p)
    BY <2>1, TrimmedStat
  <2> HIDE DEF n
  <2>2. WellFormed(Without(t, n)) /\ Without(t, n) \in [Nodes -> Node]
        /\ Live(Without(t, n)) = Live(t) \ {n}
    BY <2>1, WithoutWellFormed, WithoutFacts
  <2>3. Rmdir(t, p) = Without(t, n)
    BY <1>3, <1>4
  <2> HIDE DEF may
  <2>. QED
    BY <2>0, <2>1, <2>2, <2>3
<1>5. CASE ~may
  <2> HIDE DEF may
  <2>. QED
    BY <1>3, <1>5
<1>. QED
  BY <1>4, <1>5

LEMMA ParentType ==
    ASSUME NEW t \in [Nodes -> Node], NEW p \in PathType, p # <<>>
    PROVE  /\ Parent(t, p) \in Nodes \cup {None} /\ Last(p) \in PathComponents
           /\ LStat(t, p) = Step(t, Parent(t, p), Last(p))
<1>1. Front(p) \in PathType /\ Last(p) \in PathComponents
  BY FrontFacts DEF PathType
<1>2. Walk(t, Front(p)) \in Place /\ Follow(t, Walk(t, Front(p))) \in Place
  BY <1>1, WalkType, FollowType
<1>3. Walk(t, p) = Component(t, Walk(t, Front(p)), Last(p))
  BY WalkStep
<1>4. Component(t, Walk(t, Front(p)), Last(p)).at = Step(t, Parent(t, p), Last(p))
  BY <1>2, ComponentFacts DEF Parent
<1>5. Parent(t, p) \in Nodes \cup {None}
  BY <1>2 DEF Parent, Place
<1>. QED
  BY <1>1, <1>3, <1>4, <1>5 DEF LStat

LEMMA MkdirFacts ==
    ASSUME NEW t \in [Nodes -> Node], NEW p \in PathType, WellFormed(t), p # <<>>
    PROVE  /\ Mkdir(t, p) \in [Nodes -> Node] /\ WellFormed(Mkdir(t, p))
           /\ Live(t) \subseteq Live(Mkdir(t, p))
<1> DEFINE d == Parent(t, Trimmed(p))
           x == Last(Trimmed(p))
           unused == {n \in Nodes : t[n].kind = "unused"}
           may == IsDir(t, d) /\ x \in Names /\ Entry(t, d, x) = None /\ unused # {}
           m == CHOOSE n \in unused : TRUE
           new == [kind |-> "dir", up |-> d, name |-> x, to |-> ""]
           u == [t EXCEPT ![m] = new]
<1>1. Mkdir(t, p) = IF may THEN u ELSE t
  BY DEF Mkdir
<1>2. d \in Nodes \cup {None}
  BY TrimmedFacts, ParentType
<1>3. CASE may
  <2>1. m \in unused
    BY <1>3
  <2>2. m \in Nodes /\ t[m].kind = "unused"
    BY <2>1
  <2>3. d \in Nodes /\ t[d].kind = "dir" /\ x \in Names
    BY <1>2, <1>3 DEF IsDir
  <2>0. \A n \in Children(t, d) : t[n].name # x
    BY <1>3, TreeEntry
  <2> HIDE DEF m, d, x
  <2>4. new \in Node
    BY <2>3 DEF Node
  <2>5. u \in [Nodes -> Node] /\ u[m].kind = "dir" /\ u[m].up = d /\ u[m].name = x
        /\ \A n \in Nodes : n # m => u[n] = t[n]
    BY <2>2, <2>4
  <2> HIDE DEF u
  <2>6. \A n \in Nodes : t[n].kind = "dir" => n # m /\ u[n] = t[n]
    BY <2>2, <2>5
  <2>7. \A n \in Live(t) : n # m /\ n \in Live(u)
    BY <2>2, <2>5, LiveFacts
  <2>8. u[Root].kind = "dir" /\ u[Root].up = Root
    BY <2>6, NodeFacts DEF WellFormed
  <2>9. ASSUME NEW n \in Live(u) PROVE IsDir(u, u[n].up)
    <3>1. CASE n = m
      BY <2>3, <2>5, <2>6, <3>1, NodeFacts DEF IsDir
    <3>2. CASE n # m
      <4>1. n \in Live(t) /\ u[n] = t[n]
        BY <2>5, <3>2, LiveFacts
      <4>2. t[n].up \in Nodes
        BY <4>1, LiveFacts, NodeFacts
      <4>3. IsDir(t, t[n].up)
        BY <4>1 DEF WellFormed
      <4>. QED
        BY <2>6, <4>1, <4>2, <4>3 DEF IsDir
    <3>. QED
      BY <3>1, <3>2
  <2>12. Named(u)
    <3>1. \A n \in Live(u) : n # m => n \in Live(t) /\ u[n] = t[n]
      BY <2>5, LiveFacts
    <3>2. ASSUME NEW n \in Live(u) \ {Root}
          PROVE  /\ u[n].name \in Names
                 /\ \A o \in Children(u, u[n].up) : u[o].name = u[n].name => o = n
      <4>1. CASE n = m
        <5>1. \A o \in Children(u, d) : o # m => o \in Children(t, d) /\ u[o] = t[o]
          BY <3>1, LiveFacts
        <5>. QED
          BY <2>0, <2>3, <2>5, <4>1, <5>1
      <4>2. CASE n # m
        <5>1. n \in Live(t) \ {Root} /\ u[n] = t[n]
          BY <3>1, <3>2, <4>2
        <5>2. /\ t[n].name \in Names
              /\ \A o \in Children(t, t[n].up) : t[o].name = t[n].name => o = n
          BY <5>1 DEF WellFormed, Named
        <5>3. ASSUME NEW o \in Children(u, u[n].up), u[o].name = u[n].name PROVE o = n
          <6>1. CASE o = m
            <7>1. t[n].up = d /\ t[n].name = x
              BY <2>5, <5>1, <5>3, <6>1, LiveFacts
            <7>. QED
              BY <2>0, <5>1, <7>1, LiveFacts
          <6>2. CASE o # m
            <7>1. o \in Children(t, t[n].up) /\ u[o] = t[o]
              BY <3>1, <5>1, <5>3, <6>2, LiveFacts
            <7>. QED
              BY <5>1, <5>2, <5>3, <7>1
          <6>. QED
            BY <6>1, <6>2
        <5>. QED
          BY <5>1, <5>2, <5>3
      <4>. QED
        BY <4>1, <4>2
    <3>. QED
      BY <3>2 DEF Named
  <2>10. WellFormed(u)
    BY <2>8, <2>9, <2>12 DEF WellFormed
  <2>11. Mkdir(t, p) = u
    BY <1>1, <1>3
  <2>. QED
    BY <2>5, <2>7, <2>10, <2>11
<1>4. CASE ~may
  <2> HIDE DEF may
  <2>. QED
    BY <1>1, <1>4
<1>. QED
  BY <1>3, <1>4

LEMMA InsideItself ==
    ASSUME NEW t \in [Nodes -> Node], NEW d \in Nodes
    PROVE  Inside(t, d, d)
<1> DEFINE N == Cardinality(Nodes)
           G == [x \in Nodes \X (1 .. N) |-> t[x[1]].up]
           Def(f) == f = [k \in 0 .. N |-> IF k = 0 THEN d ELSE t[f[k - 1]].up]
           up == CHOOSE f : Def(f)
<1>1. N \in Nat
  BY NodeFacts, FS_CardinalityType
<1>2. G \in [Nodes \X (1 .. N) -> Nodes]
  BY NodeFacts
<1>3. PICK f : Recursion(f, N, Nodes, d, G)
  <2> HIDE DEF N, G
  <2>. QED
    BY <1>1, <1>2, RecursionExists, Zenon
<1>4. f \in [0 .. N -> Nodes] /\ f[0] = d
  BY <1>3 DEF Recursion
<1>5. \A i \in 1 .. N : f[i] = t[f[i - 1]].up
  <2>1. TAKE i \in 1 .. N
  <2>2. i - 1 \in 0 .. N
    BY <1>1
  <2>3. f[i - 1] \in Nodes
    BY <1>4, <2>2
  <2>4. <<f[i - 1], i>> \in Nodes \X (1 .. N)
    BY <2>3
  <2>5. G[<<f[i - 1], i>>] = t[f[i - 1]].up
    BY <2>4
  <2> HIDE DEF G
  <2>. QED
    BY <1>3, <2>5 DEF Recursion
<1>6. Def(f)
  <2>1. \A i \in 0 .. N : i # 0 => i \in 1 .. N
    BY <1>1
  <2>2. \A i \in 0 .. N : f[i] = IF i = 0 THEN d ELSE t[f[i - 1]].up
    BY <1>4, <1>5, <2>1
  <2> HIDE DEF N
  <2>. QED
    BY <1>4, <2>2
<1>7. Def(up)
  BY <1>6
<1>8. Inside(t, d, d) <=> \E k \in DOMAIN up : up[k] = d
  BY DEF Inside
<1> HIDE DEF up
<1>9. 0 \in DOMAIN up /\ up[0] = d
  BY <1>1, <1>7
<1>. QED
  BY <1>8, <1>9

\* A node in another directory, where no other has its name.
Carried(t, n, d, x) == [t EXCEPT ![n].up = d, ![n].name = x]

LEMMA CarriedFacts ==
    ASSUME NEW t \in [Nodes -> Node], NEW n \in Nodes, NEW d \in Nodes, NEW x \in Names
    PROVE  /\ Carried(t, n, d, x) \in [Nodes -> Node]
           /\ Carried(t, n, d, x)[n].up = d /\ Carried(t, n, d, x)[n].name = x
           /\ \A m \in Nodes : m # n => Carried(t, n, d, x)[m] = t[m]
           /\ \A m \in Nodes : Carried(t, n, d, x)[m].kind = t[m].kind
           /\ Live(Carried(t, n, d, x)) = Live(t)
<1> DEFINE u == Carried(t, n, d, x)
<1>1. t[n] \in Node
  OBVIOUS
<1>2. u = [t EXCEPT ![n] = [t[n] EXCEPT !.up = d, !.name = x]]
  BY Zenon DEF Carried
<1>3. [t[n] EXCEPT !.up = d, !.name = x] \in Node
  BY <1>1 DEF Node
<1>4. u \in [Nodes -> Node]
  BY <1>2, <1>3
<1>5. u[n] = [t[n] EXCEPT !.up = d, !.name = x]
  BY <1>2
<1>6. u[n].up = d /\ u[n].name = x /\ u[n].kind = t[n].kind
  BY <1>1, <1>5 DEF Node
<1>7. \A m \in Nodes : m # n => u[m] = t[m]
  BY <1>2
<1> HIDE DEF u
<1>8. \A m \in Nodes : u[m].kind = t[m].kind
  BY <1>6, <1>7
<1>9. Live(u) = Live(t)
  BY <1>8 DEF Live
<1>. QED
  BY <1>4, <1>6, <1>7, <1>8, <1>9 DEF u

LEMMA CarriedWellFormed ==
    ASSUME NEW t \in [Nodes -> Node], NEW n \in Nodes, NEW d \in Nodes, NEW x \in Names,
           WellFormed(t), n # Root, IsDir(t, d),
           \A m \in Children(t, d) : m # n => t[m].name # x
    PROVE  WellFormed(Carried(t, n, d, x))
<1> DEFINE u == Carried(t, n, d, x)
<1>1. /\ u \in [Nodes -> Node] /\ u[n].up = d /\ u[n].name = x
      /\ \A m \in Nodes : m # n => u[m] = t[m]
      /\ \A m \in Nodes : u[m].kind = t[m].kind
      /\ Live(u) = Live(t)
  BY CarriedFacts
<1>2. None \notin Nodes /\ Root \in Nodes
  BY NodeFacts
<1> HIDE DEF u
<1>3. \A m \in Nodes : IsDir(u, m) <=> IsDir(t, m)
  BY <1>1 DEF IsDir
<1>4. u[Root].kind = "dir" /\ u[Root].up = Root
  BY <1>1, <1>2 DEF WellFormed
<1>5. ASSUME NEW m \in Live(u) PROVE IsDir(u, u[m].up)
  <2>1. CASE m = n
    BY <1>1, <1>3, <2>1
  <2>2. CASE m # n
    <3>1. m \in Live(t) /\ u[m] = t[m] /\ t[m].up \in Nodes
      BY <1>1, <2>2, LiveFacts, NodeFacts
    <3>. QED
      BY <1>3, <3>1 DEF WellFormed
  <2>. QED
    BY <2>1, <2>2
<1>6. Named(u)
  <2>1. \A m \in Live(u) : m # n => m \in Live(t) /\ u[m] = t[m]
    BY <1>1, LiveFacts
  <2>2. ASSUME NEW m \in Live(u) \ {Root}
        PROVE  /\ u[m].name \in Names
               /\ \A o \in Children(u, u[m].up) : u[o].name = u[m].name => o = m
    <3>1. CASE m = n
      <4>1. \A o \in Children(u, d) : o # n => o \in Children(t, d) /\ u[o] = t[o]
        BY <2>1, LiveFacts
      <4>. QED
        BY <1>1, <3>1, <4>1
    <3>2. CASE m # n
      <4>1. m \in Live(t) \ {Root} /\ u[m] = t[m]
        BY <2>1, <2>2, <3>2
      <4>2. /\ t[m].name \in Names
            /\ \A o \in Children(t, t[m].up) : t[o].name = t[m].name => o = m
        BY <4>1 DEF WellFormed, Named
      <4>3. ASSUME NEW o \in Children(u, u[m].up), u[o].name = u[m].name PROVE o = m
        <5>1. CASE o = n
          <6>1. t[m].up = d /\ t[m].name = x
            BY <1>1, <4>1, <4>3, <5>1, LiveFacts
          <6>2. m \in Children(t, d)
            BY <4>1, <6>1, LiveFacts
          <6>. QED
            BY <3>2, <6>1, <6>2
        <5>2. CASE o # n
          <6>1. o \in Children(t, t[m].up) /\ u[o] = t[o]
            BY <2>1, <4>1, <4>3, <5>2, LiveFacts
          <6>. QED
            BY <4>1, <4>2, <4>3, <6>1
        <5>. QED
          BY <5>1, <5>2
      <4>. QED
        BY <4>1, <4>2, <4>3
    <3>. QED
      BY <3>1, <3>2
  <2>. QED
    BY <2>2 DEF Named
<1>. QED
  BY <1>4, <1>5, <1>6 DEF WellFormed, u

\* A rename moves a node, and takes at most what was in its new place.
LEMMA RenameFacts ==
    ASSUME NEW t \in [Nodes -> Node], NEW n \in Nodes, NEW d \in Nodes \cup {None},
           NEW x, WellFormed(t)
    PROVE  /\ Rename(t, n, d, x) \in [Nodes -> Node] /\ WellFormed(Rename(t, n, d, x))
           /\ \A m \in Live(t) \ Live(Rename(t, n, d, x)) :
                 /\ m = Entry(t, d, x) /\ IsDir(t, d) /\ x \in Names
                 /\ IsDir(t, m) = IsDir(t, n)
<1> DEFINE old == Entry(t, d, x)
           moved == Carried(t, n, d, x)
           cannot == ~IsDir(t, d) \/ x \notin Names \/ n = Root \/ Inside(t, d, n)
           differ == IsDir(t, old) # IsDir(t, n) \/ Children(t, old) # {}
<1>1. Rename(t, n, d, x) = IF cannot THEN t ELSE IF old \in {None, n} THEN moved
                           ELSE IF differ THEN t ELSE Without(moved, old)
  BY DEF Rename, Carried
<1>2. CASE cannot
  <2> HIDE DEF cannot
  <2>. QED
    BY <1>1, <1>2
<1>3. CASE ~cannot
  <2>1. IsDir(t, d) /\ x \in Names /\ n # Root /\ d \in Nodes /\ d # None
    BY <1>3 DEF IsDir
  <2> HIDE DEF cannot
  <2>2. \A m \in Children(t, d) : t[m].name = x => m = old /\ old # None
    <3>1. TAKE m \in Children(t, d)
    <3>2. HAVE t[m].name = x
    <3>3. old # None
      BY <3>2, TreeEntry
    <3>4. old \in Children(t, d) /\ t[old].name = x
      BY <3>3, TreeEntry
    <3>5. m \in Live(t) \ {Root} /\ t[m].up = d
      BY LiveFacts
    <3>. QED
      BY <3>2, <3>3, <3>4, <3>5 DEF WellFormed, Named
  <2>3. CASE old \in {None, n}
    <3>1. Rename(t, n, d, x) = moved
      BY <1>1, <1>3, <2>3
    <3>2. moved \in [Nodes -> Node] /\ Live(moved) = Live(t)
      BY <2>1, CarriedFacts
    <3>3. \A m \in Children(t, d) : m # n => t[m].name # x
      BY <2>2, <2>3
    <3> HIDE DEF old
    <3>4. WellFormed(moved)
      BY <2>1, <3>3, CarriedWellFormed
    <3>. QED
      BY <3>1, <3>2, <3>4
  <2>4. CASE old \notin {None, n} /\ differ
    <3> HIDE DEF differ, old
    <3>. QED
      BY <1>1, <1>3, <2>4
  <2>5. CASE old \notin {None, n} /\ ~differ
    <3> DEFINE without == Without(t, old)
    <3>1. Rename(t, n, d, x) = Without(moved, old)
      BY <1>1, <1>3, <2>5
    <3>2. /\ old \in Children(t, d) /\ old \in Nodes /\ old # Root /\ t[old].name = x
          /\ Children(t, old) = {} /\ old # n /\ IsDir(t, old) = IsDir(t, n)
      BY <2>5, TreeEntry, LiveFacts
    <3>3. d # old
      BY <3>2
    <3> HIDE DEF old, differ
    <3>4. /\ without \in [Nodes -> Node] /\ WellFormed(without)
          /\ Live(without) = Live(t) \ {old} /\ \A m \in Nodes : m # old => without[m] = t[m]
      BY <3>2, WithoutWellFormed, WithoutFacts
    <3>5. IsDir(without, d)
      BY <2>1, <3>3, <3>4 DEF IsDir
    <3>6. \A m \in Children(without, d) : m # n => without[m].name # x
      <4>1. TAKE m \in Children(without, d)
      <4>2. m \in Live(without) /\ m # Root /\ without[m].up = d
        BY LiveFacts
      <4>3. m \in Live(t) /\ m # old /\ m \in Nodes
        BY <3>4, <4>2, LiveFacts
      <4>4. m \in Children(t, d) /\ without[m] = t[m]
        BY <3>4, <4>2, <4>3, LiveFacts
      <4>. QED
        BY <2>2, <4>3, <4>4
    <3>7. Without(moved, old) = Carried(without, n, d, x)
      <4>1. /\ moved \in [Nodes -> Node]
            /\ \A m \in Nodes : m # n => moved[m] = t[m]
        BY <2>1, CarriedFacts
      <4>2. [moved EXCEPT ![old] = [moved[old] EXCEPT !.kind = "gone"]]
                = [without EXCEPT ![n] = [without[n] EXCEPT !.up = d, !.name = x]]
        <5>1. without = [t EXCEPT ![old] = [t[old] EXCEPT !.kind = "gone"]]
          BY DEF Without
        <5>2. moved = [t EXCEPT ![n] = [t[n] EXCEPT !.up = d, !.name = x]]
          BY Zenon DEF Carried
        <5>3. moved[old] = t[old] /\ without[n] = t[n]
          BY <3>2, <3>4, <4>1
        <5>4. ASSUME NEW a, NEW b
              PROVE  [[t EXCEPT ![n] = a] EXCEPT ![old] = b]
                         = [[t EXCEPT ![old] = b] EXCEPT ![n] = a]
          BY <3>2
        <5> HIDE DEF moved, without
        <5>. QED
          BY <5>1, <5>2, <5>3, <5>4, Zenon
      <4>3. Without(moved, old) = [moved EXCEPT ![old] = [moved[old] EXCEPT !.kind = "gone"]]
        BY DEF Without
      <4>4. Carried(without, n, d, x)
                = [without EXCEPT ![n] = [without[n] EXCEPT !.up = d, !.name = x]]
        BY Zenon DEF Carried
      <4>. QED
        BY <4>2, <4>3, <4>4
    <3>8. WellFormed(Carried(without, n, d, x))
      BY <2>1, <3>4, <3>5, <3>6, CarriedWellFormed
    <3>9. /\ Carried(without, n, d, x) \in [Nodes -> Node]
          /\ Live(Carried(without, n, d, x)) = Live(t) \ {old}
      BY <2>1, <3>4, CarriedFacts
    <3>. QED
      BY <2>1, <3>1, <3>2, <3>7, <3>8, <3>9 DEF old
  <2>. QED
    BY <2>3, <2>4, <2>5
<1>. QED
  BY <1>2, <1>3

-----------------------------------------------------------------------------
(* The invariant, step by step.                                            *)

LEMMA TypeFacts ==
    ASSUME IInv, NEW s \in Sessions
    PROVE  /\ fs \in [Nodes -> Node] /\ WellFormed(fs)
           /\ pc[s] \in Calls \cup {"idle"}
           /\ job[s] \in Job /\ Cmd(s) \in Commands \cup {"none"}
           /\ Path(s) \in PathType /\ job[s].at \in PathType
           /\ job[s].stack \in Seq(Frame) /\ Len(job[s].stack) \in Nat
           /\ cwd[s] \in PathType /\ rename_path[s] \in PathType
           /\ handles[s] \in Nat /\ disturbed[s] \in Nat /\ left[s] \in Nat
           /\ alone[s] \in BOOLEAN
           /\ Stage(pc[s], job[s])
           /\ Handled(job[s], handles[s], disturbed[s])
           /\ Removing(pc[s], job[s])
           /\ alone[s] => Listed(fs, pc[s], job[s]) /\ Renamed(fs, pc[s], job[s])
           /\ Cmd(s) \in {"DELE", "RMD"} => Reach(fs, Path(s)) \subseteq reach[s]
<1>1. TypeOK /\ WellFormed(fs) /\ SessionInv(s)
  BY DEF IInv
<1>2. job[s] \in Job
  BY <1>1 DEF TypeOK
<1>3. /\ Cmd(s) \in Commands \cup {"none"}
      /\ Path(s) \in PathType /\ job[s].at \in PathType
      /\ job[s].stack \in Seq(Frame)
  BY <1>2 DEF Job, Cmd, Path, PathType
<1>4. Len(job[s].stack) \in Nat
  BY <1>3, LenProperties
<1>5. /\ fs \in [Nodes -> Node]
      /\ pc[s] \in Calls \cup {"idle"}
      /\ cwd[s] \in PathType /\ rename_path[s] \in PathType
      /\ handles[s] \in Nat /\ disturbed[s] \in Nat /\ left[s] \in Nat
      /\ alone[s] \in BOOLEAN
  BY <1>1 DEF TypeOK, PathType
<1>. QED
  BY <1>1, <1>2, <1>3, <1>4, <1>5 DEF SessionInv

\* The handlers of s that the others disturbed, once s is at p.
Counted(s, refusal, p, o) ==
    o = IF p = "idle" /\ (~alone[s] \/ refusal) THEN disturbed[s] + 1 ELSE disturbed[s]

\* What a handler that nobody disturbed has seen still holds, if it goes on.
Kept(s, refusal, p, j) ==
    p # "idle" /\ alone[s] /\ ~refusal => Listed(fs', p, j) /\ Renamed(fs', p, j)

\* s is at p with job j, has h directories open, and o of its handlers were disturbed.
StepTo(s, refusal, p, j, h, o) ==
    /\ fs' \in [Nodes -> Node] /\ WellFormed(fs')
    /\ cwd' \in [Sessions -> PathType] /\ rename_path' \in [Sessions -> PathType]
    /\ reply' \in [Sessions -> {"none", "250", "257", "350", "550", "550 350",
                                "451", "queued"}]
    /\ left' \in [Sessions -> Nat]
    /\ pc' = [pc EXCEPT ![s] = p]
    /\ job' = [job EXCEPT ![s] = j]
    /\ handles' = [handles EXCEPT ![s] = h]
    /\ Stage(p, j) /\ Removing(p, j)
    /\ Handled(j, h, o) /\ Counted(s, refusal, p, o) /\ Kept(s, refusal, p, j)

\* What a step of session s leaves to be shown: that the tree is still one,
\* and the invariant of s.  If the tree changed, the others are not alone.
LEMMA StepPreserves ==
    ASSUME IInv, NEW s \in Sessions, NEW refusal \in BOOLEAN, History(s, refusal),
           NEW p \in Calls \cup {"idle"}, NEW j \in Job, NEW h \in Nat, NEW o \in Nat,
           StepTo(s, refusal, p, j, h, o)
    PROVE  IInv'
<1> USE DEF StepTo
<1>1. TypeOK /\ \A q \in Sessions : SessionInv(q)
  BY DEF IInv
<1>2. /\ pc' \in [Sessions -> Calls \cup {"idle"}]
      /\ job' \in [Sessions -> Job]
      /\ handles' \in [Sessions -> Nat]
      /\ pc'[s] = p /\ job'[s] = j /\ handles'[s] = h
      /\ \A q \in Sessions : q # s =>
            pc'[q] = pc[q] /\ job'[q] = job[q] /\ handles'[q] = handles[q]
  BY <1>1 DEF TypeOK
<1>3. /\ alone' = [t \in Sessions |->
             pc'[t] = "idle" \/ (alone[t] /\ IF t = s THEN ~refusal ELSE fs' = fs)]
      /\ reach' = [t \in Sessions |->
             IF job'[t].cmd \in {"DELE", "RMD"}
             THEN reach[t] \cup Reach(fs', job'[t].path) ELSE {}]
      /\ disturbed' = [disturbed EXCEPT ![s] = o]
  BY <1>2 DEF History, Counted
<1>4. alone' \in [Sessions -> BOOLEAN]
  BY <1>1, <1>3 DEF TypeOK
<1>5. reach' \in [Sessions -> SUBSET Nodes]
  <2>1. ASSUME NEW t \in Sessions, job'[t].cmd \in {"DELE", "RMD"}
        PROVE  reach[t] \cup Reach(fs', job'[t].path) \in SUBSET Nodes
    <3>1. job'[t] \in Job
      BY <1>2
    <3>2. job'[t].path \in PathType
      BY <3>1 DEF Job, PathType
    <3>3. Reach(fs', job'[t].path) \in SUBSET Nodes
      BY <3>2, ReachFacts
    <3>4. reach[t] \in SUBSET Nodes
      BY <1>1 DEF TypeOK
    <3>. QED
      BY <3>3, <3>4
  <2>. QED
    BY <1>3, <2>1
<1>6. /\ disturbed' \in [Sessions -> Nat] /\ disturbed'[s] = o
      /\ \A q \in Sessions : q # s => disturbed'[q] = disturbed[q]
  <2>1. disturbed \in [Sessions -> Nat]
    BY <1>1 DEF TypeOK
  <2>. QED
    BY <1>3, <2>1
<1>7. \A q \in Sessions : SessionInv(q)'
  <2>1. TAKE q \in Sessions
  <2>2. (Cmd(q) \in {"DELE", "RMD"} => Reach(fs, Path(q)) \subseteq reach[q])'
    <3>1. job'[q].cmd \in {"DELE", "RMD"} => Reach(fs', job'[q].path) \subseteq reach'[q]
      BY <1>3
    <3>. QED
      BY <3>1 DEF Cmd, Path
  <2>3. CASE q = s
    <3>1. alone'[s] => p = "idle" \/ (alone[s] /\ ~refusal)
      BY <1>2, <1>3
    <3>2. p = "idle" => Listed(fs', p, j) /\ Renamed(fs', p, j)
      BY DEF Stage, Listed, Renamed
    <3>3. alone'[s] => Listed(fs', p, j) /\ Renamed(fs', p, j)
      BY <3>1, <3>2 DEF Kept
    <3>4. Stage(pc'[s], job'[s]) /\ Removing(pc'[s], job'[s])
      BY <1>2
    <3>5. Handled(job'[s], handles'[s], disturbed'[s])
      BY <1>2, <1>6
    <3>6. alone'[s] => Listed(fs', pc'[s], job'[s]) /\ Renamed(fs', pc'[s], job'[s])
      BY <1>2, <3>3
    <3>. QED
      BY <2>2, <2>3, <3>4, <3>5, <3>6 DEF SessionInv
  <2>4. CASE q # s
    <3>1. /\ pc'[q] = pc[q] /\ job'[q] = job[q] /\ handles'[q] = handles[q]
          /\ disturbed'[q] = disturbed[q]
      BY <1>2, <1>6, <2>4
    <3>2. SessionInv(q)
      BY <1>1
    <3>3. alone'[q] => pc[q] = "idle" \/ (alone[q] /\ fs' = fs)
      BY <1>3, <2>4, <3>1
    <3>4. pc[q] = "idle" => Listed(fs', pc[q], job[q]) /\ Renamed(fs', pc[q], job[q])
      BY <3>2 DEF SessionInv, Stage, Listed, Renamed
    <3>5. alone'[q] => Listed(fs', pc[q], job[q]) /\ Renamed(fs', pc[q], job[q])
      <4>1. CASE pc[q] = "idle"
        BY <3>4, <4>1
      <4>2. CASE alone[q] /\ fs' = fs
        BY <3>2, <4>2 DEF SessionInv
      <4>. QED
        BY <3>3, <4>1, <4>2
    <3>6. /\ Stage(pc'[q], job'[q]) /\ Removing(pc'[q], job'[q])
          /\ Handled(job'[q], handles'[q], disturbed'[q])
      BY <3>1, <3>2 DEF SessionInv
    <3>7. alone'[q] => Listed(fs', pc'[q], job'[q]) /\ Renamed(fs', pc'[q], job'[q])
      BY <3>1, <3>5
    <3>. QED
      BY <2>2, <3>6, <3>7 DEF SessionInv
  <2>. QED
    BY <2>3, <2>4
<1>8. \A q \in Sessions : job'[q].cmd = "none" <=> pc'[q] = "idle"
  BY <1>7 DEF SessionInv, Stage
<1>9. plain' \in [Sessions -> BOOLEAN]
  BY DEF History, Plain
<1>10. TypeOK'
  BY <1>2, <1>4, <1>5, <1>6, <1>8, <1>9 DEF TypeOK, PathType, Cmd, At
<1>. QED
  BY <1>7, <1>10 DEF IInv

Replies == {"none", "250", "257", "350", "550", "550 350", "451", "queued"}

LEMMA NoJobFacts ==
    /\ NoJob \in Job
    /\ NoJob.cmd = "none" /\ NoJob.stack = <<>> /\ Len(NoJob.stack) = 0
<1>1. <<>> \in Seq(PathComponents) /\ <<>> \in Seq(Frame)
  OBVIOUS
<1>. QED
  BY <1>1 DEF NoJob, NewJob, Job

\* A handler returns: what is left of its handles was counted.
LEMMA EndPreserves ==
    ASSUME IInv, NEW s \in Sessions, NEW refusal \in BOOLEAN, History(s, refusal),
           fs' \in [Nodes -> Node], WellFormed(fs'),
           cwd' \in [Sessions -> PathType], rename_path' \in [Sessions -> PathType],
           UNCHANGED left,
           NEW r \in Replies, End(s, r),
           NEW h \in Nat, handles' = [handles EXCEPT ![s] = h],
           h <= IF alone[s] /\ ~refusal THEN disturbed[s] ELSE disturbed[s] + 1
    PROVE  IInv'
<1>1. /\ TypeOK /\ disturbed[s] \in Nat
      /\ NoJob \in Job /\ NoJob.cmd = "none" /\ NoJob.stack = <<>> /\ Len(NoJob.stack) = 0
  BY TypeFacts, NoJobFacts DEF IInv
<1>2. /\ pc' = [pc EXCEPT ![s] = "idle"] /\ job' = [job EXCEPT ![s] = NoJob]
      /\ reply' = [reply EXCEPT ![s] = r]
  BY DEF End, Goto
<1>3. reply' \in [Sessions -> {"none", "250", "257", "350", "550", "550 350", "451", "queued"}]
  BY <1>1, <1>2 DEF TypeOK, Replies
<1>4. left' \in [Sessions -> Nat]
  BY <1>1 DEF TypeOK
<1>5. Stage("idle", NoJob) /\ Removing("idle", NoJob)
  BY <1>1 DEF Stage, Removing
<1>6. PICK o \in Nat :
         /\ Handled(NoJob, h, o)
         /\ Counted(s, refusal, "idle", o)
  <2>1. CASE alone[s] /\ ~refusal
    <3>1. Handled(NoJob, h, disturbed[s])
      BY <1>1, <2>1 DEF Handled
    <3>. QED
      BY <1>1, <2>1, <3>1 DEF Counted
  <2>2. CASE ~alone[s] \/ refusal
    <3>1. Handled(NoJob, h, disturbed[s] + 1) /\ disturbed[s] + 1 \in Nat
      BY <1>1, <2>2 DEF Handled
    <3>. QED
      BY <1>1, <2>2, <3>1 DEF Counted
  <2>. QED
    BY <2>1, <2>2
<1>7. "idle" \in Calls \cup {"idle"}
  OBVIOUS
<1>8. Kept(s, refusal, "idle", NoJob)
  BY DEF Kept
<1>9. StepTo(s, refusal, "idle", NoJob, h, o)
  BY <1>2, <1>3, <1>4, <1>5, <1>6, <1>8 DEF StepTo
<1>. QED
  BY <1>1, <1>7, <1>9, StepPreserves

\* A step that leaves the tree, the settings and the counts alone.
Aside == UNCHANGED <<fs, cwd, rename_path, left>>

LEMMA AsideFacts ==
    ASSUME IInv, Aside
    PROVE  /\ fs' = fs /\ fs' \in [Nodes -> Node] /\ WellFormed(fs')
           /\ cwd' \in [Sessions -> PathType] /\ rename_path' \in [Sessions -> PathType]
           /\ left' \in [Sessions -> Nat] /\ UNCHANGED left
  BY DEF Aside, IInv, TypeOK, PathType

LEMMA SameHandles ==
    ASSUME IInv, NEW s \in Sessions, UNCHANGED handles
    PROVE  handles' = [handles EXCEPT ![s] = handles[s]]
  BY DEF IInv, TypeOK

LEMMA SameReply ==
    ASSUME IInv, UNCHANGED reply
    PROVE  reply' \in [Sessions -> Replies]
  BY DEF IInv, TypeOK, Replies

\* Only rm has a directory open, and the reading of one for LIST.
LEMMA NoHandles ==
    ASSUME IInv, NEW s \in Sessions, NEW refusal \in BOOLEAN, job[s].stack = <<>>
    PROVE  /\ handles[s] \in Nat /\ handles[s] <= disturbed[s]
           /\ handles[s] <= IF alone[s] /\ ~refusal THEN disturbed[s] ELSE disturbed[s] + 1
           /\ Len(job[s].stack) = 0
<1>1. /\ handles[s] \in Nat /\ disturbed[s] \in Nat
      /\ Handled(job[s], handles[s], disturbed[s])
  BY TypeFacts
<1>2. Len(job[s].stack) = 0
  OBVIOUS
<1>. QED
  BY <1>1, <1>2 DEF Handled

-----------------------------------------------------------------------------
(* A command begins.                                                       *)

LEMMA BeginPreserves ==
    ASSUME IInv, NEW s \in Sessions, NEW cmd \in Commands, NEW arg \in Args[s],
           Begin(s, cmd, arg), NEW refusal \in BOOLEAN, History(s, refusal)
    PROVE  IInv'
<1> DEFINE path == IF cmd = "LIST" THEN ListPath(s, arg) ELSE RealPath(s, arg)
           j == NewJob(cmd, path)
           p == IF cmd = "DELE" THEN "test file" ELSE "test dir"
<1>1. /\ pc[s] = "idle" /\ left[s] > 0 /\ TypeOK /\ left[s] \in Nat
      /\ cwd[s] \in PathType /\ Stage(pc[s], job[s])
  BY TypeFacts DEF Begin, At, IInv
<1>2. /\ left' = [left EXCEPT ![s] = left[s] - 1]
      /\ job' = [job EXCEPT ![s] = j]
      /\ reply' = [reply EXCEPT ![s] = "none"]
      /\ pc' = [pc EXCEPT ![s] = p]
      /\ UNCHANGED <<fs, cwd, rename_path, handles>>
  BY DEF Begin, Goto
<1>3. arg.path \in PathType /\ arg.path # <<>> /\ ProcDir \in PathType
  BY CommandAssumption DEF PathType
<1>4. path \in PathType /\ (cmd # "LIST" => path # <<>>)
  <2>1. /\ cwd[s] \o arg.path \in Seq(PathComponents)
        /\ ProcDir \o arg.path \in Seq(PathComponents)
        /\ cwd[s] \o arg.path # <<>>
    BY <1>1, <1>3, ConcatProperties, ConcatEqualIffEmpty DEF PathType
  <2>2. ListPath(s, arg) \in PathType
    BY <1>1, <1>3, <2>1 DEF ListPath, PathType
  <2>3. RealPath(s, arg) \in PathType /\ RealPath(s, arg) # <<>>
    BY <1>3, <2>1 DEF RealPath, PathType
  <2>. QED
    BY <2>2, <2>3
<1> HIDE DEF path
<1>5. /\ j \in Job /\ j.cmd = cmd /\ j.path = path /\ j.stack = <<>> /\ Len(j.stack) = 0
  <2>1. <<>> \in Seq(PathComponents) /\ <<>> \in Seq(Frame) /\ Len(<<>>) = 0
    OBVIOUS
  <2>2. j = [cmd |-> cmd, path |-> path, at |-> <<>>, stack |-> <<>>]
    BY DEF NewJob
  <2> HIDE DEF j
  <2>. QED
    BY <1>4, <2>1, <2>2 DEF Job, PathType
<1> HIDE DEF j
<1>6. p \in Calls \cup {"idle"} /\ p # "idle"
  BY DEF Calls
<1>7. Stage(p, j) /\ Removing(p, j)
  BY <1>4, <1>5 DEF Stage, Removing, Commands
<1>8. Listed(fs', p, j) /\ Renamed(fs', p, j)
  BY <1>5 DEF Listed, Renamed
<1>9. Handled(j, handles[s], disturbed[s])
  <2>1. job[s].stack = <<>>
    BY <1>1 DEF Stage
  <2>2. handles[s] \in Nat /\ handles[s] <= disturbed[s] /\ disturbed[s] \in Nat
    BY <2>1, NoHandles, TypeFacts
  <2>. QED
    BY <1>5, <2>2 DEF Handled
<1>10. /\ fs' \in [Nodes -> Node] /\ WellFormed(fs')
       /\ cwd' \in [Sessions -> PathType] /\ rename_path' \in [Sessions -> PathType]
  BY <1>2 DEF IInv, TypeOK, PathType
<1>11. left' \in [Sessions -> Nat]
  <2>1. left[s] - 1 \in Nat
    BY <1>1
  <2>. QED
    BY <1>1, <1>2, <2>1 DEF TypeOK
<1>12. reply' \in [Sessions -> {"none", "250", "257", "350", "550", "550 350", "451", "queued"}]
  BY <1>1, <1>2 DEF TypeOK
<1>13. handles' = [handles EXCEPT ![s] = handles[s]] /\ handles[s] \in Nat
  BY <1>2, SameHandles, TypeFacts
<1>14. /\ disturbed[s] \in Nat
       /\ Counted(s, refusal, p, disturbed[s])
  BY <1>6, TypeFacts DEF Counted
<1>15. Kept(s, refusal, p, j)
  BY <1>8 DEF Kept
<1> HIDE DEF p
<1>16. StepTo(s, refusal, p, j, handles[s], disturbed[s])
  BY <1>2, <1>7, <1>9, <1>10, <1>11, <1>12, <1>13, <1>14, <1>15 DEF StepTo
<1>. QED
  BY <1>5, <1>6, <1>13, <1>14, <1>16, StepPreserves

LEMMA CdupPreserves == ASSUME IInv, NEW s \in Sessions, Cdup(s),
           NEW refusal \in BOOLEAN, History(s, refusal) PROVE IInv'
<1>1. /\ pc[s] = "idle" /\ left[s] > 0 /\ TypeOK /\ left[s] \in Nat /\ cwd[s] \in PathType
      /\ Stage(pc[s], job[s]) /\ job[s] \in Job
  BY TypeFacts DEF Cdup, At, IInv
<1>2. UNCHANGED <<fs, rename_path, pc, job, handles>>
  BY DEF Cdup
<1>3. left' \in [Sessions -> Nat]
  <2>1. left[s] - 1 \in Nat
    BY <1>1
  <2>2. left' = [left EXCEPT ![s] = left[s] - 1]
    BY DEF Cdup
  <2>. QED
    BY <1>1, <2>1, <2>2 DEF TypeOK
<1>4. reply' \in [Sessions -> {"none", "250", "257", "350", "550", "550 350", "451", "queued"}]
  BY <1>1 DEF TypeOK, Cdup
<1>5. cwd' \in [Sessions -> PathType]
  <2>1. CASE cwd[s] \in {<<>>, <<"">>}
    BY <1>1, <2>1 DEF Cdup, TypeOK, PathType
  <2>2. CASE cwd[s] \notin {<<>>, <<"">>}
    <3>1. Front(cwd[s]) \in PathType
      BY <1>1, <2>2, FrontFacts DEF PathType
    <3>2. cwd' = [cwd EXCEPT ![s] = Front(cwd[s])]
      BY <2>2 DEF Cdup
    <3>. QED
      BY <1>1, <3>1, <3>2 DEF TypeOK, PathType
  <2>. QED
    BY <2>1, <2>2
<1>6. /\ fs' \in [Nodes -> Node] /\ WellFormed(fs') /\ rename_path' \in [Sessions -> PathType]
  BY <1>2 DEF IInv, TypeOK, PathType
<1>7. /\ pc' = [pc EXCEPT ![s] = "idle"] /\ job' = [job EXCEPT ![s] = job[s]]
      /\ handles' = [handles EXCEPT ![s] = handles[s]] /\ handles[s] \in Nat
  BY <1>1, <1>2 DEF TypeOK
<1>8. job[s].cmd = "none" /\ job[s].stack = <<>> /\ Removing("idle", job[s])
      /\ Stage("idle", job[s])
  BY <1>1 DEF Stage, Removing
<1>9. PICK o \in Nat :
         /\ Handled(job[s], handles[s], o)
         /\ Counted(s, refusal, "idle", o)
  <2>1. Len(job[s].stack) = 0 /\ handles[s] <= disturbed[s] /\ disturbed[s] \in Nat
    BY <1>8, NoHandles, TypeFacts
  <2>2. handles[s] <= disturbed[s] + 1 /\ disturbed[s] + 1 \in Nat
    BY <1>7, <2>1
  <2>3. Handled(job[s], handles[s], disturbed[s]) /\ Handled(job[s], handles[s], disturbed[s] + 1)
    BY <1>7, <2>1, <2>2 DEF Handled
  <2>. QED
    BY <2>1, <2>2, <2>3 DEF Counted
<1>10. "idle" \in Calls \cup {"idle"} /\ Kept(s, refusal, "idle", job[s])
  BY DEF Kept
<1>11. StepTo(s, refusal, "idle", job[s], handles[s], o)
  BY <1>3, <1>4, <1>5, <1>6, <1>7, <1>8, <1>9, <1>10 DEF StepTo
<1>. QED
  BY <1>1, <1>7, <1>10, <1>11, StepPreserves

-----------------------------------------------------------------------------
(* The tests of a path.                                                    *)

\* A handler goes on with another call.
LEMMA GoesOn ==
    ASSUME IInv, NEW s \in Sessions, NEW refusal \in BOOLEAN, History(s, refusal),
           fs' \in [Nodes -> Node], WellFormed(fs'),
           UNCHANGED <<cwd, rename_path, left, reply>>,
           NEW p \in Calls, pc' = [pc EXCEPT ![s] = p],
           NEW j \in Job, job' = [job EXCEPT ![s] = j],
           NEW h \in Nat, handles' = [handles EXCEPT ![s] = h],
           Stage(p, j), Removing(p, j), Handled(j, h, disturbed[s]),
           alone[s] /\ ~refusal => Listed(fs', p, j) /\ Renamed(fs', p, j)
    PROVE  IInv'
<1>1. /\ cwd' \in [Sessions -> PathType] /\ rename_path' \in [Sessions -> PathType]
      /\ left' \in [Sessions -> Nat]
      /\ reply' \in [Sessions -> {"none", "250", "257", "350", "550", "550 350", "451", "queued"}]
  BY DEF IInv, TypeOK, PathType
<1>2. p \in Calls \cup {"idle"} /\ p # "idle"
  BY DEF Calls
<1>3. /\ disturbed[s] \in Nat
      /\ Counted(s, refusal, p, disturbed[s])
  BY <1>2, TypeFacts DEF Counted
<1>4. Kept(s, refusal, p, j)
  BY DEF Kept
<1>5. StepTo(s, refusal, p, j, h, disturbed[s])
  BY <1>1, <1>3, <1>4 DEF StepTo
<1>. QED
  BY <1>2, <1>3, <1>5, StepPreserves

\* A handler that has nothing open returns.
LEMMA EndNothingOpen ==
    ASSUME IInv, NEW s \in Sessions, NEW refusal \in BOOLEAN, History(s, refusal),
           fs' \in [Nodes -> Node], WellFormed(fs'),
           cwd' \in [Sessions -> PathType], rename_path' \in [Sessions -> PathType],
           UNCHANGED <<left, handles>>,
           NEW r \in Replies, End(s, r), job[s].stack = <<>>
    PROVE  IInv'
<1>1. /\ handles[s] \in Nat
      /\ handles[s] <= IF alone[s] /\ ~refusal THEN disturbed[s] ELSE disturbed[s] + 1
  BY NoHandles
<1>2. handles' = [handles EXCEPT ![s] = handles[s]]
  BY SameHandles
<1> HIDE DEF History, End
<1>. QED
  BY <1>1, <1>2, EndPreserves

\* A handler that has nothing open goes on with the next call of its job.
LEMMA GoesOnNothingOpen ==
    ASSUME IInv, NEW s \in Sessions, NEW refusal \in BOOLEAN, History(s, refusal),
           Aside, UNCHANGED <<job, reply, handles>>,
           NEW p \in Calls, Goto(s, p), job[s].stack = <<>>,
           Stage(p, job[s]), p \notin {"opendir", "unlink"} \/ Cmd(s) = "LIST",
           alone[s] /\ ~refusal => Listed(fs, p, job[s]) /\ Renamed(fs, p, job[s])
    PROVE  IInv'
<1>1. /\ pc' = [pc EXCEPT ![s] = p] /\ job' = [job EXCEPT ![s] = job[s]]
      /\ handles' = [handles EXCEPT ![s] = handles[s]]
      /\ UNCHANGED <<cwd, rename_path, left, reply>>
  BY SameHandles DEF IInv, TypeOK, Goto, Aside
<1>2. job[s] \in Job /\ handles[s] \in Nat /\ Handled(job[s], handles[s], disturbed[s])
  BY TypeFacts
<1>3. Removing(p, job[s])
  <2>1. Len(job[s].stack) = 0
    OBVIOUS
  <2>. QED
    BY <2>1 DEF Removing, Cmd
<1>4. fs' = fs /\ fs' \in [Nodes -> Node] /\ WellFormed(fs')
  BY AsideFacts
<1> HIDE DEF History, Stage, Removing, Handled, Listed, Renamed
<1>. QED
  BY <1>1, <1>2, <1>3, <1>4, GoesOn

LEMMA AfterDirFacts ==
    ASSUME NEW cmd \in {"MKD", "RMD", "LIST", "RNFR", "RNTO"}
    PROVE  /\ cmd = "MKD" => AfterDir(cmd) = "make_dir"
           /\ cmd = "RMD" => AfterDir(cmd) = "rm"
           /\ cmd = "LIST" => AfterDir(cmd) = "opendir"
           /\ cmd \in {"RNFR", "RNTO"} => AfterDir(cmd) = "test file"
           /\ AfterDir(cmd) \in Calls
  BY DEF AfterDir, Calls

LEMMA TestDirPreserves ==
    ASSUME IInv, NEW s \in Sessions, NEW is \in BOOLEAN, TestDir(s, is),
           NEW refusal \in BOOLEAN, History(s, refusal),
           ~refusal => is = is_dir_exist(Path(s))
    PROVE  IInv'
<1>1. /\ pc[s] = "test dir" /\ TypeOK /\ Stage(pc[s], job[s])
      /\ job[s].cmd \in Commands \cup {"none"} /\ Path(s) \in PathType
      /\ fs \in [Nodes -> Node] /\ cwd \in [Sessions -> PathType]
      /\ rename_path \in [Sessions -> PathType]
  BY TypeFacts DEF TestDir, At, IInv, Cmd, TypeOK, PathType
<1>2. /\ job[s].stack = <<>> /\ Len(job[s].stack) = 0
      /\ job[s].cmd \in Commands \ {"DELE"}
      /\ job[s].cmd # "LIST" => job[s].path # <<>>
  BY <1>1 DEF Stage
<1>3. UNCHANGED <<fs, handles, left>>
  BY DEF TestDir
<1>4. fs' \in [Nodes -> Node] /\ WellFormed(fs')
  BY <1>1, <1>3 DEF IInv
<1>5. [cwd EXCEPT ![s] = Path(s)] \in [Sessions -> PathType]
      /\ [rename_path EXCEPT ![s] = Path(s)] \in [Sessions -> PathType]
  BY <1>1
<1>6. \A r \in Replies : End(s, r) /\ cwd' \in [Sessions -> PathType]
          /\ rename_path' \in [Sessions -> PathType] => IInv'
  <2> HIDE DEF History, End
  <2>. QED
    BY <1>2, <1>3, <1>4, EndNothingOpen
<1>7. {"250", "350", "550"} \subseteq Replies
  BY DEF Replies
<1>8. CASE Cmd(s) = "CWD" /\ End(s, IF is THEN "250" ELSE "550")
           /\ cwd' = (IF is THEN [cwd EXCEPT ![s] = Path(s)] ELSE cwd) /\ UNCHANGED rename_path
  <2>1. (IF is THEN "250" ELSE "550") \in Replies
    BY <1>7
  <2>2. cwd' \in [Sessions -> PathType] /\ rename_path' \in [Sessions -> PathType]
    BY <1>1, <1>5, <1>8
  <2> HIDE DEF End
  <2>. QED
    BY <1>6, <1>8, <2>1, <2>2
<1>9. CASE Cmd(s) = "RNFR" /\ is /\ End(s, "350")
           /\ rename_path' = [rename_path EXCEPT ![s] = Path(s)] /\ UNCHANGED cwd
  <2>1. cwd' \in [Sessions -> PathType] /\ rename_path' \in [Sessions -> PathType]
    BY <1>1, <1>5, <1>9
  <2> HIDE DEF End
  <2>. QED
    BY <1>6, <1>7, <1>9, <2>1
<1>10. CASE End(s, "550") /\ UNCHANGED <<cwd, rename_path>>
  <2>1. cwd' \in [Sessions -> PathType] /\ rename_path' \in [Sessions -> PathType]
    BY <1>1, <1>10
  <2> HIDE DEF End
  <2>. QED
    BY <1>6, <1>7, <1>10, <2>1
<1>11. CASE is = (Cmd(s) \in {"RMD", "LIST"}) /\ Cmd(s) # "CWD" /\ Goto(s, AfterDir(Cmd(s)))
            /\ UNCHANGED <<cwd, rename_path, job, reply>>
  <2> DEFINE p == AfterDir(Cmd(s))
  <2>1. Cmd(s) \in {"MKD", "RMD", "LIST", "RNFR", "RNTO"} /\ Cmd(s) = job[s].cmd
    BY <1>2, <1>11 DEF Cmd, Commands
  <2>2. /\ Cmd(s) = "MKD" => p = "make_dir"
        /\ Cmd(s) = "RMD" => p = "rm"
        /\ Cmd(s) = "LIST" => p = "opendir"
        /\ Cmd(s) \in {"RNFR", "RNTO"} => p = "test file"
        /\ p \in Calls
    BY <2>1, AfterDirFacts
  <2> HIDE DEF p
  <2>3. Stage(p, job[s])
    <3>1. p # "idle" /\ p \notin {"readdir", "next", "mkdir", "mv", "unlink", "test dir"}
      BY <2>1, <2>2
    <3>2. job[s].cmd # "none"
      BY <2>1
    <3>3. /\ p = "test file" => job[s].cmd \in {"RNFR", "RNTO"}
          /\ p = "make_dir" => job[s].cmd = "MKD"
          /\ p = "rm" => job[s].cmd = "RMD"
          /\ p = "opendir" => job[s].cmd = "LIST"
      BY <2>1, <2>2
    <3>4. job[s].cmd = "LIST" => Len(job[s].stack) = IF p \in {"readdir", "next"} THEN 1 ELSE 0
      <4>1. Len(job[s].stack) = 0
        BY <1>2
      <4>2. p \notin {"readdir", "next"}
        BY <3>1
      <4>3. (IF p \in {"readdir", "next"} THEN 1 ELSE 0) = 0
        BY <4>2
      <4>. QED
        BY <4>1, <4>3, Zenon
    <3>5. p \in {"opendir", "readdir", "next"} => job[s].cmd \in {"DELE", "RMD", "LIST"}
      BY <3>1, <3>3
    <3>6. /\ p \in {"rm", "unlink"} => job[s].cmd \in {"DELE", "RMD"}
          /\ p \in {"make_dir", "mkdir"} => job[s].cmd = "MKD"
          /\ p = "test file" => job[s].cmd \in {"DELE", "RNFR", "RNTO"}
          /\ p = "mv" => job[s].cmd = "RNTO"
          /\ p = "test dir" => job[s].cmd # "DELE"
      BY <3>1, <3>3
    <3>. QED
      BY <1>2, <3>1, <3>2, <3>4, <3>5, <3>6 DEF Stage
  <2>4. p \notin {"opendir", "unlink"} \/ Cmd(s) = "LIST"
    BY <2>1, <2>2
  <2>5. Listed(fs, p, job[s])
    BY <2>1, <2>2 DEF Listed
  <2>6. ~refusal => Renamed(fs, p, job[s])
    <3>1. ~refusal /\ Cmd(s) = "RNTO" => ~IsDir(fs, Stat(fs, Path(s)))
      BY <1>11 DEF is_dir_exist
    <3>. QED
      BY <2>1, <2>2, <3>1 DEF Renamed, Path
  <2>7. Aside /\ UNCHANGED <<job, reply, handles>>
    BY <1>3, <1>11 DEF Aside
  <2>8. Goto(s, p)
    BY <1>11 DEF p
  <2> HIDE DEF History, Goto, Stage, Listed, Renamed
  <2>. QED
    BY <1>2, <2>2, <2>3, <2>4, <2>5, <2>6, <2>7, <2>8, GoesOnNothingOpen
<1>. QED
  BY <1>8, <1>9, <1>10, <1>11 DEF TestDir

LEMMA TestFilePreserves ==
    ASSUME IInv, NEW s \in Sessions, NEW is \in BOOLEAN, TestFile(s, is),
           NEW refusal \in BOOLEAN, History(s, refusal),
           ~refusal => is = is_file_exist(Path(s))
    PROVE  IInv'
<1>1. /\ pc[s] = "test file" /\ TypeOK /\ Stage(pc[s], job[s])
      /\ Path(s) \in PathType /\ WellFormed(fs)
      /\ fs \in [Nodes -> Node] /\ cwd \in [Sessions -> PathType]
      /\ rename_path \in [Sessions -> PathType]
      /\ alone[s] => Renamed(fs, pc[s], job[s])
  BY TypeFacts DEF TestFile, At, IInv, Cmd, TypeOK, PathType
<1>2. /\ job[s].stack = <<>> /\ Len(job[s].stack) = 0
      /\ job[s].cmd \in {"DELE", "RNFR", "RNTO"} /\ job[s].path # <<>>
  BY <1>1 DEF Stage
<1>3. UNCHANGED <<fs, cwd, handles, left>>
  BY DEF TestFile
<1>4. /\ fs' \in [Nodes -> Node] /\ WellFormed(fs') /\ cwd' \in [Sessions -> PathType]
  BY <1>1, <1>3
<1>5. [rename_path EXCEPT ![s] = Path(s)] \in [Sessions -> PathType]
  BY <1>1
<1>6. \A r \in Replies : End(s, r) /\ rename_path' \in [Sessions -> PathType] => IInv'
  <2> HIDE DEF History, End
  <2>. QED
    BY <1>2, <1>3, <1>4, EndNothingOpen
<1>7. {"350", "550 350", "550"} \subseteq Replies
  BY DEF Replies
<1>8. CASE Cmd(s) = "RNFR" /\ End(s, IF is THEN "350" ELSE "550 350")
           /\ rename_path' = [rename_path EXCEPT ![s] = Path(s)]
  <2>1. (IF is THEN "350" ELSE "550 350") \in Replies
    BY <1>7
  <2>2. rename_path' \in [Sessions -> PathType]
    BY <1>5, <1>8
  <2> HIDE DEF End
  <2>. QED
    BY <1>6, <1>8, <2>1, <2>2
<1>9. CASE End(s, "550") /\ UNCHANGED rename_path
  <2> HIDE DEF End
  <2>. QED
    BY <1>1, <1>6, <1>7, <1>9
<1>10. CASE Cmd(s) = "RNTO" /\ ~is /\ Goto(s, "mv") /\ UNCHANGED <<rename_path, job, reply>>
  <2>1. Stage("mv", job[s]) /\ "mv" \in Calls /\ "mv" \notin {"opendir", "unlink"}
    BY <1>2, <1>10 DEF Stage, Cmd, Calls
  <2>2. ASSUME alone[s], ~refusal PROVE Listed(fs, "mv", job[s]) /\ Renamed(fs, "mv", job[s])
    <3>1. ~IsDir(fs, Stat(fs, Path(s)))
      BY <1>1, <1>10, <2>2 DEF Renamed, Cmd, Path
    <3>2. Stat(fs, Path(s)) # None =>
             fs[Stat(fs, Path(s))].kind \in {"dir", "file"}
      BY <1>1, StatKind
    <3>3. Stat(fs, Path(s)) = None
      BY <1>10, <2>2, <3>1, <3>2 DEF IsDir, is_file_exist
    <3>. QED
      BY <3>3 DEF Listed, Renamed, Path
  <2>3. Aside /\ UNCHANGED <<job, reply, handles>>
    BY <1>3, <1>10 DEF Aside
  <2> HIDE DEF History, Goto, Stage, Listed, Renamed
  <2>. QED
    BY <1>2, <1>10, <2>1, <2>2, <2>3, GoesOnNothingOpen
<1>11. CASE Cmd(s) = "DELE" /\ is /\ Goto(s, "rm") /\ UNCHANGED <<rename_path, job, reply>>
  <2>1. Stage("rm", job[s]) /\ "rm" \in Calls /\ "rm" \notin {"opendir", "unlink"}
    BY <1>2, <1>11 DEF Stage, Cmd, Calls
  <2>2. Listed(fs, "rm", job[s]) /\ Renamed(fs, "rm", job[s])
    BY DEF Listed, Renamed
  <2>3. Aside /\ UNCHANGED <<job, reply, handles>>
    BY <1>3, <1>11 DEF Aside
  <2> HIDE DEF History, Goto, Stage, Listed, Renamed
  <2>. QED
    BY <1>2, <1>11, <2>1, <2>2, <2>3, GoesOnNothingOpen
<1>. QED
  BY <1>8, <1>9, <1>10, <1>11 DEF TestFile

-----------------------------------------------------------------------------
(* MKD and RNTO.                                                           *)

LEMMA MakeDirPreserves ==
    ASSUME IInv, NEW s \in Sessions, NEW is \in BOOLEAN, MakeDir(s, is),
           NEW refusal \in BOOLEAN, History(s, refusal)
    PROVE  IInv'
<1>1. /\ pc[s] = "make_dir" /\ TypeOK /\ Stage(pc[s], job[s])
  BY TypeFacts DEF MakeDir, At, IInv
<1>2. job[s].stack = <<>> /\ Len(job[s].stack) = 0 /\ job[s].cmd = "MKD" /\ job[s].path # <<>>
  BY <1>1 DEF Stage
<1>3. Aside /\ UNCHANGED handles
  BY DEF MakeDir, Aside
<1>4. /\ fs' \in [Nodes -> Node] /\ WellFormed(fs')
      /\ cwd' \in [Sessions -> PathType] /\ rename_path' \in [Sessions -> PathType]
      /\ UNCHANGED left
  BY <1>3, AsideFacts
<1>5. CASE End(s, "257")
  <2>1. "257" \in Replies
    BY DEF Replies
  <2> HIDE DEF History, End
  <2>. QED
    BY <1>2, <1>3, <1>4, <1>5, <2>1, EndNothingOpen
<1>6. CASE Goto(s, "mkdir") /\ UNCHANGED <<job, reply>>
  <2>1. Stage("mkdir", job[s]) /\ "mkdir" \in Calls /\ "mkdir" \notin {"opendir", "unlink"}
    BY <1>2 DEF Stage, Calls
  <2>2. Listed(fs, "mkdir", job[s]) /\ Renamed(fs, "mkdir", job[s])
    BY DEF Listed, Renamed
  <2>3. UNCHANGED <<job, reply, handles>>
    BY <1>3, <1>6
  <2> HIDE DEF History, Goto, Stage, Listed, Renamed
  <2>. QED
    BY <1>2, <1>3, <1>6, <2>1, <2>2, <2>3, GoesOnNothingOpen
<1>. QED
  BY <1>5, <1>6 DEF MakeDir

LEMMA MkdirCallPreserves ==
    ASSUME IInv, NEW s \in Sessions, MkdirCall(s),
           NEW refusal \in BOOLEAN, History(s, refusal) PROVE IInv'
<1>1. /\ pc[s] = "mkdir" /\ Stage(pc[s], job[s]) /\ TypeOK
      /\ fs \in [Nodes -> Node] /\ WellFormed(fs) /\ Path(s) \in PathType
  BY TypeFacts DEF MkdirCall, At, IInv
<1>2. job[s].stack = <<>> /\ Path(s) # <<>>
  BY <1>1 DEF Stage, Path
<1>3. fs' \in [Nodes -> Node] /\ WellFormed(fs')
  <2>1. fs' = Mkdir(fs, Path(s))
    BY DEF MkdirCall
  <2>. QED
    BY <1>1, <1>2, <2>1, MkdirFacts
<1>4. UNCHANGED <<cwd, rename_path, handles, left>>
  BY DEF MkdirCall
<1>5. cwd' \in [Sessions -> PathType] /\ rename_path' \in [Sessions -> PathType]
  BY <1>1, <1>4 DEF TypeOK, PathType
<1>6. PICK r \in Replies : End(s, r)
  BY DEF MkdirCall, Replies
<1> HIDE DEF History, End, MkdirCall
<1>. QED
  BY <1>2, <1>3, <1>4, <1>5, <1>6, EndNothingOpen

\* The entry that mv replaces is the one its path names, and stat finds
\* nothing behind it.
LEMMA MvFacts ==
    ASSUME NEW t \in [Nodes -> Node], NEW src \in PathType, NEW dst \in PathType,
           WellFormed(t), dst # <<>>
    PROVE  /\ Mv(t, src, dst) \in [Nodes -> Node] /\ WellFormed(Mv(t, src, dst))
           /\ Stat(t, dst) = None =>
                 \A m \in Live(t) \ Live(Mv(t, src, dst)) : m = LStat(t, dst)
<1> DEFINE n == LStat(t, Trimmed(src))
           cannot == src = <<>> \/ n = None \/ Last(Trimmed(src)) \notin Names
           d == Stat(t, dst)
           q == Trimmed(dst)
           into == Rename(t, n, d, Last(Trimmed(src)))
           to == Rename(t, n, Parent(t, q), Last(q))
           behind == Trimmed(src) # src /\ ~IsDir(t, n)
           slash == (Trimmed(src) # src \/ q # dst) /\ ~IsDir(t, n)
<1>1. Mv(t, src, dst) = IF cannot THEN t
                        ELSE IF IsDir(t, d) THEN IF behind THEN t ELSE into
                        ELSE IF slash THEN t ELSE to
  BY DEF Mv
<1>2. /\ n \in Nodes \cup {None} /\ d \in Nodes \cup {None}
      /\ q \in PathType /\ q # <<>> /\ Parent(t, q) \in Nodes \cup {None}
  BY StatType, ParentType, TrimmedFacts
<1>3. CASE Mv(t, src, dst) = t
  BY <1>3
<1>4. CASE ~cannot /\ IsDir(t, d) /\ Mv(t, src, dst) = into
  <2>1. n \in Nodes
    BY <1>2, <1>4
  <2>2. d # None
    BY <1>4 DEF IsDir
  <2> HIDE DEF cannot, n, d
  <2>3. \A x : Rename(t, n, d, x) \in [Nodes -> Node] /\ WellFormed(Rename(t, n, d, x))
    BY <1>2, <2>1, RenameFacts
  <2>4. into \in [Nodes -> Node] /\ WellFormed(into)
    BY <2>3
  <2> HIDE DEF into
  <2>. QED
    BY <1>4, <2>2, <2>4 DEF d
<1>5. CASE ~cannot /\ ~slash /\ Mv(t, src, dst) = to
  <2>1. n \in Nodes
    BY <1>2, <1>5
  <2>0. q = dst \/ IsDir(t, n)
    BY <1>5
  <2> HIDE DEF cannot, n, d, slash, q
  <2>3. /\ to \in [Nodes -> Node] /\ WellFormed(to)
        /\ \A m \in Live(t) \ Live(to) :
              /\ m = Entry(t, Parent(t, q), Last(q)) /\ IsDir(t, Parent(t, q))
              /\ Last(q) \in Names /\ IsDir(t, m) = IsDir(t, n)
    <3> DEFINE e == Parent(t, q)
               x == Last(q)
               u == Rename(t, n, e, x)
    <3>1. e \in Nodes \cup {None}
      BY <1>2
    <3> HIDE DEF e, x
    <3>2. /\ u \in [Nodes -> Node] /\ WellFormed(u)
          /\ \A m \in Live(t) \ Live(u) :
                m = Entry(t, e, x) /\ IsDir(t, e) /\ x \in Names /\ IsDir(t, m) = IsDir(t, n)
      BY <2>1, <3>1, RenameFacts
    <3> HIDE DEF u
    <3>. QED
      BY <3>2 DEF u, e, x
  <2> HIDE DEF to
  <2>4. ASSUME NEW m \in Live(t) \ Live(to) PROVE m = LStat(t, dst)
    <3>1. /\ m = Entry(t, Parent(t, q), Last(q)) /\ IsDir(t, Parent(t, q))
          /\ Last(q) \notin {"", ".", ".."} /\ IsDir(t, m) = IsDir(t, n)
      BY <2>3, NodeFacts
    <3>2. LStat(t, q) = Step(t, Parent(t, q), Last(q))
      BY <1>2, ParentType
    <3>3. LStat(t, q) = m
      BY <3>1, <3>2 DEF Step
    <3>4. CASE q = dst
      BY <3>3, <3>4
    <3>5. CASE q # dst
      <4>1. IsDir(t, LStat(t, Trimmed(dst)))
        BY <2>0, <3>1, <3>3, <3>5 DEF q
      <4>. QED
        BY <3>3, <4>1, TrimmedStat DEF q
    <3>. QED
      BY <3>4, <3>5
  <2>. QED
    BY <1>5, <2>3, <2>4
<1>. QED
  <2> HIDE DEF cannot, behind, slash, into, to, d
  <2>. QED
    BY <1>1, <1>3, <1>4, <1>5

\* The trees that the constants name are trees.
LEMMA OneTree ==
    ASSUME NEW t \in Trees \cup Outcomes
    PROVE  t \in [Nodes -> Node] /\ WellFormed(t)
<1>1. /\ t \in [Nodes -> Node]
      /\ t[Root].kind = "dir" /\ t[Root].up = Root
      /\ \A n \in Live(t) : IsDir(t, t[n].up)
      /\ \A n \in Live(t) \ {Root} :
            t[n].name \in Names /\ Entry(t, t[n].up, t[n].name) = n
  BY CommandAssumption
<1>2. Named(t)
  <2>1. ASSUME NEW n \in Live(t) \ {Root}, NEW m \in Children(t, t[n].up),
               t[m].name = t[n].name
        PROVE  m = n
    <3>1. m \in Live(t) \ {Root} /\ t[m].up = t[n].up
      BY LiveFacts
    <3>. QED
      BY <1>1, <2>1, <3>1
  <2>. QED
    BY <1>1, <2>1 DEF Named
<1>. QED
  BY <1>1, <1>2 DEF WellFormed

LEMMA RntoPreserves == ASSUME IInv, NEW s \in Sessions, Rnto(s),
           NEW refusal \in BOOLEAN, History(s, refusal) PROVE IInv'
<1>1. /\ pc[s] = "mv" /\ Stage(pc[s], job[s]) /\ TypeOK
      /\ fs \in [Nodes -> Node] /\ WellFormed(fs) /\ Path(s) \in PathType
      /\ rename_path[s] \in PathType
  BY TypeFacts DEF Rnto, At, IInv
<1>2. job[s].stack = <<>> /\ Path(s) # <<>>
  BY <1>1 DEF Stage, Path
<1>3. fs' \in [Nodes -> Node] /\ WellFormed(fs')
  <2>1. CASE fs' = Mv(fs, rename_path[s], Path(s))
    BY <1>1, <1>2, <2>1, MvFacts
  <2>2. CASE fs' \in Outcomes
    BY <2>2, OneTree
  <2>. QED
    BY <2>1, <2>2 DEF Rnto
<1>4. UNCHANGED <<cwd, rename_path, handles, left>> /\ End(s, "250")
  BY DEF Rnto
<1>5. cwd' \in [Sessions -> PathType] /\ rename_path' \in [Sessions -> PathType]
  BY <1>1, <1>4 DEF TypeOK, PathType
<1>6. "250" \in Replies
  BY DEF Replies
<1> HIDE DEF History, End, Rnto
<1>. QED
  BY <1>2, <1>3, <1>4, <1>5, <1>6, EndNothingOpen

-----------------------------------------------------------------------------
(* rm.                                                                     *)

\* A job that is at another path, or has other directories open.
Moved(j, at, stack) == [j EXCEPT !.at = at, !.stack = stack]
Opened(j, stack) == [j EXCEPT !.stack = stack]

LEMMA JobUpdate ==
    ASSUME NEW j \in Job, NEW at \in PathType, NEW stack \in Seq(Frame)
    PROVE  /\ Moved(j, at, stack) \in Job /\ Opened(j, stack) \in Job
           /\ Moved(j, at, stack).cmd = j.cmd /\ Opened(j, stack).cmd = j.cmd
           /\ Moved(j, at, stack).path = j.path /\ Opened(j, stack).path = j.path
           /\ Moved(j, at, stack).stack = stack /\ Opened(j, stack).stack = stack
           /\ Moved(j, at, stack).at = at
  BY DEF Job, PathType, Moved, Opened

LEMMA OpenedUpdate ==
    ASSUME NEW j \in Job, NEW stack \in Seq(Frame)
    PROVE  /\ Opened(j, stack) \in Job
           /\ Opened(j, stack).cmd = j.cmd
           /\ Opened(j, stack).path = j.path
           /\ Opened(j, stack).stack = stack
  BY DEF Job, Opened

\* The directory that is read, with other entries left to read.
Left(stack, todo) == [stack EXCEPT ![1].todo = todo]

LEMMA TodoUpdate ==
    ASSUME NEW stack \in Seq(Frame), stack # <<>>, NEW todo \in SUBSET PathComponents
    PROVE  /\ stack[1] \in Frame /\ Head(stack) = stack[1]
           /\ Left(stack, todo) \in Seq(Frame)
           /\ Len(Left(stack, todo)) = Len(stack)
           /\ Left(stack, todo)[1].path = stack[1].path
           /\ Left(stack, todo)[1].dir = stack[1].dir
           /\ Left(stack, todo)[1].todo = todo
           /\ \A i \in 1 .. Len(stack) :
                 i # 1 => Left(stack, todo)[i] = stack[i]
<1> DEFINE e == [stack[1] EXCEPT !.todo = todo]
<1>1. Len(stack) \in Nat \ {0} /\ 1 \in 1 .. Len(stack)
  OBVIOUS
<1>2. stack[1] \in Frame /\ Head(stack) = stack[1]
  BY <1>1, ElementType
<1>3. e \in Frame /\ e.path = stack[1].path /\ e.dir = stack[1].dir /\ e.todo = todo
  BY <1>2 DEF Frame
<1>4. Left(stack, todo) = [stack EXCEPT ![1] = e]
  BY DEF Left
<1> HIDE DEF e
<1>5. /\ [stack EXCEPT ![1] = e] \in Seq(Frame)
      /\ Len([stack EXCEPT ![1] = e]) = Len(stack)
      /\ \A i \in 1 .. Len(stack) : [stack EXCEPT ![1] = e][i] = IF i = 1 THEN e ELSE stack[i]
  BY <1>1, <1>3, ExceptSeq
<1>6. [stack EXCEPT ![1] = e][1] = e
  BY <1>1, <1>5
<1>. QED
  BY <1>1, <1>2, <1>3, <1>4, <1>5, <1>6

LEMMA RmFailPreserves ==
    ASSUME IInv, NEW s \in Sessions, NEW refusal \in BOOLEAN, History(s, refusal),
           fs' \in [Nodes -> Node], WellFormed(fs'),
           UNCHANGED <<cwd, rename_path, left>>, RmFail(s)
    PROVE  IInv'
<1>1. /\ handles[s] \in Nat /\ disturbed[s] \in Nat /\ Len(job[s].stack) \in Nat
      /\ Handled(job[s], handles[s], disturbed[s])
  BY TypeFacts
<1> DEFINE h == handles[s] - Len(job[s].stack)
<1>2. h \in Nat /\ h <= disturbed[s]
  BY <1>1 DEF Handled
<1>3. End(s, "550") /\ handles' = [handles EXCEPT ![s] = h]
  BY DEF RmFail, OpenHandles
<1> HIDE DEF h
<1>4. h <= IF alone[s] /\ ~refusal THEN disturbed[s] ELSE disturbed[s] + 1
  <2>1. h <= disturbed[s] + 1
    BY <1>1, <1>2
  <2>2. CASE alone[s] /\ ~refusal
    BY <1>2, <2>2
  <2>3. CASE ~(alone[s] /\ ~refusal)
    BY <2>1, <2>3
  <2>. QED
    BY <2>2, <2>3
<1>5. cwd' \in [Sessions -> PathType] /\ rename_path' \in [Sessions -> PathType]
  BY DEF IInv, TypeOK, PathType
<1>6. "550" \in Replies
  BY DEF Replies
<1> HIDE DEF History, End, RmFail
<1>. QED
  BY <1>2, <1>3, <1>4, <1>5, <1>6, EndPreserves

\* The frames of a removal, and the path of the next call of rm.
FramesInv(path, stack) ==
    \A i \in 1 .. Len(stack) : Below(stack[i].path, path) /\ stack[i].todo \cap Dots = {}

LEMMA RmStatPreserves ==
    ASSUME IInv, NEW s \in Sessions, NEW refusal \in BOOLEAN, History(s, refusal),
           Aside, Cmd(s) \in {"DELE", "RMD"},
           NEW path \in PathType, NEW stack \in Seq(Frame), RmStat(s, path, stack),
           Len(stack) = Len(job[s].stack), Below(path, Path(s)), FramesInv(Path(s), stack)
    PROVE  IInv'
<1>1. /\ job[s] \in Job /\ handles[s] \in Nat /\ Handled(job[s], handles[s], disturbed[s])
      /\ Stage(pc[s], job[s])
  BY TypeFacts
<1>2. /\ fs' \in [Nodes -> Node] /\ WellFormed(fs')
      /\ UNCHANGED <<cwd, rename_path, left>>
  BY AsideFacts DEF Aside
<1>3. CASE RmFail(s)
  <2> HIDE DEF History, RmFail
  <2>. QED
    BY <1>2, <1>3, RmFailPreserves
<1>4. ASSUME NEW p \in {"opendir", "unlink"}, Goto(s, p),
             job' = [job EXCEPT ![s].at = path, ![s].stack = stack],
             UNCHANGED <<reply, handles>>
      PROVE  IInv'
  <2> DEFINE j == Moved(job[s], path, stack)
  <2>1. job' = [job EXCEPT ![s] = j]
    BY <1>4, Zenon DEF Moved
  <2>2. /\ j \in Job /\ j.cmd = job[s].cmd /\ j.path = job[s].path
        /\ j.at = path /\ j.stack = stack
    BY <1>1, JobUpdate
  <2> HIDE DEF j
  <2>3. pc' = [pc EXCEPT ![s] = p] /\ p \in Calls
    BY <1>4 DEF Goto, Calls
  <2>4. handles' = [handles EXCEPT ![s] = handles[s]]
    BY <1>4, SameHandles
  <2>5. job[s].cmd \in {"DELE", "RMD"} /\ job[s].path # <<>>
    BY <1>1 DEF Cmd, Stage
  <2>6. Stage(p, j)
    BY <1>4, <2>2, <2>5 DEF Stage
  <2>7. Removing(p, j)
    BY <2>2 DEF Removing, FramesInv, Path
  <2>8. Handled(j, handles[s], disturbed[s])
    BY <1>1, <2>2 DEF Handled
  <2>9. Listed(fs', p, j) /\ Renamed(fs', p, j)
    BY <2>2, <2>5 DEF Listed, Renamed
  <2>10. UNCHANGED <<cwd, rename_path, left, reply>>
    BY <1>2, <1>4
  <2> HIDE DEF History, Stage, Removing, Handled, Listed, Renamed
  <2>. QED
    BY <1>1, <1>2, <2>1, <2>2, <2>3, <2>4, <2>6, <2>7, <2>8, <2>9, <2>10, GoesOn
<1> HIDE DEF RmFail, Goto, History
<1>5. CASE IsDir(fs, Stat(fs, path)) /\ ~RmFail(s)
  BY <1>4, <1>5 DEF RmStat
<1>6. CASE ~IsDir(fs, Stat(fs, path)) /\ ~RmFail(s)
  BY <1>4, <1>6 DEF RmStat
<1>. QED
  BY <1>3, <1>5, <1>6

LEMMA RmPreserves == ASSUME IInv, NEW s \in Sessions, Rm(s),
           NEW refusal \in BOOLEAN, History(s, refusal) PROVE IInv'
<1>1. /\ pc[s] = "rm" /\ Stage(pc[s], job[s]) /\ Path(s) \in PathType
  BY TypeFacts DEF Rm, At
<1>2. job[s].stack = <<>> /\ Cmd(s) \in {"DELE", "RMD"}
  BY <1>1 DEF Stage, Cmd
<1>3. Aside /\ RmStat(s, Path(s), <<>>)
  BY DEF Rm, Aside
<1>4. <<>> \in Seq(Frame) /\ Len(<<>>) = Len(job[s].stack) /\ Len(<<>>) = 0
  BY <1>2
<1>5. Below(Path(s), Path(s)) /\ FramesInv(Path(s), <<>>)
  BY <1>1, <1>4, BelowFacts DEF FramesInv
<1> HIDE DEF History, RmStat
<1>. QED
  BY <1>1, <1>2, <1>3, <1>4, <1>5, RmStatPreserves

\* Where rm is in a directory.
LEMMA RemovalFacts ==
    ASSUME IInv, NEW s \in Sessions, Cmd(s) \in {"DELE", "RMD"}
    PROVE  /\ FramesInv(Path(s), job[s].stack)
           /\ pc[s] \in {"opendir", "unlink"} => Below(job[s].at, Path(s))
           /\ Path(s) # <<>>
           /\ pc[s] \in {"readdir", "next"} =>
                 /\ job[s].stack # <<>>
                 /\ Top(s) = job[s].stack[1] /\ Top(s) \in Frame
                 /\ Top(s).path \in PathType /\ Top(s).path # <<>>
                 /\ Below(Top(s).path, Path(s)) /\ Top(s).todo \cap Dots = {}
                 /\ Top(s).todo \subseteq PathComponents
<1>1. /\ job[s] \in Job /\ job[s].stack \in Seq(Frame) /\ Stage(pc[s], job[s])
      /\ Removing(pc[s], job[s]) /\ Path(s) \in PathType
  BY TypeFacts
<1>2. /\ FramesInv(Path(s), job[s].stack) /\ Path(s) # <<>>
      /\ pc[s] \in {"opendir", "unlink"} => Below(job[s].at, Path(s))
  BY <1>1 DEF Removing, FramesInv, Path, Cmd, Stage
<1>3. ASSUME pc[s] \in {"readdir", "next"}
      PROVE  /\ job[s].stack # <<>>
             /\ Top(s) = job[s].stack[1] /\ Top(s) \in Frame
             /\ Top(s).path \in PathType /\ Top(s).path # <<>>
             /\ Below(Top(s).path, Path(s)) /\ Top(s).todo \cap Dots = {}
             /\ Top(s).todo \subseteq PathComponents
  <2>1. job[s].stack # <<>>
    BY <1>1, <1>3 DEF Stage
  <2>2. Len(job[s].stack) \in Nat \ {0} /\ 1 \in 1 .. Len(job[s].stack)
    BY <1>1, <2>1
  <2>3. Top(s) = job[s].stack[1] /\ Top(s) \in Frame
    BY <1>1, <2>1, <2>2, ElementType DEF Top
  <2>4. Top(s).path \in PathType /\ Top(s).todo \subseteq PathComponents
    BY <2>3 DEF Frame, PathType
  <2>5. Below(Top(s).path, Path(s)) /\ Top(s).todo \cap Dots = {}
    BY <1>2, <2>2, <2>3 DEF FramesInv
  <2>6. Top(s).path # <<>>
    <3>1. Len(Path(s)) \in Nat \ {0} /\ Len(Path(s)) <= Len(Top(s).path)
      BY <1>1, <1>2, <2>5 DEF Below, PathType
    <3>. QED
      BY <3>1
  <2>. QED
    BY <2>1, <2>3, <2>4, <2>5, <2>6
<1>. QED
  BY <1>2, <1>3

LEMMA OpenDirPreserves == ASSUME IInv, NEW s \in Sessions, OpenDir(s),
           NEW refusal \in BOOLEAN, History(s, refusal) PROVE IInv'
<1> DEFINE path == IF Cmd(s) = "LIST" THEN Path(s) ELSE job[s].at
           frame == [path |-> path, dir |-> Stat(fs, path), todo |-> {}]
           stack == <<frame>> \o job[s].stack
           j == Opened(job[s], stack)
<1>1. /\ pc[s] = "opendir" /\ Stage(pc[s], job[s]) /\ job[s] \in Job
      /\ Path(s) \in PathType /\ job[s].at \in PathType /\ job[s].stack \in Seq(Frame)
      /\ Len(job[s].stack) \in Nat /\ handles[s] \in Nat /\ disturbed[s] \in Nat
      /\ Handled(job[s], handles[s], disturbed[s]) /\ fs \in [Nodes -> Node]
  BY TypeFacts DEF OpenDir, At
<1>2. /\ Cmd(s) \in {"DELE", "RMD", "LIST"} /\ Cmd(s) = job[s].cmd
      /\ Cmd(s) = "LIST" => job[s].stack = <<>>
  <2>1. job[s].cmd = "LIST" => Len(job[s].stack) = 0
    BY <1>1 DEF Stage
  <2>. QED
    BY <1>1, <2>1 DEF Stage, Cmd
<1>3. Aside
  BY DEF OpenDir, Aside
<1>4. /\ fs' = fs /\ fs' \in [Nodes -> Node] /\ WellFormed(fs')
      /\ cwd' \in [Sessions -> PathType] /\ rename_path' \in [Sessions -> PathType]
      /\ UNCHANGED <<cwd, rename_path, left>> /\ UNCHANGED left
  BY <1>3, AsideFacts DEF Aside
<1>5. path \in PathType
  BY <1>1
<1>6. CASE IsDir(fs, Stat(fs, path))
  <2>1. /\ pc' = [pc EXCEPT ![s] = "readdir"]
        /\ job' = [job EXCEPT ![s] = j]
        /\ handles' = [handles EXCEPT ![s] = handles[s] + 1]
        /\ UNCHANGED reply
    <3>1. /\ Goto(s, "readdir")
          /\ job' = [job EXCEPT ![s].stack = <<frame>> \o @]
          /\ handles' = [handles EXCEPT ![s] = @ + 1]
          /\ UNCHANGED reply
      BY <1>6 DEF OpenDir
    <3>2. job' = [job EXCEPT ![s] = j]
      BY <3>1, Zenon DEF Opened
    <3>. QED
      BY <3>1, <3>2 DEF Goto
  <2>2. Stat(fs, path) \in Nodes
    BY <1>1, <1>5, <1>6, StatType DEF IsDir
  <2>3. frame \in Frame /\ frame.path = path /\ frame.dir = Stat(fs, path) /\ frame.todo = {}
    BY <1>5, <2>2 DEF Frame, PathType
  <2> HIDE DEF path, frame
  <2>4. <<frame>> \in Seq(Frame) /\ Len(<<frame>>) = 1 /\ <<frame>>[1] = frame
    BY <2>3
  <2>5. /\ stack \in Seq(Frame) /\ Len(stack) = 1 + Len(job[s].stack)
        /\ \A i \in 1 .. 1 + Len(job[s].stack) :
              stack[i] = IF i <= 1 THEN <<frame>>[i] ELSE job[s].stack[i - 1]
    <3>1. /\ stack \in Seq(Frame) /\ Len(stack) = Len(<<frame>>) + Len(job[s].stack)
          /\ \A i \in 1 .. Len(<<frame>>) + Len(job[s].stack) :
                stack[i] = IF i <= Len(<<frame>>) THEN <<frame>>[i]
                           ELSE job[s].stack[i - Len(<<frame>>)]
      BY <1>1, <2>4, ConcatProperties
    <3> HIDE DEF stack
    <3>. QED
      BY <2>4, <3>1
  <2> HIDE DEF stack
  <2>6. stack[1] = frame
    <3>1. 1 \in 1 .. 1 + Len(job[s].stack)
      BY <1>1
    <3>. QED
      BY <2>4, <2>5, <3>1
  <2>7. j \in Job /\ j.cmd = job[s].cmd /\ j.path = job[s].path /\ j.stack = stack
    BY <1>1, <1>5, <2>5, JobUpdate
  <2> HIDE DEF j
  <2>8. stack # <<>> /\ (Cmd(s) = "LIST" => Len(stack) = 1)
    BY <1>1, <1>2, <2>5
  <2>9. Stage("readdir", j)
    <3>1. job[s].cmd \notin {"none", "LIST"} => job[s].path # <<>>
      BY <1>1 DEF Stage
    <3>. QED
      BY <1>2, <2>7, <2>8, <3>1 DEF Stage
  <2>10. Removing("readdir", j)
    <3>1. ASSUME Cmd(s) \in {"DELE", "RMD"}, NEW i \in 1 .. Len(stack)
          PROVE  Below(stack[i].path, Path(s)) /\ stack[i].todo \cap Dots = {}
      <4>1. FramesInv(Path(s), job[s].stack) /\ Below(job[s].at, Path(s))
        BY <1>1, <3>1, RemovalFacts
      <4>2. CASE i = 1
        BY <2>3, <2>6, <3>1, <4>1, <4>2 DEF path
      <4>3. CASE i # 1
        <5>1. i - 1 \in 1 .. Len(job[s].stack) /\ i \in 1 .. 1 + Len(job[s].stack) /\ ~(i <= 1)
          BY <1>1, <2>5, <4>3
        <5>2. stack[i] = job[s].stack[i - 1]
          BY <2>5, <5>1
        <5>. QED
          BY <4>1, <5>1, <5>2 DEF FramesInv
      <4>. QED
        BY <4>2, <4>3
    <3>. QED
      BY <1>2, <2>7, <3>1 DEF Removing, Path
  <2>11. Handled(j, handles[s] + 1, disturbed[s]) /\ handles[s] + 1 \in Nat
    <3>1. /\ Len(job[s].stack) <= handles[s] /\ handles[s] <= disturbed[s] + Len(job[s].stack)
          /\ Len(j.stack) = 1 + Len(job[s].stack)
      BY <1>1, <2>5, <2>7 DEF Handled
    <3>2. Len(j.stack) <= handles[s] + 1 /\ handles[s] + 1 <= disturbed[s] + Len(j.stack)
      BY <1>1, <3>1
    <3>. QED
      BY <1>1, <3>2 DEF Handled
  <2>12. Listed(fs', "readdir", j)
    BY <1>4, <1>6, <2>3, <2>6, <2>7 DEF Listed
  <2>13. Renamed(fs', "readdir", j)
    BY DEF Renamed
  <2>14. UNCHANGED <<cwd, rename_path, left, reply>> /\ "readdir" \in Calls
    BY <1>4, <2>1 DEF Calls
  <2> HIDE DEF History, Stage, Removing, Handled, Listed, Renamed
  <2>. QED
    BY <1>4, <2>1, <2>7, <2>9, <2>10, <2>11, <2>12, <2>13, <2>14, GoesOn
<1>7. CASE ~IsDir(fs, Stat(fs, path)) /\ Cmd(s) = "LIST"
  <2>1. End(s, "451") /\ UNCHANGED handles
    BY <1>7 DEF OpenDir
  <2>2. "451" \in Replies
    BY DEF Replies
  <2> HIDE DEF History, End, path
  <2>. QED
    BY <1>2, <1>4, <1>7, <2>1, <2>2, EndNothingOpen
<1>8. CASE ~IsDir(fs, Stat(fs, path)) /\ Cmd(s) # "LIST"
  <2>1. RmFail(s)
    BY <1>8 DEF OpenDir
  <2> HIDE DEF History, RmFail, path
  <2>. QED
    BY <1>4, <2>1, RmFailPreserves
<1>. QED
  <2> HIDE DEF path
  <2>. QED
    BY <1>6, <1>7, <1>8

LEMMA ReadDirPreserves == ASSUME IInv, NEW s \in Sessions, ReadDir(s),
           NEW refusal \in BOOLEAN, History(s, refusal) PROVE IInv'
<1> DEFINE d == Top(s).dir
           todo == IF d \in Live(fs) THEN Entries(fs, d) \ Skipped(s) ELSE {}
           stack == Left(job[s].stack, todo)
           j == Opened(job[s], stack)
<1>1. /\ pc[s] = "readdir" /\ Stage(pc[s], job[s]) /\ job[s] \in Job
      /\ Path(s) \in PathType /\ job[s].at \in PathType /\ job[s].stack \in Seq(Frame)
      /\ handles[s] \in Nat /\ fs \in [Nodes -> Node]
      /\ Handled(job[s], handles[s], disturbed[s])
      /\ alone[s] => Listed(fs, pc[s], job[s])
  BY TypeFacts DEF ReadDir, At
<1>2. /\ Cmd(s) \in {"DELE", "RMD", "LIST"} /\ Cmd(s) = job[s].cmd
      /\ job[s].stack # <<>>
      /\ Cmd(s) = "LIST" => Len(job[s].stack) = 1
      /\ job[s].cmd \notin {"none", "LIST"} => job[s].path # <<>>
  BY <1>1 DEF Stage, Cmd
<1>3. /\ fs' = fs /\ fs' \in [Nodes -> Node] /\ WellFormed(fs')
      /\ UNCHANGED <<cwd, rename_path, left, reply>> /\ UNCHANGED handles
  <2>1. Aside /\ UNCHANGED <<reply, handles>>
    BY DEF ReadDir, Aside
  <2>. QED
    BY <2>1, AsideFacts DEF Aside
<1>4. Entries(fs, d) \subseteq PathComponents
  <2>1. ASSUME NEW n \in Children(fs, d) PROVE fs[n].name \in PathComponents
    <3>1. n \in Nodes
      BY <2>1, LiveFacts
    <3>2. fs[n].name \in Names \cup {""}
      BY <1>1, <3>1, NodeFacts
    <3>. QED
      BY <3>2 DEF PathComponents
  <2>2. Dots \subseteq PathComponents
    BY DEF PathComponents
  <2>. QED
    BY <2>1, <2>2 DEF Entries
<1>5. todo \in SUBSET PathComponents /\ todo \subseteq Entries(fs, d)
      /\ (Cmd(s) # "LIST" => todo \cap Dots = {})
  BY <1>4 DEF Skipped
<1>6. pc' = [pc EXCEPT ![s] = "next"] /\ job' = [job EXCEPT ![s] = j]
      /\ handles' = [handles EXCEPT ![s] = handles[s]]
  <2>1. Goto(s, "next") /\ job' = [job EXCEPT ![s].stack[1].todo = todo]
    BY DEF ReadDir, Entries
  <2> HIDE DEF todo
  <2>2. job' = [job EXCEPT ![s] = j]
    BY <2>1, Zenon DEF Opened, Left
  <2>. QED
    BY <1>3, <2>1, <2>2, SameHandles DEF Goto
<1> HIDE DEF todo, d
<1>7. /\ job[s].stack[1] \in Frame /\ Head(job[s].stack) = job[s].stack[1]
      /\ stack \in Seq(Frame) /\ Len(stack) = Len(job[s].stack)
      /\ stack[1].path = job[s].stack[1].path /\ stack[1].dir = job[s].stack[1].dir
      /\ stack[1].todo = todo
      /\ \A i \in 1 .. Len(job[s].stack) : i # 1 => stack[i] = job[s].stack[i]
  BY <1>1, <1>2, <1>5, TodoUpdate
<1> HIDE DEF stack
<1>8. j \in Job /\ j.cmd = job[s].cmd /\ j.path = job[s].path /\ j.stack = stack
  <2>1. job[s] \in Job /\ stack \in Seq(Frame)
    BY <1>1, <1>7
  <2>. QED
    BY <2>1, OpenedUpdate
<1> HIDE DEF j
<1>9. stack # <<>>
  <2>1. Len(job[s].stack) \in Nat \ {0}
    BY <1>1, <1>2
  <2>. QED
    BY <1>7, <2>1
<1>10. Stage("next", j)
  BY <1>2, <1>7, <1>8, <1>9 DEF Stage
<1>11. Removing("next", j)
  <2>1. ASSUME Cmd(s) \in {"DELE", "RMD"}, NEW i \in 1 .. Len(stack)
        PROVE  Below(stack[i].path, Path(s)) /\ stack[i].todo \cap Dots = {}
    <3>1. FramesInv(Path(s), job[s].stack)
      BY <2>1, RemovalFacts
    <3>2. Below(job[s].stack[i].path, Path(s)) /\ job[s].stack[i].todo \cap Dots = {}
      BY <1>7, <2>1, <3>1 DEF FramesInv
    <3>3. CASE i = 1
      BY <1>5, <1>7, <2>1, <3>2, <3>3
    <3>4. CASE i # 1
      BY <1>7, <2>1, <3>2, <3>4
    <3>. QED
      BY <3>3, <3>4
  <2>. QED
    BY <1>2, <1>8, <2>1 DEF Removing, Path
<1>12. Handled(j, handles[s], disturbed[s])
  BY <1>1, <1>7, <1>8 DEF Handled
<1>13. alone[s] => Listed(fs', "next", j)
  <2>1. Top(s) = job[s].stack[1] /\ d = job[s].stack[1].dir
    BY <1>7 DEF Top, d
  <2>. QED
    BY <1>1, <1>3, <1>5, <1>7, <1>8, <2>1 DEF Listed
<1>14. Renamed(fs', "next", j) /\ "next" \in Calls
  BY DEF Renamed, Calls
<1> HIDE DEF History, Stage, Removing, Handled, Listed, Renamed
<1>. QED
  BY <1>1, <1>3, <1>6, <1>8, <1>10, <1>11, <1>12, <1>13, <1>14, GoesOn

LEMMA RmEntryPreserves == ASSUME IInv, NEW s \in Sessions, RmEntry(s),
           NEW refusal \in BOOLEAN, History(s, refusal) PROVE IInv'
<1>1. /\ pc[s] = "next" /\ Stage(pc[s], job[s]) /\ job[s].stack \in Seq(Frame)
      /\ Path(s) \in PathType
  BY TypeFacts DEF RmEntry, At
<1>2. Cmd(s) \in {"DELE", "RMD"}
  BY <1>1 DEF Stage, Cmd, RmEntry
<1>3. Aside
  BY DEF RmEntry, Aside
<1>4. PICK x \in Top(s).todo :
         RmStat(s, Append(Top(s).path, x), [job[s].stack EXCEPT ![1].todo = @ \ {x}])
  BY DEF RmEntry
<1> DEFINE todo == Top(s).todo \ {x}
           stack == Left(job[s].stack, todo)
           path == Append(Top(s).path, x)
<1>5. /\ FramesInv(Path(s), job[s].stack) /\ job[s].stack # <<>>
      /\ Top(s) = job[s].stack[1] /\ Top(s).path \in PathType
      /\ Below(Top(s).path, Path(s)) /\ Top(s).todo \cap Dots = {}
      /\ Top(s).todo \subseteq PathComponents
  BY <1>1, <1>2, RemovalFacts
<1>6. RmStat(s, path, stack)
  <2>1. [job[s].stack EXCEPT ![1].todo = @ \ {x}] = stack
    BY <1>5 DEF Left
  <2> HIDE DEF stack, path, RmStat
  <2>. QED
    BY <1>4, <2>1 DEF path
<1>7. x \in PathComponents /\ x \notin Dots /\ todo \in SUBSET PathComponents /\ todo \cap Dots = {}
  BY <1>5
<1>8. path \in PathType /\ Below(path, Path(s))
  BY <1>1, <1>5, <1>7, BelowFacts, AppendFacts DEF PathType
<1> HIDE DEF todo, path
<1>9. /\ stack \in Seq(Frame) /\ Len(stack) = Len(job[s].stack)
      /\ stack[1].path = job[s].stack[1].path /\ stack[1].todo = todo
      /\ \A i \in 1 .. Len(job[s].stack) : i # 1 => stack[i] = job[s].stack[i]
  BY <1>1, <1>5, <1>7, TodoUpdate
<1> HIDE DEF stack
<1>10. FramesInv(Path(s), stack)
  <2>1. ASSUME NEW i \in 1 .. Len(stack)
        PROVE  Below(stack[i].path, Path(s)) /\ stack[i].todo \cap Dots = {}
    <3>1. Below(job[s].stack[i].path, Path(s)) /\ job[s].stack[i].todo \cap Dots = {}
      BY <1>5, <1>9, <2>1 DEF FramesInv
    <3>2. CASE i = 1
      BY <1>7, <1>9, <3>1, <3>2
    <3>3. CASE i # 1
      BY <1>9, <2>1, <3>1, <3>3
    <3>. QED
      BY <3>2, <3>3
  <2>. QED
    BY <2>1 DEF FramesInv
<1> HIDE DEF History, RmStat
<1>. QED
  BY <1>2, <1>3, <1>6, <1>8, <1>9, <1>10, RmStatPreserves

\* A call of rm returns to the one that made it, or to the handler.
LEMMA RmDonePreserves ==
    ASSUME IInv, NEW s \in Sessions, NEW refusal \in BOOLEAN, History(s, refusal),
           Cmd(s) \in {"DELE", "RMD"},
           fs' \in [Nodes -> Node], WellFormed(fs'),
           UNCHANGED <<cwd, rename_path, left>>,
           NEW stack \in Seq(Frame), RmDone(s, stack), FramesInv(Path(s), stack),
           NEW h \in Nat, handles' = [handles EXCEPT ![s] = h],
           Len(stack) <= h, h <= disturbed[s] + Len(stack)
    PROVE  IInv'
<1>1. /\ job[s] \in Job /\ disturbed[s] \in Nat /\ Stage(pc[s], job[s])
  BY TypeFacts
<1>2. CASE stack = <<>>
  <2>1. End(s, "250") /\ "250" \in Replies
    BY <1>2 DEF RmDone, Replies
  <2>2. h <= disturbed[s]
    <3>1. Len(stack) = 0
      BY <1>2
    <3>. QED
      BY <1>1, <3>1
  <2>3. h <= IF alone[s] /\ ~refusal THEN disturbed[s] ELSE disturbed[s] + 1
    <3>1. h <= disturbed[s] + 1
      BY <1>1, <2>2
    <3>2. CASE alone[s] /\ ~refusal
      BY <2>2, <3>2
    <3>3. CASE ~(alone[s] /\ ~refusal)
      BY <3>1, <3>3
    <3>. QED
      BY <3>2, <3>3
  <2>4. /\ cwd' \in [Sessions -> PathType] /\ rename_path' \in [Sessions -> PathType]
        /\ UNCHANGED left
    BY DEF IInv, TypeOK, PathType
  <2> HIDE DEF History, End, RmDone
  <2>. QED
    BY <2>1, <2>3, <2>4, EndPreserves
<1>3. CASE stack # <<>>
  <2> DEFINE j == Opened(job[s], stack)
  <2>1. Goto(s, "next") /\ job' = [job EXCEPT ![s].stack = stack] /\ UNCHANGED reply
    BY <1>3 DEF RmDone
  <2>2. job' = [job EXCEPT ![s] = j]
    BY <2>1, Zenon DEF Opened
  <2>3. j \in Job /\ j.cmd = job[s].cmd /\ j.path = job[s].path /\ j.stack = stack
    <3>1. <<>> \in PathType
      BY DEF PathType
    <3>. QED
      BY <1>1, <3>1, JobUpdate
  <2> HIDE DEF j
  <2>4. Stage("next", j)
    <3>1. job[s].cmd \in {"DELE", "RMD"} /\ job[s].path # <<>>
      BY <1>1 DEF Cmd, Stage
    <3>. QED
      BY <1>3, <2>3, <3>1 DEF Stage
  <2>5. Removing("next", j)
    BY <2>3 DEF Removing, FramesInv, Path
  <2>6. Handled(j, h, disturbed[s])
    BY <2>3 DEF Handled
  <2>7. Listed(fs', "next", j) /\ Renamed(fs', "next", j)
    BY <2>3 DEF Listed, Renamed, Cmd
  <2>8. pc' = [pc EXCEPT ![s] = "next"] /\ "next" \in Calls
        /\ UNCHANGED <<cwd, rename_path, left, reply>>
    BY <2>1 DEF Goto, Calls
  <2> HIDE DEF History, Stage, Removing, Handled, Listed, Renamed, RmDone
  <2>. QED
    BY <2>2, <2>3, <2>4, <2>5, <2>6, <2>7, <2>8, GoesOn
<1>. QED
  BY <1>2, <1>3

LEMMA RmDirPreserves == ASSUME IInv, NEW s \in Sessions, RmDir(s),
           NEW refusal \in BOOLEAN, History(s, refusal) PROVE IInv'
<1>1. /\ pc[s] = "next" /\ Stage(pc[s], job[s]) /\ job[s].stack \in Seq(Frame)
      /\ Path(s) \in PathType /\ handles[s] \in Nat /\ disturbed[s] \in Nat
      /\ fs \in [Nodes -> Node] /\ WellFormed(fs)
      /\ Handled(job[s], handles[s], disturbed[s])
  BY TypeFacts DEF RmDir, At
<1>2. Cmd(s) \in {"DELE", "RMD"}
  BY <1>1 DEF Stage, Cmd, RmDir
<1>3. /\ FramesInv(Path(s), job[s].stack) /\ job[s].stack # <<>>
      /\ Top(s).path \in PathType /\ Top(s).path # <<>>
  BY <1>1, <1>2, RemovalFacts
<1>4. fs' \in [Nodes -> Node] /\ WellFormed(fs')
  <2>1. fs' = Rmdir(fs, Top(s).path)
    BY DEF RmDir
  <2>. QED
    BY <1>1, <1>3, <2>1, RmdirFacts
<1>5. UNCHANGED <<cwd, rename_path, left>>
  BY DEF RmDir
<1>6. CASE RmFail(s)
  <2> HIDE DEF History, RmFail, RmDir
  <2>. QED
    BY <1>4, <1>5, <1>6, RmFailPreserves
<1>7. CASE RmDone(s, Tail(job[s].stack)) /\ handles' = [handles EXCEPT ![s] = @ - 1]
  <2> DEFINE stack == Tail(job[s].stack)
             h == handles[s] - 1
  <2>1. /\ Len(job[s].stack) \in Nat \ {0} /\ stack \in Seq(Frame)
        /\ Len(stack) = Len(job[s].stack) - 1
        /\ \A i \in 1 .. Len(stack) : stack[i] = job[s].stack[i + 1]
    BY <1>1, <1>3, HeadTailProperties, LenProperties
  <2>2. handles' = [handles EXCEPT ![s] = h]
    BY <1>7
  <2> HIDE DEF stack
  <2>3. h \in Nat /\ Len(stack) <= h /\ h <= disturbed[s] + Len(stack)
    <3>1. /\ Len(job[s].stack) <= handles[s]
          /\ handles[s] <= disturbed[s] + Len(job[s].stack)
      BY <1>1 DEF Handled
    <3>2. Len(stack) = Len(job[s].stack) - 1 /\ Len(job[s].stack) \in Nat \ {0}
      BY <2>1
    <3>3. handles[s] \in Nat /\ disturbed[s] \in Nat
      BY <1>1
    <3> HIDE DEF h
    <3>4. ASSUME NEW l \in Nat \ {0}, NEW a \in Nat, NEW o \in Nat, l <= a, a <= o + l
          PROVE  a - 1 \in Nat /\ l - 1 <= a - 1 /\ a - 1 <= o + (l - 1)
      BY <3>4
    <3>5. /\ handles[s] - 1 \in Nat
          /\ Len(job[s].stack) - 1 <= handles[s] - 1
          /\ handles[s] - 1 <= disturbed[s] + (Len(job[s].stack) - 1)
      BY <3>1, <3>2, <3>3, <3>4
    <3>. QED
      BY <3>2, <3>5 DEF h
  <2> HIDE DEF h
  <2>4. FramesInv(Path(s), stack)
    <3>1. ASSUME NEW i \in 1 .. Len(stack)
          PROVE  Below(stack[i].path, Path(s)) /\ stack[i].todo \cap Dots = {}
      <4>1. i + 1 \in 1 .. Len(job[s].stack)
        BY <2>1
      <4>. QED
        BY <1>3, <2>1, <4>1 DEF FramesInv
    <3>. QED
      BY <3>1 DEF FramesInv
  <2>5. RmDone(s, stack)
    BY <1>7 DEF stack
  <2> HIDE DEF History, RmDone, RmDir
  <2>. QED
    BY <1>2, <1>4, <1>5, <2>1, <2>2, <2>3, <2>4, <2>5, RmDonePreserves
<1>. QED
  <2> HIDE DEF RmFail, RmDone
  <2>. QED
    BY <1>6, <1>7 DEF RmDir

LEMMA RmFilePreserves == ASSUME IInv, NEW s \in Sessions, RmFile(s),
           NEW refusal \in BOOLEAN, History(s, refusal) PROVE IInv'
<1>1. /\ pc[s] = "unlink" /\ Stage(pc[s], job[s]) /\ job[s].stack \in Seq(Frame)
      /\ Path(s) \in PathType /\ handles[s] \in Nat /\ disturbed[s] \in Nat
      /\ fs \in [Nodes -> Node] /\ WellFormed(fs) /\ job[s].at \in PathType
      /\ Handled(job[s], handles[s], disturbed[s])
  BY TypeFacts DEF RmFile, At
<1>2. Cmd(s) \in {"DELE", "RMD"}
  BY <1>1 DEF Stage, Cmd
<1>3. FramesInv(Path(s), job[s].stack)
  BY <1>2, RemovalFacts
<1>4. fs' \in [Nodes -> Node] /\ WellFormed(fs')
  <2>1. fs' = Unlink(fs, job[s].at)
    BY DEF RmFile
  <2>. QED
    BY <1>1, <2>1, UnlinkFacts
<1>5. UNCHANGED <<cwd, rename_path, left>>
  BY DEF RmFile
<1>6. CASE RmFail(s)
  <2> HIDE DEF History, RmFail, RmFile
  <2>. QED
    BY <1>4, <1>5, <1>6, RmFailPreserves
<1>7. CASE RmDone(s, job[s].stack) /\ UNCHANGED handles
  <2>1. handles' = [handles EXCEPT ![s] = handles[s]]
    BY <1>7, SameHandles
  <2>2. Len(job[s].stack) <= handles[s] /\ handles[s] <= disturbed[s] + Len(job[s].stack)
    BY <1>1 DEF Handled
  <2> HIDE DEF History, RmDone, RmFile
  <2>. QED
    BY <1>1, <1>2, <1>3, <1>4, <1>5, <1>7, <2>1, <2>2, RmDonePreserves
<1>. QED
  <2> HIDE DEF RmFail, RmDone
  <2>. QED
    BY <1>6, <1>7 DEF RmFile

-----------------------------------------------------------------------------
(* for_each_in_dir.                                                        *)

\* Where the reading of a directory for LIST is.
LEMMA ListingFacts ==
    ASSUME IInv, NEW s \in Sessions, pc[s] = "next", Cmd(s) = "LIST"
    PROVE  /\ Len(job[s].stack) = 1 /\ job[s].stack # <<>>
           /\ Top(s) = job[s].stack[1] /\ Top(s) \in Frame
           /\ Top(s).path \in PathType /\ Top(s).todo \subseteq PathComponents
           /\ handles[s] \in Nat /\ disturbed[s] \in Nat
           /\ 1 <= handles[s] /\ handles[s] <= disturbed[s] + 1
           /\ alone[s] =>
                 /\ Top(s).dir = Stat(fs, Top(s).path) /\ IsDir(fs, Top(s).dir)
                 /\ Top(s).todo \subseteq Entries(fs, Top(s).dir)
<1>1. /\ job[s].stack \in Seq(Frame) /\ Stage(pc[s], job[s])
      /\ handles[s] \in Nat /\ disturbed[s] \in Nat
      /\ Handled(job[s], handles[s], disturbed[s])
      /\ alone[s] => Listed(fs, pc[s], job[s])
  BY TypeFacts
<1>2. Len(job[s].stack) = 1 /\ job[s].stack # <<>>
  BY <1>1 DEF Stage, Cmd
<1>3. 1 \in 1 .. Len(job[s].stack)
  BY <1>2
<1>4. Top(s) = job[s].stack[1] /\ Top(s) \in Frame
  BY <1>1, <1>2, <1>3, ElementType DEF Top
<1>5. Top(s).path \in PathType /\ Top(s).todo \subseteq PathComponents
  BY <1>4 DEF Frame, PathType
<1>6. 1 <= handles[s] /\ handles[s] <= disturbed[s] + 1
  BY <1>1, <1>2 DEF Handled
<1>7. alone[s] =>
         /\ Top(s).dir = Stat(fs, Top(s).path) /\ IsDir(fs, Top(s).dir)
         /\ Top(s).todo \subseteq Entries(fs, Top(s).dir)
  BY <1>1, <1>4 DEF Listed, Cmd
<1>. QED
  BY <1>1, <1>2, <1>4, <1>5, <1>6, <1>7

LEMMA ListEntryPreserves ==
    ASSUME IInv, NEW s \in Sessions, ListEntry(s),
           NEW refusal \in BOOLEAN, History(s, refusal) PROVE IInv'
<1>1. /\ pc[s] = "next" /\ Cmd(s) = "LIST" /\ Stage(pc[s], job[s]) /\ job[s] \in Job
      /\ job[s].stack \in Seq(Frame) /\ fs \in [Nodes -> Node]
  BY TypeFacts DEF ListEntry, At
<1>2. /\ Len(job[s].stack) = 1 /\ job[s].stack # <<>>
      /\ Top(s) = job[s].stack[1] /\ Top(s) \in Frame
      /\ Top(s).path \in PathType /\ Top(s).todo \subseteq PathComponents
      /\ handles[s] \in Nat /\ disturbed[s] \in Nat
      /\ 1 <= handles[s] /\ handles[s] <= disturbed[s] + 1
      /\ alone[s] =>
            /\ Top(s).dir = Stat(fs, Top(s).path) /\ IsDir(fs, Top(s).dir)
            /\ Top(s).todo \subseteq Entries(fs, Top(s).dir)
  BY <1>1, ListingFacts
<1>3. PICK x \in Top(s).todo :
         IF LStat(fs, Append(Top(s).path, x)) = None THEN End(s, "451")
         ELSE /\ job' = [job EXCEPT ![s].stack[1].todo = @ \ {x}]
              /\ UNCHANGED <<pc, reply>>
  BY DEF ListEntry
<1>4. Aside /\ UNCHANGED handles
  BY DEF ListEntry, Aside
<1>5. /\ fs' = fs /\ fs' \in [Nodes -> Node] /\ WellFormed(fs')
      /\ cwd' \in [Sessions -> PathType] /\ rename_path' \in [Sessions -> PathType]
      /\ UNCHANGED left /\ UNCHANGED <<cwd, rename_path, left>>
      /\ handles' = [handles EXCEPT ![s] = handles[s]]
  BY <1>4, AsideFacts, SameHandles DEF Aside
<1>6. CASE LStat(fs, Append(Top(s).path, x)) = None
  <2>1. End(s, "451") /\ "451" \in Replies
    BY <1>3, <1>6 DEF Replies
  <2>2. ~alone[s]
    <3>1. SUFFICES ASSUME alone[s] PROVE FALSE
      OBVIOUS
    <3>2. x \in PathComponents /\ x \in Entries(fs, Stat(fs, Top(s).path))
          /\ IsDir(fs, Stat(fs, Top(s).path))
      BY <1>2, <3>1
    <3>. QED
      BY <1>1, <1>2, <1>6, <3>2, EntryStat
  <2>3. handles[s] <= IF alone[s] /\ ~refusal THEN disturbed[s] ELSE disturbed[s] + 1
    BY <1>2, <2>2
  <2> HIDE DEF History, End, ListEntry
  <2>. QED
    BY <1>2, <1>5, <2>1, <2>3, EndPreserves
<1>7. CASE LStat(fs, Append(Top(s).path, x)) # None
  <2> DEFINE todo == Top(s).todo \ {x}
             stack == Left(job[s].stack, todo)
             j == Opened(job[s], stack)
  <2>1. job' = [job EXCEPT ![s].stack[1].todo = @ \ {x}] /\ UNCHANGED <<pc, reply>>
    BY <1>3, <1>7
  <2>2. job' = [job EXCEPT ![s] = j]
    <3>1. job' = [job EXCEPT ![s].stack[1].todo = todo]
      BY <1>2, <2>1
    <3> HIDE DEF todo
    <3>. QED
      BY <3>1, Zenon DEF Opened, Left
  <2>3. todo \in SUBSET PathComponents /\ todo \subseteq Top(s).todo
    BY <1>2
  <2> HIDE DEF todo
  <2>4. /\ stack \in Seq(Frame) /\ Len(stack) = 1
        /\ stack[1].path = job[s].stack[1].path /\ stack[1].dir = job[s].stack[1].dir
        /\ stack[1].todo = todo
    BY <1>1, <1>2, <2>3, TodoUpdate
  <2> HIDE DEF stack
  <2>5. j \in Job /\ j.cmd = job[s].cmd /\ j.path = job[s].path /\ j.stack = stack
    <3>1. <<>> \in PathType
      BY DEF PathType
    <3>. QED
      BY <1>1, <2>4, <3>1, JobUpdate
  <2> HIDE DEF j
  <2>6. j.cmd = "LIST" /\ stack # <<>>
    <3>1. j.cmd = "LIST"
      BY <1>1, <2>5 DEF Cmd
    <3>2. Len(stack) = 1 /\ Len(<<>>) = 0 /\ 1 # 0
      BY <2>4
    <3>3. stack # <<>>
      BY <3>2, Zenon
    <3>. QED
      BY <3>1, <3>3
  <2>7. Stage("next", j) /\ Removing("next", j) /\ Renamed(fs', "next", j)
    BY <2>4, <2>5, <2>6 DEF Stage, Removing, Renamed
  <2>8. Handled(j, handles[s], disturbed[s])
    BY <1>2, <2>4, <2>5 DEF Handled
  <2>9. alone[s] => Listed(fs', "next", j)
    BY <1>2, <1>5, <2>3, <2>4, <2>5 DEF Listed
  <2>10. pc' = [pc EXCEPT ![s] = "next"] /\ "next" \in Calls
         /\ UNCHANGED <<cwd, rename_path, left, reply>>
    BY <1>1, <1>5, <2>1 DEF Calls, IInv, TypeOK
  <2> HIDE DEF History, Stage, Removing, Handled, Listed, Renamed, ListEntry
  <2>. QED
    BY <1>2, <1>5, <2>2, <2>5, <2>7, <2>8, <2>9, <2>10, GoesOn
<1>. QED
  BY <1>6, <1>7

LEMMA ListEndPreserves == ASSUME IInv, NEW s \in Sessions, ListEnd(s),
           NEW refusal \in BOOLEAN, History(s, refusal) PROVE IInv'
<1>1. pc[s] = "next" /\ Cmd(s) = "LIST"
  BY DEF ListEnd, At
<1>2. /\ handles[s] \in Nat /\ disturbed[s] \in Nat
      /\ 1 <= handles[s] /\ handles[s] <= disturbed[s] + 1
  BY <1>1, ListingFacts
<1> DEFINE h == handles[s] - 1
<1>3. h \in Nat /\ h <= disturbed[s] /\ h <= disturbed[s] + 1
  BY <1>2
<1>4. handles' = [handles EXCEPT ![s] = h] /\ End(s, "queued") /\ Aside
  BY DEF ListEnd, Aside
<1> HIDE DEF h
<1>5. h <= IF alone[s] /\ ~refusal THEN disturbed[s] ELSE disturbed[s] + 1
  BY <1>3
<1>6. "queued" \in Replies
  BY DEF Replies
<1>7. /\ fs' \in [Nodes -> Node] /\ WellFormed(fs')
      /\ cwd' \in [Sessions -> PathType] /\ rename_path' \in [Sessions -> PathType]
      /\ UNCHANGED left
  BY <1>4, AsideFacts
<1> HIDE DEF History, End, ListEnd
<1>. QED
  BY <1>3, <1>4, <1>5, <1>6, <1>7, EndPreserves

\* A call is refused: the handler returns with nothing open, or goes on.
LEMMA RefusePreserves ==
    ASSUME IInv, NEW s \in Sessions, Refuse(s), History(s, TRUE)
    PROVE  IInv'
<1>1. /\ pc[s] \in Calls \cup {"idle"} /\ Stage(pc[s], job[s]) /\ job[s] \in Job
      /\ handles[s] \in Nat /\ disturbed[s] \in Nat
      /\ Handled(job[s], handles[s], disturbed[s]) /\ Removing(pc[s], job[s])
      /\ pc[s] \in {"test dir", "test file", "make_dir", "mkdir", "mv", "rm", "opendir",
                    "readdir", "next", "unlink", "idle"}
  BY TypeFacts DEF Calls
<1>2. TRUE \in BOOLEAN /\ FALSE \in BOOLEAN /\ {"550", "250", "451"} \subseteq Replies
  BY DEF Replies
<1>3. CASE TestDir(s, FALSE)
  <2> HIDE DEF History, TestDir
  <2>. QED
    BY <1>2, <1>3, TestDirPreserves
<1>4. CASE TestFile(s, FALSE)
  <2> HIDE DEF History, TestFile
  <2>. QED
    BY <1>2, <1>4, TestFilePreserves
<1>5. CASE MakeDir(s, FALSE)
  <2> HIDE DEF History, MakeDir
  <2>. QED
    BY <1>2, <1>5, MakeDirPreserves
<1>6. ASSUME Aside
      PROVE  /\ fs' \in [Nodes -> Node] /\ WellFormed(fs') /\ UNCHANGED left
             /\ cwd' \in [Sessions -> PathType] /\ rename_path' \in [Sessions -> PathType]
  BY <1>6, AsideFacts
<1>7. ASSUME Aside, UNCHANGED handles, job[s].stack = <<>>, NEW r \in Replies, End(s, r)
      PROVE  IInv'
  <2> HIDE DEF History, End, Aside
  <2>. QED
    BY <1>2, <1>6, <1>7, EndNothingOpen
<1>8. CASE At(s, "mkdir") /\ End(s, "550") /\ Aside /\ UNCHANGED handles
  <2>1. job[s].stack = <<>>
    BY <1>1, <1>8 DEF Stage, At
  <2> HIDE DEF End, Aside
  <2>. QED
    BY <1>2, <1>7, <1>8, <2>1
<1>9. CASE At(s, "mv") /\ End(s, "250") /\ Aside /\ UNCHANGED handles
  <2>1. job[s].stack = <<>>
    BY <1>1, <1>9 DEF Stage, At
  <2> HIDE DEF End, Aside
  <2>. QED
    BY <1>2, <1>7, <1>9, <2>1
<1>10. CASE Cmd(s) = "LIST" /\ End(s, "451") /\ Aside /\ UNCHANGED handles
            /\ pc[s] \in {"opendir", "next"}
  <2>1. handles[s] <= disturbed[s] + 1
    <3>1. Len(job[s].stack) \in {0, 1}
      BY <1>1, <1>10 DEF Stage, Cmd
    <3>2. handles[s] <= disturbed[s] + Len(job[s].stack)
      BY <1>1 DEF Handled
    <3>3. ASSUME NEW n \in {0, 1}, NEW h \in Nat, NEW d \in Nat, h <= d + n PROVE h <= d + 1
      BY <3>3
    <3>. QED
      BY <1>1, <3>1, <3>2, <3>3
  <2>2. handles[s] <= IF alone[s] /\ ~TRUE THEN disturbed[s] ELSE disturbed[s] + 1
    BY <2>1
  <2>3. handles' = [handles EXCEPT ![s] = handles[s]]
    BY <1>10, SameHandles
  <2> HIDE DEF History, End, Aside
  <2>. QED
    BY <1>1, <1>2, <1>6, <1>10, <2>2, <2>3, EndPreserves
<1>11. CASE At(s, "readdir") /\ Goto(s, "next") /\ UNCHANGED <<job, reply>>
            /\ Aside /\ UNCHANGED handles
  <2>1. Stage("next", job[s])
    BY <1>1, <1>11 DEF Stage, At
  <2>2. Removing("next", job[s])
    BY <1>1, <1>11 DEF Removing, At
  <2>3. /\ pc' = [pc EXCEPT ![s] = "next"] /\ job' = [job EXCEPT ![s] = job[s]]
        /\ handles' = [handles EXCEPT ![s] = handles[s]]
        /\ UNCHANGED <<cwd, rename_path, left, reply>>
    BY <1>11, SameHandles DEF IInv, TypeOK, Goto, Aside
  <2>4. "next" \in Calls
    BY DEF Calls
  <2>5. fs' \in [Nodes -> Node] /\ WellFormed(fs')
    BY <1>6, <1>11
  <2> HIDE DEF History, Stage, Removing, Handled, Listed, Renamed, Aside
  <2>. QED
    BY <1>1, <1>2, <2>1, <2>2, <2>3, <2>4, <2>5, GoesOn
<1>12. CASE RmFail(s) /\ Aside /\ Cmd(s) # "LIST" /\ pc[s] \in {"rm", "opendir", "next", "unlink"}
  <2>1. UNCHANGED <<cwd, rename_path, left>>
    BY <1>12 DEF Aside
  <2> HIDE DEF History, RmFail, Aside
  <2>. QED
    BY <1>2, <1>6, <1>12, <2>1, RmFailPreserves
<1>. QED
  BY <1>3, <1>4, <1>5, <1>8, <1>9, <1>10, <1>11, <1>12 DEF Refuse, Aside, At

-----------------------------------------------------------------------------
(* The theorems.                                                           *)

LEMMA InitIInv == Init => IInv
<1> SUFFICES ASSUME Init PROVE IInv
  OBVIOUS
<1>1. /\ fs \in [Nodes -> Node] /\ WellFormed(fs) /\ Home \in Seq(PathComponents)
      /\ MaxCmds \in [Sessions -> Nat]
  BY OneTree, CommandAssumption DEF Init
<1>2. /\ NoJob \in Job /\ NoJob.cmd = "none" /\ NoJob.stack = <<>> /\ Len(NoJob.stack) = 0
  BY NoJobFacts
<1>3. TypeOK
  <2>1. <<>> \in Seq(PathComponents)
    OBVIOUS
  <2> HIDE DEF NoJob, Job
  <2>. QED
    BY <1>1, <1>2, <2>1 DEF Init, TypeOK, At, Cmd
<1>4. ASSUME NEW s \in Sessions PROVE SessionInv(s)
  <2>1. /\ pc[s] = "idle" /\ job[s] = NoJob /\ handles[s] = 0 /\ disturbed[s] = 0
    BY DEF Init
  <2> HIDE DEF NoJob
  <2>2. Stage("idle", NoJob) /\ Removing("idle", NoJob)
        /\ Listed(fs, "idle", NoJob) /\ Renamed(fs, "idle", NoJob)
    BY <1>2 DEF Stage, Removing, Listed, Renamed
  <2>3. Handled(NoJob, 0, 0)
    BY <1>2 DEF Handled
  <2>4. Cmd(s) \notin {"DELE", "RMD"}
    BY <1>2, <2>1 DEF Cmd
  <2>. QED
    BY <2>1, <2>2, <2>3, <2>4 DEF SessionInv
<1>. QED
  BY <1>1, <1>3, <1>4 DEF IInv

\* The tests of a path answer yes or no.
LEMMA TestTypes == \A path : is_dir_exist(path) \in BOOLEAN /\ is_file_exist(path) \in BOOLEAN
  BY DEF is_dir_exist, is_file_exist, IsDir

LEMMA NextPreserves == ASSUME IInv, [Next]_vars PROVE IInv'
<1>1. CASE \E s \in Sessions : (Client(s) \/ Handler(s)) /\ History(s, FALSE)
  <2>1. PICK s \in Sessions : (Client(s) \/ Handler(s)) /\ History(s, FALSE)
    BY <1>1
  <2>2. FALSE \in BOOLEAN /\ is_dir_exist(Path(s)) \in BOOLEAN /\ is_file_exist(Path(s)) \in BOOLEAN
    BY TestTypes
  <2>3. CASE Client(s)
    <3> HIDE DEF History, Begin, Cdup
    <3>. QED
      BY <2>1, <2>2, <2>3, BeginPreserves, CdupPreserves DEF Client
  <2>4. CASE Handler(s)
    <3> HIDE DEF History, TestDir, TestFile, MakeDir
    <3>1. CASE TestDir(s, is_dir_exist(Path(s)))
      BY <2>1, <2>2, <3>1, TestDirPreserves
    <3>2. CASE TestFile(s, is_file_exist(Path(s)))
      BY <2>1, <2>2, <3>2, TestFilePreserves
    <3>3. CASE MakeDir(s, is_dir_exist(Path(s)))
      BY <2>1, <2>2, <3>3, MakeDirPreserves
    <3>4. CASE MkdirCall(s) \/ Rnto(s)
      BY <2>1, <2>2, <3>4, MkdirCallPreserves, RntoPreserves
    <3>5. CASE Rm(s) \/ OpenDir(s) \/ ReadDir(s) \/ RmEntry(s) \/ RmDir(s) \/ RmFile(s)
      BY <2>1, <2>2, <3>5, RmPreserves, OpenDirPreserves, ReadDirPreserves,
         RmEntryPreserves, RmDirPreserves, RmFilePreserves
    <3>6. CASE ListEntry(s) \/ ListEnd(s)
      BY <2>1, <2>2, <3>6, ListEntryPreserves, ListEndPreserves
    <3>. QED
      BY <2>4, <3>1, <3>2, <3>3, <3>4, <3>5, <3>6 DEF Handler
  <2>. QED
    BY <2>1, <2>3, <2>4
<1>2. CASE \E s \in Refused : Refuse(s) /\ History(s, TRUE)
  <2>1. Refused \subseteq Sessions
    BY CommandAssumption
  <2> HIDE DEF Refuse, History
  <2>. QED
    BY <1>2, <2>1, RefusePreserves
<1>3. CASE UNCHANGED vars
  BY <1>3 DEF vars, state, history, IInv, TypeOK, SessionInv, Cmd, Path, At
<1>. QED
  BY <1>1, <1>2, <1>3 DEF Next, Finished

LEMMA IInvHolds == Spec => []IInv
<1>1. Init => IInv
  BY InitIInv
<1>2. IInv /\ [Next]_vars => IInv'
  BY NextPreserves
<1>. QED
  BY <1>1, <1>2, PTL DEF Spec

\* The types of the handlers' state hold, and a directory that a handler
\* opened is closed when it replies, but for one handle at most of each
\* command that another session overtook or a call of which was refused: for
\* any number of sessions, any tree, any commands and refusals of any calls
\* (file_opr.cpp:65-73,82,257,262).
THEOREM CommandsInvariant == Spec => []Inv
<1>1. ASSUME IInv PROVE Inv
  <2>1. TypeOK
    BY <1>1 DEF IInv
  <2>2. ASSUME NEW s \in Sessions, At(s, "idle") PROVE handles[s] <= disturbed[s]
    <3>1. job[s].stack = <<>>
      BY <1>1, <2>2, TypeFacts DEF Stage, At
    <3>. QED
      BY <1>1, <3>1, NoHandles
  <2>. QED
    BY <2>1, <2>2 DEF Inv, HandlesAccounted
<1>. QED
  BY <1>1, IInvHolds, PTL

\* What a step of s takes from the tree.
LossOf(s, n) ==
    /\ Moves(s)
    /\ \/ n \in reach[s]
       \/ At(s, "mv") /\ (~alone[s] \/ BrokenLink(n, Path(s)) \/ ~AsMeant(s))

LEMMA RntoExplained ==
    ASSUME IInv, NEW s \in Sessions, Rnto(s), NEW n \in Live(fs) \ Live(fs')
    PROVE  LossOf(s, n)
<1>1. /\ pc[s] = "mv" /\ Stage(pc[s], job[s]) /\ TypeOK
      /\ fs \in [Nodes -> Node] /\ WellFormed(fs) /\ Path(s) \in PathType
      /\ rename_path[s] \in PathType
      /\ alone[s] => Renamed(fs, pc[s], job[s])
  BY TypeFacts DEF Rnto, At, IInv
<1>2. Path(s) # <<>> /\ Cmd(s) = "RNTO"
  BY <1>1 DEF Stage, Path, Cmd
<1>3. (AsMeant(s) => fs' = Mv(fs, rename_path[s], Path(s))) /\ pc' = [pc EXCEPT ![s] = "idle"]
  BY DEF Rnto, End, Goto
<1>4. Moves(s) /\ At(s, "mv")
  BY <1>1, <1>3 DEF Moves, At, TypeOK
<1>5. ASSUME alone[s], AsMeant(s) PROVE BrokenLink(n, Path(s))
  <2>1. Stat(fs, Path(s)) = None
    BY <1>1, <1>2, <1>5 DEF Renamed, Cmd, Path
  <2>2. n = LStat(fs, Path(s))
    BY <1>1, <1>2, <1>3, <1>5, <2>1, MvFacts
  <2>. QED
    BY <2>1, <2>2 DEF BrokenLink
<1>. QED
  BY <1>4, <1>5 DEF LossOf

LEMMA RmDirExplained ==
    ASSUME IInv, NEW s \in Sessions, RmDir(s), NEW n \in Live(fs) \ Live(fs')
    PROVE  LossOf(s, n)
<1>1. /\ pc[s] = "next" /\ Stage(pc[s], job[s]) /\ job[s].stack \in Seq(Frame)
      /\ Path(s) \in PathType /\ fs \in [Nodes -> Node] /\ WellFormed(fs) /\ TypeOK
      /\ Cmd(s) \in {"DELE", "RMD"} => Reach(fs, Path(s)) \subseteq reach[s]
  BY TypeFacts DEF RmDir, At, IInv
<1>2. Cmd(s) \in {"DELE", "RMD"}
  BY <1>1 DEF Stage, Cmd, RmDir
<1> DEFINE q == Top(s).path
<1>3. /\ Path(s) # <<>> /\ job[s].stack # <<>>
      /\ q \in PathType /\ q # <<>> /\ Below(q, Path(s))
  BY <1>1, <1>2, RemovalFacts
<1>4. fs' = Rmdir(fs, q) /\ fs' # fs
  BY DEF RmDir
<1> HIDE DEF q
<1>5. n = LStat(fs, q) /\ IsDir(fs, n) /\ n \in Nodes
  BY <1>1, <1>3, <1>4, RmdirFacts
<1>6. n \in reach[s]
  <2>1. n # None
    BY <1>5 DEF IsDir
  <2>. QED
    BY <1>1, <1>2, <1>3, <1>5, <2>1, ReachCovers
<1>7. RmDone(s, Tail(job[s].stack))
  BY <1>4 DEF RmDir, q
<1>8. Moves(s)
  <2> DEFINE stack == Tail(job[s].stack)
  <2>1. CASE stack = <<>>
    <3>1. pc' = [pc EXCEPT ![s] = "idle"]
      BY <1>7, <2>1 DEF RmDone, End, Goto
    <3>. QED
      BY <1>1, <3>1 DEF Moves, TypeOK
  <2>2. CASE stack # <<>>
    <3>1. job' = [job EXCEPT ![s].stack = stack]
      BY <1>7, <2>2 DEF RmDone
    <3>2. job[s] \in Job /\ job \in [Sessions -> Job]
      BY <1>1 DEF TypeOK
    <3>3. /\ Len(job[s].stack) \in Nat \ {0} /\ stack \in Seq(Frame)
          /\ Len(stack) = Len(job[s].stack) - 1
      BY <1>1, <1>3, HeadTailProperties, LenProperties
    <3> HIDE DEF stack
    <3>4. job'[s] = Opened(job[s], stack)
      BY <3>1, <3>2, Zenon DEF Opened
    <3>5. Opened(job[s], stack).stack = stack
      BY <3>2, <3>3, <1>3, JobUpdate
    <3>6. stack # job[s].stack
      BY <3>3
    <3>7. job'[s] # job[s]
      BY <3>4, <3>5, <3>6
    <3>. QED
      BY <3>7 DEF Moves
  <2>. QED
    BY <2>1, <2>2
<1>. QED
  BY <1>6, <1>8 DEF LossOf

LEMMA RmFileExplained ==
    ASSUME IInv, NEW s \in Sessions, RmFile(s), NEW n \in Live(fs) \ Live(fs')
    PROVE  LossOf(s, n)
<1>1. /\ pc[s] = "unlink" /\ Stage(pc[s], job[s]) /\ job[s].at \in PathType
      /\ Path(s) \in PathType /\ fs \in [Nodes -> Node] /\ WellFormed(fs) /\ TypeOK
      /\ Cmd(s) \in {"DELE", "RMD"} => Reach(fs, Path(s)) \subseteq reach[s]
  BY TypeFacts DEF RmFile, At, IInv
<1>2. Cmd(s) \in {"DELE", "RMD"}
  BY <1>1 DEF Stage, Cmd
<1>3. Path(s) # <<>> /\ Below(job[s].at, Path(s))
  BY <1>1, <1>2, RemovalFacts
<1>4. fs' = Unlink(fs, job[s].at) /\ fs' # fs
  BY DEF RmFile
<1>5. n = LStat(fs, job[s].at) /\ n # None
  BY <1>1, <1>4, UnlinkFacts
<1>6. n \in reach[s]
  BY <1>1, <1>2, <1>3, <1>5, ReachCovers
<1>7. RmDone(s, job[s].stack)
  BY <1>4 DEF RmFile
<1>8. pc' = [pc EXCEPT ![s] = "idle"] \/ pc' = [pc EXCEPT ![s] = "next"]
  BY <1>7 DEF RmDone, End, Goto
<1>9. Moves(s)
  BY <1>1, <1>8 DEF Moves, TypeOK
<1>. QED
  BY <1>6, <1>9 DEF LossOf

LEMMA StepExplained ==
    ASSUME IInv, NEW s \in Sessions, Client(s) \/ Handler(s),
           NEW n \in Live(fs) \ Live(fs')
    PROVE  LossOf(s, n)
<1>1. fs' # fs
  OBVIOUS
<1>2. ~Client(s)
  <2>1. ~Cdup(s)
    BY <1>1 DEF Cdup
  <2>2. \A cmd \in Commands, arg \in Args[s] : ~Begin(s, cmd, arg)
    BY <1>1 DEF Begin
  <2>. QED
    BY <2>1, <2>2 DEF Client
<1>3. (\A is : ~TestDir(s, is) /\ ~TestFile(s, is) /\ ~MakeDir(s, is))
      /\ ~Rm(s) /\ ~OpenDir(s) /\ ~ReadDir(s) /\ ~RmEntry(s) /\ ~ListEntry(s) /\ ~ListEnd(s)
  BY <1>1 DEF TestDir, TestFile, MakeDir, Rm, OpenDir, ReadDir, RmEntry, ListEntry, ListEnd
<1>4. ~MkdirCall(s)
  <2>1. SUFFICES ASSUME MkdirCall(s) PROVE FALSE
    OBVIOUS
  <2>2. /\ pc[s] = "mkdir" /\ Stage(pc[s], job[s])
        /\ fs \in [Nodes -> Node] /\ WellFormed(fs) /\ Path(s) \in PathType
    BY <2>1, TypeFacts DEF MkdirCall, At
  <2>3. Path(s) # <<>>
    BY <2>2 DEF Stage, Path
  <2>4. fs' = Mkdir(fs, Path(s))
    BY <2>1 DEF MkdirCall
  <2>. QED
    BY <2>2, <2>3, <2>4, MkdirFacts
<1>5. Rnto(s) \/ RmDir(s) \/ RmFile(s)
  BY <1>2, <1>3, <1>4 DEF Handler
<1>. QED
  BY <1>5, RntoExplained, RmDirExplained, RmFileExplained

\* Nothing is lost that nobody named, for any number of sessions, any tree,
\* any commands and refusals, and whatever a shell makes of a line that is
\* not literal: a file or directory disappears only by a DELE or RMD whose
\* path has led to it while the command ran, or under an RNTO, and then one
\* that another session overtook or a test of which was refused, one to the
\* place of a link that leads nowhere, or one that the shell takes apart
\* (file_opr.cpp:87-121,248-274, ftp_server.cpp:703-708).
THEOREM LossIsExplained == Spec => LossExplained
<1> DEFINE Explained == \A n \in Live(fs) \ Live(fs') : \E s \in Sessions :
               /\ Moves(s)
               /\ \/ n \in reach[s]
                  \/ /\ At(s, "mv")
                     /\ ~alone[s] \/ BrokenLink(n, Path(s)) \/ ~AsMeant(s)
<1>1. ASSUME IInv, [Next]_vars PROVE [Explained]_vars
  <2>1. CASE \E s \in Sessions : (Client(s) \/ Handler(s)) /\ History(s, FALSE)
    <3>1. PICK s \in Sessions : (Client(s) \/ Handler(s)) /\ History(s, FALSE)
      BY <2>1
    <3>2. \A n \in Live(fs) \ Live(fs') : LossOf(s, n)
      BY <1>1, <3>1, StepExplained
    <3>. QED
      BY <3>2 DEF LossOf
  <2>2. CASE \E s \in Refused : Refuse(s) /\ History(s, TRUE)
    <3>1. fs' = fs
      BY <2>2 DEF Refuse, TestDir, TestFile, MakeDir
    <3>. QED
      BY <3>1
  <2>3. CASE UNCHANGED vars
    BY <2>3
  <2>. QED
    BY <1>1, <2>1, <2>2, <2>3 DEF Next, Finished
<1>2. Spec => [][Explained]_vars
  BY <1>1, IInvHolds, PTL DEF Spec
<1>. QED
  BY <1>2 DEF LossExplained

-----------------------------------------------------------------------------
(* All of a tree is removed, or nothing: the invariant of a removal of a   *)
(* plain path that nobody disturbed.  The tree that is to go is what the   *)
(* path led to at the start, and rm has a frame for each directory on its  *)
(* way down; in each it still has to do what is there but for the entry it *)
(* is in.                                                                  *)

\* The node n is what the component x leads to from the directory d, without
\* a link and not up.
Onward(t, d, x, n) ==
    \/ x \in {"", "."} /\ n = d
    \/ x \in Names /\ n \in Children(t, d) /\ t[n].name = x

\* The path p leads to n down the tree, by the places f.
Trail(t, p, f) ==
    /\ f \in [0 .. Len(p) -> Nodes] /\ f[0] = Root
    /\ \A i \in 1 .. Len(p) : IsDir(t, f[i - 1]) /\ Onward(t, f[i - 1], p[i], f[i])
Leads(t, p, n) ==
    /\ p # <<>> /\ n \in Live(t) /\ t[n].kind # "link"
    /\ \E f : Trail(t, p, f) /\ f[Len(p)] = n

\* rmdir does not take the entries "." and "..".
Removable(p) == Last(Trimmed(p)) \notin Dots

\* R is the tree under the node top, what has gone of it included.
Doomed(t, R, top) ==
    /\ top \in R /\ R \subseteq Nodes \ {Root} /\ t[top].up \notin R
    /\ \A n \in R : t[n].kind \in {"dir", "file", "gone"} /\ Children(t, n) \subseteq R
    /\ \A S \in SUBSET Nodes :
          top \in S /\ (\A n \in R : t[n].up \in S => n \in S) => R \subseteq S

\* The directories that rm has open, from the innermost: each holds what rm
\* is at, busy or the next one in, and what rm has still to do there.
Frames(t, R, path, stack, busy) ==
    \A i \in 1 .. Len(stack) :
        LET d == stack[i].dir
            under == IF i = 1 THEN busy ELSE {stack[i - 1].dir}
        IN /\ Leads(t, stack[i].path, d) /\ Removable(stack[i].path)
           /\ d \in R /\ IsDir(t, d)
           /\ \A k \in 1 .. Len(stack) : stack[k].dir = d => k = i
           /\ under \subseteq Children(t, d)
           /\ stack[i].todo = {t[n].name : n \in Children(t, d) \ under}
           /\ i = Len(stack) => stack[i].path = path

\* A call of rm on the path at, which leads to the node m.
Called(t, R, path, stack, at, m) ==
    /\ Leads(t, at, m) /\ Removable(at) /\ m \in R
    /\ \A k \in 1 .. Len(stack) : stack[k].dir # m
    /\ stack = <<>> => at = path
    /\ Frames(t, R, path, stack, {m})

\* Where the removal of a plain path has come.
Progress(t, R, p, j) ==
    /\ p \in {"test dir", "test file", "rm"} => R = Reach(t, j.path) /\ Plain(t, j.path)
    /\ p \in {"opendir", "unlink", "readdir", "next"} =>
          Leads(t, j.path, LStat(t, j.path)) /\ Doomed(t, R, LStat(t, j.path))
    /\ p \in {"opendir", "unlink"} =>
          /\ Called(t, R, j.path, j.stack, j.at, LStat(t, j.at))
          /\ IsDir(t, LStat(t, j.at)) <=> p = "opendir"
    /\ p = "readdir" =>
          /\ Called(t, R, j.path, Tail(j.stack), j.stack[1].path, j.stack[1].dir)
          /\ IsDir(t, j.stack[1].dir)
    /\ p = "next" => Frames(t, R, j.path, j.stack, {})

RemovalInv(s) ==
    /\ Cmd(s) \notin {"DELE", "RMD"} => reach[s] = {} /\ ~plain[s]
    /\ plain[s] => Progress(fs, reach[s], pc[s], job[s])

-----------------------------------------------------------------------------
(* Paths that lead down the tree.                                          *)

LEMMA NoChildren ==
    ASSUME NEW t \in [Nodes -> Node], WellFormed(t), NEW n \in Nodes, ~IsDir(t, n)
    PROVE  Children(t, n) = {}
<1>1. ASSUME NEW m \in Children(t, n) PROVE FALSE
  <2>1. m \in Live(t) /\ t[m].up = n
    BY LiveFacts
  <2>. QED
    BY <2>1 DEF WellFormed
<1>. QED
  BY <1>1

\* The entry of a name is the one node that has it.
LEMMA EntryOf ==
    ASSUME NEW t \in [Nodes -> Node], WellFormed(t), NEW d, NEW n \in Children(t, d)
    PROVE  Entry(t, d, t[n].name) = n
<1> DEFINE x == t[n].name
           e == Entry(t, d, x)
<1>1. n \in Live(t) /\ n # Root /\ t[n].up = d
  BY LiveFacts
<1>2. e # None
  BY TreeEntry
<1>3. e \in Children(t, d) /\ t[e].name = x
  BY <1>2, TreeEntry
<1> HIDE DEF e
<1>4. e = n
  BY <1>1, <1>3 DEF WellFormed, Named
<1>. QED
  BY <1>4 DEF e

LEMMA OnwardComponent ==
    ASSUME NEW t \in [Nodes -> Node], WellFormed(t), NEW d \in Nodes, IsDir(t, d),
           NEW x, NEW n, Onward(t, d, x, n)
    PROVE  Component(t, [at |-> d, links |-> 0], x) = [at |-> n, links |-> 0]
<1> DEFINE w == [at |-> d, links |-> 0]
<1>1. w.at = d /\ w.links = 0
  OBVIOUS
<1>2. t[d].kind = "dir" /\ d # None
  BY DEF IsDir
<1>3. Follow(t, w) = w
  <2> HIDE DEF w
  <2>. QED
    BY <1>1, <1>2 DEF Follow
<1>4. Component(t, w, x) = [at |-> Step(t, d, x), links |-> 0]
  <2>1. Component(t, w, x) = [at |-> Step(t, w.at, x), links |-> w.links]
    <3> HIDE DEF w
    <3>. QED
      BY <1>3, Zenon DEF Component, Step
  <2>. QED
    BY <1>1, <2>1
<1>5. Step(t, d, x) = n
  <2>1. CASE x \in {"", "."} /\ n = d
    BY <2>1 DEF Step
  <2>2. CASE x \in Names /\ n \in Children(t, d) /\ t[n].name = x
    <3>1. x \notin {"", ".", ".."}
      BY <2>2, NodeFacts
    <3>2. Entry(t, d, x) = n
      BY <2>2, EntryOf
    <3>. QED
      BY <3>1, <3>2 DEF Step
  <2>. QED
    BY <2>1, <2>2 DEF Onward
<1>. QED
  BY <1>4, <1>5

\* A path leads to where its trail ends.
LEMMA LeadsStat ==
    ASSUME NEW t \in [Nodes -> Node], WellFormed(t), NEW p \in PathType, NEW n,
           Leads(t, p, n)
    PROVE  /\ LStat(t, p) = n /\ Stat(t, p) = n
           /\ n \in Live(t) /\ n \in Nodes /\ n # None
<1>1. PICK f : Trail(t, p, f) /\ f[Len(p)] = n
  BY DEF Leads
<1>2. PICK g : IsWalk(t, p, g) /\ Walk(t, p) = g[Len(p)]
  BY WalkFacts
<1>3. p # <<>> /\ n \in Live(t) /\ t[n].kind # "link" /\ n \in Nodes /\ n # None
  BY LiveFacts, NodeFacts DEF Leads
<1>4. Len(p) \in Nat /\ Len(p) \in 0 .. Len(p) /\ 0 \in 0 .. Len(p)
  BY DEF PathType
<1> DEFINE S == {i \in 0 .. Len(p) : g[i] = [at |-> f[i], links |-> 0]}
<1>5. 0 \in S
  BY <1>1, <1>2, <1>4 DEF Trail, IsWalk, Start
<1>6. ASSUME NEW i \in 0 + 1 .. Len(p), i - 1 \in S PROVE i \in S
  <2>1. i \in 1 .. Len(p) /\ i \in 0 .. Len(p) /\ i - 1 \in 0 .. Len(p)
    BY <1>4
  <2>2. /\ f[i - 1] \in Nodes /\ IsDir(t, f[i - 1])
        /\ Onward(t, f[i - 1], p[i], f[i])
    BY <1>1, <2>1 DEF Trail
  <2>3. g[i] = Component(t, g[i - 1], p[i]) /\ g[i - 1] = [at |-> f[i - 1], links |-> 0]
    BY <1>2, <1>6, <2>1 DEF IsWalk
  <2>4. g[i] = [at |-> f[i], links |-> 0]
    BY <2>2, <2>3, OnwardComponent
  <2>. QED
    BY <2>1, <2>4
<1> HIDE DEF S
<1>7. 0 .. Len(p) \subseteq S
  <2>1. 0 \in Nat
    OBVIOUS
  <2>. QED
    BY <1>4, <1>5, <1>6, <2>1, UpTo
<1>8. Walk(t, p) = [at |-> n, links |-> 0]
  BY <1>1, <1>2, <1>4, <1>7 DEF S
<1>9. Follow(t, Walk(t, p)) = Walk(t, p)
  BY <1>3, <1>8 DEF Follow
<1>. QED
  BY <1>3, <1>8, <1>9 DEF LStat, Stat

\* The path of a node in a directory.
LEMMA LeadsOn ==
    ASSUME NEW t \in [Nodes -> Node], WellFormed(t), NEW p \in PathType, NEW d,
           Leads(t, p, d), IsDir(t, d), NEW n \in Children(t, d), t[n].kind # "link"
    PROVE  Append(p, t[n].name) \in PathType /\ Leads(t, Append(p, t[n].name), n)
<1> DEFINE x == t[n].name
           q == Append(p, x)
           k == Len(p)
<1>1. n \in Live(t) /\ n # Root /\ n \in Nodes /\ x \in Names
  BY LiveFacts DEF WellFormed, Named
<1>2. /\ q \in PathType /\ q # <<>> /\ Len(q) = k + 1
      /\ \A i \in 1 .. k : q[i] = p[i]
      /\ q[k + 1] = x
  <2>1. x \in PathComponents
    BY <1>1 DEF PathComponents
  <2>. QED
    BY <2>1, AppendFacts DEF PathType
<1>3. PICK f : Trail(t, p, f) /\ f[k] = d
  BY DEF Leads
<1>4. k \in Nat
  BY DEF PathType
<1> DEFINE g == [i \in 0 .. Len(q) |-> IF i = k + 1 THEN n ELSE f[i]]
<1> HIDE DEF q, x, k
<1>5. \A i \in 0 .. k : i \in 0 .. Len(q) /\ g[i] = f[i] /\ f[i] \in Nodes
  BY <1>2, <1>3, <1>4 DEF Trail, k
<1>6. k + 1 \in 0 .. Len(q) /\ g[k + 1] = n
  BY <1>2, <1>4
<1>7. \A i \in 0 .. Len(q) : i = k + 1 \/ i \in 0 .. k
  BY <1>2, <1>4
<1>8. g \in [0 .. Len(q) -> Nodes] /\ g[0] = Root
  <2>1. \A i \in 0 .. Len(q) : g[i] \in Nodes
    BY <1>1, <1>5, <1>6, <1>7
  <2>2. 0 \in 0 .. k /\ f[0] = Root
    BY <1>3, <1>4 DEF Trail
  <2>3. g[0] = Root
    BY <1>5, <2>2
  <2>. QED
    BY <2>1, <2>3
<1> HIDE DEF g
<1>9. ASSUME NEW i \in 1 .. Len(q)
      PROVE  IsDir(t, g[i - 1]) /\ Onward(t, g[i - 1], q[i], g[i])
  <2>1. CASE i = k + 1
    <3>1. i - 1 = k /\ k \in 0 .. k
      BY <1>4, <2>1
    <3>2. g[i - 1] = d /\ g[i] = n /\ q[i] = x
      BY <1>2, <1>3, <1>5, <1>6, <2>1, <3>1
    <3>. QED
      BY <1>1, <3>2 DEF Onward, x
  <2>2. CASE i # k + 1
    <3>1. i \in 1 .. k /\ i \in 0 .. k /\ i - 1 \in 0 .. k
      BY <1>2, <1>4, <2>2
    <3>2. g[i - 1] = f[i - 1] /\ g[i] = f[i] /\ q[i] = p[i]
      BY <1>2, <1>5, <3>1
    <3>. QED
      BY <1>3, <3>1, <3>2 DEF Trail, k
  <2>. QED
    BY <2>1, <2>2
<1>10. Trail(t, q, g) /\ g[Len(q)] = n
  BY <1>2, <1>6, <1>8, <1>9 DEF Trail
<1>. QED
  BY <1>1, <1>2, <1>10 DEF Leads, q, x

\* When a node goes that holds nothing, the paths to the others stay.
LEMMA LeadsKept ==
    ASSUME NEW t \in [Nodes -> Node], WellFormed(t), NEW p \in PathType, NEW n,
           Leads(t, p, n), NEW m \in Nodes, m # n, Children(t, m) = {}
    PROVE  Leads(Without(t, m), p, n)
<1> DEFINE u == Without(t, m)
<1>1. PICK f : Trail(t, p, f) /\ f[Len(p)] = n
  BY DEF Leads
<1>2. Len(p) \in Nat /\ Len(p) \in 0 .. Len(p)
  BY DEF PathType
<1>3. ASSUME NEW k \in 0 .. Len(p) PROVE f[k] # m
  <2>1. SUFFICES ASSUME f[k] = m PROVE FALSE
    OBVIOUS
  <2> DEFINE S == {i \in k .. Len(p) : f[i] = m}
  <2>2. k \in Nat /\ k \in k .. Len(p) /\ Len(p) \in k .. Len(p)
    BY <1>2
  <2>3. k \in S
    BY <2>1, <2>2
  <2>4. ASSUME NEW i \in k + 1 .. Len(p), i - 1 \in S PROVE i \in S
    <3>1. i \in 1 .. Len(p) /\ i \in k .. Len(p)
      BY <1>2, <2>2
    <3>2. f[i - 1] = m /\ Onward(t, f[i - 1], p[i], f[i])
      BY <1>1, <2>4, <3>1 DEF Trail
    <3>3. f[i] = m
      BY <3>2 DEF Onward
    <3>. QED
      BY <3>1, <3>3
  <2> HIDE DEF S
  <2>5. k .. Len(p) \subseteq S
    BY <1>2, <2>2, <2>3, <2>4, UpTo
  <2>6. f[Len(p)] = m
    BY <2>2, <2>5 DEF S
  <2>. QED
    BY <1>1, <2>6
<1>4. /\ \A o \in Nodes : o # m => u[o] = t[o]
      /\ Live(u) = Live(t) \ {m}
  BY WithoutFacts
<1> HIDE DEF u
<1>5. p # <<>> /\ n \in Live(u) /\ u[n].kind # "link"
  BY <1>4, LiveFacts DEF Leads
<1>6. ASSUME NEW i \in 1 .. Len(p)
      PROVE  IsDir(u, f[i - 1]) /\ Onward(u, f[i - 1], p[i], f[i])
  <2>1. i \in 0 .. Len(p) /\ i - 1 \in 0 .. Len(p)
    BY <1>2
  <2>2. /\ f[i - 1] \in Nodes /\ f[i - 1] # m /\ f[i] \in Nodes /\ f[i] # m
        /\ IsDir(t, f[i - 1]) /\ Onward(t, f[i - 1], p[i], f[i])
    BY <1>1, <1>3, <2>1 DEF Trail
  <2>3. u[f[i - 1]] = t[f[i - 1]] /\ u[f[i]] = t[f[i]]
    BY <1>4, <2>2
  <2>4. f[i] \in Children(t, f[i - 1]) => f[i] \in Children(u, f[i - 1])
    BY <1>4, <2>2, <2>3, LiveFacts
  <2>. QED
    BY <2>2, <2>3, <2>4 DEF IsDir, Onward
<1>7. Trail(u, p, f)
  BY <1>1, <1>6 DEF Trail
<1>. QED
  BY <1>1, <1>5, <1>7 DEF Leads, u

LEMMA LeadsTrimmed ==
    ASSUME NEW t \in [Nodes -> Node], NEW p \in PathType, NEW n, Leads(t, p, n)
    PROVE  Leads(t, Trimmed(p), n)
<1> DEFINE q == Trimmed(p)
           k == Len(q)
<1>1. /\ p # <<>> /\ q \in PathType /\ q # <<>> /\ k \in Nat /\ k <= Len(p)
      /\ \A i \in 1 .. k : q[i] = p[i]
      /\ \A i \in k + 1 .. Len(p) : p[i] = ""
  BY TrimmedFacts DEF Leads
<1>2. PICK f : Trail(t, p, f) /\ f[Len(p)] = n
  BY DEF Leads
<1> HIDE DEF k, q
<1>3. Len(p) \in Nat /\ k \in Nat /\ k <= Len(p)
  <2>1. Len(p) \in Nat
    BY DEF PathType
  <2>. QED
    BY <1>1, <2>1
<1> DEFINE S == {i \in k .. Len(p) : f[i] = f[k]}
<1>4. k \in k .. Len(p) /\ Len(p) \in k .. Len(p) /\ k \in 0 .. Len(p)
  BY <1>3
<1>5. k \in S
  BY <1>4
<1>6. ASSUME NEW i \in k + 1 .. Len(p), i - 1 \in S PROVE i \in S
  <2>1. i \in 1 .. Len(p) /\ i \in k .. Len(p)
    BY <1>3
  <2>2. f[i - 1] = f[k] /\ Onward(t, f[i - 1], "", f[i])
    BY <1>1, <1>2, <1>6, <2>1 DEF Trail
  <2>3. f[i] = f[k]
    BY <2>2, NodeFacts DEF Onward
  <2>. QED
    BY <2>1, <2>3
<1> HIDE DEF S
<1>7. k .. Len(p) \subseteq S
  BY <1>1, <1>3, <1>5, <1>6, UpTo
<1>8. f[k] = n
  BY <1>2, <1>4, <1>7 DEF S
<1> DEFINE g == [i \in 0 .. k |-> f[i]]
<1>9. \A i \in 0 .. k : g[i] = f[i] /\ f[i] \in Nodes
  <2>1. \A i \in 0 .. k : i \in 0 .. Len(p)
    BY <1>3
  <2>. QED
    BY <1>2, <2>1 DEF Trail
<1>10. g \in [0 .. k -> Nodes] /\ g[0] = Root
  <2>1. 0 \in 0 .. k /\ f[0] = Root
    BY <1>2, <1>3 DEF Trail
  <2>. QED
    BY <1>9, <2>1
<1> HIDE DEF g
<1>11. ASSUME NEW i \in 1 .. k
       PROVE  IsDir(t, g[i - 1]) /\ Onward(t, g[i - 1], q[i], g[i])
  <2>1. i \in 1 .. Len(p) /\ i \in 0 .. k /\ i - 1 \in 0 .. k
    BY <1>3
  <2>. QED
    BY <1>1, <1>2, <1>9, <2>1 DEF Trail
<1>12. Len(q) = k
  BY DEF k
<1>13. Trail(t, q, g)
  BY <1>10, <1>11, <1>12 DEF Trail
<1>14. g[Len(q)] = n
  <2>1. k \in 0 .. k
    BY <1>3
  <2>. QED
    BY <1>8, <1>9, <1>12, <2>1
<1>15. Leads(t, q, n)
  BY <1>1, <1>13, <1>14 DEF Leads
<1>. QED
  BY <1>15 DEF q

\* What rmdir and unlink do at the end of such a path.
LEMMA RmdirLeads ==
    ASSUME NEW t \in [Nodes -> Node], WellFormed(t), NEW p \in PathType, NEW d,
           Leads(t, p, d), IsDir(t, d), d # Root, Children(t, d) = {}, Removable(p)
    PROVE  Rmdir(t, p) = Without(t, d)
<1>1. Trimmed(p) \in PathType /\ Leads(t, Trimmed(p), d)
  <2>1. Trimmed(p) \in PathType
    BY TrimmedFacts
  <2>. QED
    BY <2>1, LeadsTrimmed
<1>2. LStat(t, Trimmed(p)) = d
  BY <1>1, LeadsStat
<1>. QED
  BY <1>2 DEF Rmdir, Removable

LEMMA UnlinkLeads ==
    ASSUME NEW t \in [Nodes -> Node], WellFormed(t), NEW p \in PathType, NEW n,
           Leads(t, p, n), ~IsDir(t, n)
    PROVE  Unlink(t, p) = Without(t, n)
<1>1. LStat(t, p) = n /\ n # None
  BY LeadsStat
<1>. QED
  BY <1>1 DEF Unlink

LEMMA WithoutChanges ==
    ASSUME NEW t \in [Nodes -> Node], NEW n \in Live(t)
    PROVE  Without(t, n) # t
<1>1. n \in Nodes /\ t[n].kind # "gone"
  BY LiveFacts
<1>2. Without(t, n)[n].kind = "gone"
  BY <1>1, WithoutFacts
<1>. QED
  BY <1>1, <1>2

\* The path of an entry ends in its name.
LEMMA RemovableEntry ==
    ASSUME NEW p \in PathType, NEW x \in Names
    PROVE  Removable(Append(p, x))
<1> DEFINE q == Append(p, x)
           r == Trimmed(q)
<1>0. x \in PathComponents /\ x \notin {"", ".", ".."}
  BY NodeFacts DEF PathComponents
<1>1. q \in PathType /\ q # <<>> /\ Len(q) = Len(p) + 1 /\ q[Len(p) + 1] = x
  <2>1. x \in PathComponents /\ p \in Seq(PathComponents)
    BY <1>0 DEF PathType
  <2>. QED
    BY <2>1, AppendFacts DEF PathType
<1>2. Len(p) \in Nat /\ Len(q) \in Nat
  BY <1>1 DEF PathType
<1> HIDE DEF q
<1>3. /\ r \in PathType /\ r # <<>> /\ Len(r) \in Nat /\ Len(r) <= Len(q)
      /\ \A i \in 1 .. Len(r) : r[i] = q[i]
      /\ \A i \in Len(r) + 1 .. Len(q) : q[i] = ""
  BY <1>1, TrimmedFacts
<1> HIDE DEF r
<1>4. Len(r) = Len(q)
  <2>0. ASSUME NEW a \in Nat, NEW b \in Nat, a <= b PROVE a = b \/ b \in a + 1 .. b
    BY <2>0
  <2>1. SUFFICES ASSUME Len(q) \in Len(r) + 1 .. Len(q) PROVE FALSE
    BY <1>2, <1>3, <2>0
  <2>2. Len(q) \in Len(r) + 1 .. Len(q)
    BY <2>1
  <2>3. q[Len(q)] = ""
    BY <1>3, <2>2
  <2>. QED
    BY <1>0, <1>1, <2>3
<1>5. Last(r) = r[Len(r)]
  BY <1>3, FrontFacts DEF PathType
<1>6. r[Len(r)] = x
  <2>1. Len(r) \in 1 .. Len(r)
    BY <1>1, <1>2, <1>4
  <2>. QED
    BY <1>1, <1>3, <1>4, <2>1
<1>. QED
  BY <1>0, <1>5, <1>6 DEF Removable, r, q, Dots

\* A plain path leads down the tree.
LEMMA PlainLeads ==
    ASSUME NEW t \in [Nodes -> Node], WellFormed(t), NEW p \in PathType, p # <<>>,
           Plain(t, p), Stat(t, p) # None, LStat(t, p) \in Reach(t, p)
    PROVE  /\ Leads(t, p, LStat(t, p)) /\ Removable(p)
           /\ Stat(t, p) = LStat(t, p)
<1>1. PICK g : IsWalk(t, p, g) /\ Walk(t, p) = g[Len(p)]
  BY WalkFacts
<1>2. Len(p) \in Nat \ {0} /\ Len(p) \in 0 .. Len(p)
  <2>1. Len(p) \in Nat \ {0}
    BY FrontFacts DEF PathType
  <2>. QED
    BY <2>1
<1>3. /\ Stat(t, p) = Follow(t, g[Len(p)]).at /\ LStat(t, p) = g[Len(p)].at
      /\ Follow(t, g[Len(p)]).links = 0
  BY <1>1 DEF Stat, LStat, Plain
<1>4. \A i \in 0 .. Len(p) : g[i] \in Place
  BY <1>1 DEF IsWalk
\* Once a link has been followed, or the path has led to nothing, that stays.
<1> DEFINE Off(w) == w.at = None \/ w.links # 0
<1>5. ASSUME NEW w \in Place, Off(w)
      PROVE  Follow(t, w) \in Place /\ Off(Follow(t, w))
  <2>1. Follow(t, w) \in Place
    BY FollowType
  <2>2. CASE Follow(t, w) = w
    BY <1>5, <2>2
  <2>3. CASE Follow(t, w) # w
    <3>1. w.links \in Nat /\ w.at # None
      BY <2>3 DEF Place, Follow
    <3>2. w.links # 0
      BY <1>5, <3>1
    <3>3. Follow(t, w).links \in {w.links, w.links + 1}
      BY <2>3 DEF Follow
    <3>. QED
      BY <2>1, <3>1, <3>2, <3>3
  <2>. QED
    BY <2>2, <2>3, <2>1
<1>6. ASSUME NEW w \in Place, NEW x, Off(Follow(t, w))
      PROVE  Off(Component(t, w, x))
  <2> DEFINE d == Follow(t, w)
  <2>1. Component(t, w, x) = [at |-> Step(t, d.at, x), links |-> d.links]
    BY DEF Component, Step
  <2> HIDE DEF d
  <2>2. d.at = None => Step(t, d.at, x) = None
    BY DEF Step, IsDir
  <2>. QED
    BY <1>6, <2>1, <2>2 DEF d
<1>7. ~Off(g[Len(p)])
  <2>1. ~Off(Follow(t, g[Len(p)]))
    BY <1>3
  <2>. QED
    BY <1>2, <1>4, <1>5, <2>1
<1> HIDE DEF Off
<1>8. ASSUME NEW k \in 0 .. Len(p), Off(g[k]) PROVE FALSE
  <2> DEFINE S == {i \in k .. Len(p) : Off(g[i])}
  <2>1. k \in Nat /\ Len(p) \in Nat /\ k \in k .. Len(p) /\ Len(p) \in k .. Len(p)
    BY <1>2
  <2>2. k \in S
    BY <1>8, <2>1
  <2>3. ASSUME NEW i \in k + 1 .. Len(p), i - 1 \in S PROVE i \in S
    <3>1. i \in 1 .. Len(p) /\ i \in k .. Len(p) /\ i - 1 \in 0 .. Len(p)
      BY <2>1
    <3>2. g[i - 1] \in Place /\ Off(g[i - 1]) /\ g[i] = Component(t, g[i - 1], p[i])
      BY <1>1, <1>4, <2>3, <3>1 DEF IsWalk
    <3>3. Off(g[i])
      BY <1>5, <1>6, <3>2
    <3>. QED
      BY <3>1, <3>3
  <2> HIDE DEF S
  <2>4. k .. Len(p) \subseteq S
    BY <2>1, <2>2, <2>3, UpTo
  <2>5. Off(g[Len(p)])
    BY <2>1, <2>4 DEF S
  <2>. QED
    BY <1>7, <2>5
<1>9. ASSUME NEW i \in 1 .. Len(p)
      PROVE  IsDir(t, g[i - 1].at) /\ Onward(t, g[i - 1].at, p[i], g[i].at)
  <2> DEFINE w == g[i - 1]
             d == Follow(t, w)
  <2>1. i \in 0 .. Len(p) /\ i - 1 \in 0 .. Len(p)
    BY <1>2
  <2>2. w \in Place /\ g[i] = Component(t, w, p[i])
    BY <1>1, <1>4, <2>1 DEF IsWalk
  <2>3. ~Off(w) /\ ~Off(g[i])
    BY <1>8, <2>1
  <2> HIDE DEF w
  <2>4. ~Off(d)
    BY <1>6, <2>2, <2>3
  <2>5. d = w
    <3>1. CASE w.at = None \/ t[w.at].kind # "link"
      BY <3>1 DEF Follow
    <3>2. CASE ~(w.at = None \/ t[w.at].kind # "link")
      <4>1. w.links = 0 /\ d.links = 0 /\ d.at # None
        BY <2>3, <2>4 DEF Off
      <4>2. d.at = None \/ d.links = w.links + 1
        BY <3>2 DEF Follow
      <4>. QED
        BY <4>1, <4>2
    <3>. QED
      BY <3>1, <3>2
  <2>6. g[i].at = Step(t, w.at, p[i]) /\ g[i].at # None
    BY <2>2, <2>3, <2>5, ComponentFacts DEF Off
  <2>7. IsDir(t, w.at)
    BY <2>6 DEF Step
  <2>8. p[i] \in Names \cup {"", "."}
    <3>1. p[i] \in PathComponents
      BY ElementType DEF PathType
    <3>2. p[i] # ".."
      <4>1. i \in DOMAIN p
        BY DEF PathType
      <4>. QED
        BY <4>1 DEF Plain
    <3>. QED
      BY <3>1, <3>2 DEF PathComponents, Dots
  <2>9. CASE p[i] \in {"", "."}
    BY <2>6, <2>7, <2>9 DEF w, Step, Onward
  <2>10. CASE p[i] \in Names
    <3>1. g[i].at = Entry(t, w.at, p[i])
      BY <2>6, <2>7, <2>10, NodeFacts DEF Step
    <3>2. g[i].at \in Children(t, w.at) /\ t[g[i].at].name = p[i]
      BY <2>6, <3>1, TreeEntry
    <3>. QED
      BY <2>7, <2>10, <3>2 DEF w, Onward
  <2>. QED
    BY <2>8, <2>9, <2>10
<1> DEFINE f == [i \in 0 .. Len(p) |-> g[i].at]
<1>10. \A i \in 0 .. Len(p) : f[i] = g[i].at /\ f[i] \in Nodes
  <2>1. TAKE i \in 0 .. Len(p)
  <2>2. g[i] \in Place /\ g[i].at # None
    BY <1>4, <1>8 DEF Off
  <2>. QED
    BY <2>2 DEF Place
<1>11. f \in [0 .. Len(p) -> Nodes] /\ f[0] = Root
  <2>1. 0 \in 0 .. Len(p) /\ g[0].at = Root
    BY <1>1, <1>2 DEF IsWalk, Start
  <2>. QED
    BY <1>10, <2>1
<1> HIDE DEF f
<1>12. Trail(t, p, f)
  <2>1. ASSUME NEW i \in 1 .. Len(p)
        PROVE  IsDir(t, f[i - 1]) /\ Onward(t, f[i - 1], p[i], f[i])
    <3>1. i \in 0 .. Len(p) /\ i - 1 \in 0 .. Len(p)
      BY <1>2
    <3>. QED
      BY <1>9, <1>10, <3>1
  <2>. QED
    BY <1>11, <2>1 DEF Trail
<1>13. f[Len(p)] = LStat(t, p)
  BY <1>2, <1>3, <1>10
<1>14. LStat(t, p) \in Live(t) /\ t[LStat(t, p)].kind # "link"
  <2>1. LStat(t, p) # None
    BY <1>2, <1>3, <1>8 DEF Off
  <2>2. LStat(t, p) \in Live(t)
    BY <1>1, <1>3, <2>1, WalkLive
  <2>. QED
    BY <2>2 DEF Plain
<1>15. Leads(t, p, LStat(t, p))
  BY <1>12, <1>13, <1>14 DEF Leads
<1>16. Removable(p)
  <2> DEFINE r == Trimmed(p)
  <2>1. /\ r \in PathType /\ r # <<>> /\ Len(r) \in Nat /\ Len(r) <= Len(p)
        /\ \A i \in 1 .. Len(r) : r[i] = p[i]
    BY TrimmedFacts
  <2> HIDE DEF r
  <2>2. Last(r) = r[Len(r)] /\ Len(r) \in Nat \ {0}
    BY <2>1, FrontFacts DEF PathType
  <2>3. Len(r) \in 1 .. Len(r) /\ Len(r) \in 1 .. Len(p)
    BY <1>2, <2>1, <2>2
  <2>4. Last(r) = p[Len(r)] /\ Len(r) \in DOMAIN p
    BY <2>1, <2>2, <2>3 DEF PathType
  <2>. QED
    BY <2>4 DEF Plain, Removable, r, Dots
<1>. QED
  BY <1>15, <1>16, LeadsStat

-----------------------------------------------------------------------------
(* What is to be removed.                                                  *)

LEMMA ReachLive ==
    ASSUME NEW t \in [Nodes -> Node], WellFormed(t), NEW p \in PathType
    PROVE  Reach(t, p) \subseteq Live(t)
<1>1. {LStat(t, p), Stat(t, p)} \ {None} \subseteq Live(t)
  BY WalkLive DEF LStat, Stat
<1>2. Targets(t, Live(t)) \subseteq Live(t)
  BY TreeEntry DEF Targets
<1>3. UNION {Children(t, n) : n \in Live(t)} \subseteq Live(t)
  BY DEF Children
<1>4. Grown(t, Live(t)) \subseteq Live(t)
  BY <1>2, <1>3 DEF Grown
<1>. QED
  BY <1>1, <1>4, ReachFacts

\* A set that holds the children of its nodes, and no links, does not grow.
LEMMA GrownStays ==
    ASSUME NEW t, NEW R, \A n \in R : t[n].kind # "link" /\ Children(t, n) \subseteq R
    PROVE  Grown(t, R) \subseteq R
<1>1. Targets(t, R) = {}
  <2>1. {m \in R : t[m].kind = "link"} = {}
    OBVIOUS
  <2>. QED
    BY <2>1 DEF Targets
<1>2. UNION {Children(t, n) : n \in R} \subseteq R
  OBVIOUS
<1>. QED
  BY <1>1, <1>2 DEF Grown

LEMMA DoomedReach ==
    ASSUME NEW t \in [Nodes -> Node], WellFormed(t), NEW p \in PathType, NEW R, NEW top,
           Leads(t, p, top), Doomed(t, R, top)
    PROVE  Reach(t, p) \subseteq R
<1>1. {LStat(t, p), Stat(t, p)} \ {None} \subseteq R
  BY LeadsStat DEF Doomed
<1>2. \A n \in R : t[n].kind # "link" /\ Children(t, n) \subseteq R
  BY DEF Doomed
<1>3. Grown(t, R) \subseteq R
  BY <1>2, GrownStays
<1>. QED
  BY <1>1, <1>3, ReachFacts

\* All that a plain path leads to is what is below its node.
LEMMA PlainDoomed ==
    ASSUME NEW t \in [Nodes -> Node], WellFormed(t), NEW p \in PathType, p # <<>>,
           Plain(t, p), Stat(t, p) # None
    PROVE  /\ Leads(t, p, LStat(t, p)) /\ Removable(p)
           /\ Stat(t, p) = LStat(t, p)
           /\ Doomed(t, Reach(t, p), LStat(t, p))
<1> DEFINE R == Reach(t, p)
           top == LStat(t, p)
<1>1. /\ R \in SUBSET Nodes /\ Grown(t, R) = R
      /\ {LStat(t, p), Stat(t, p)} \ {None} \subseteq R
      /\ \A C : {LStat(t, p), Stat(t, p)} \ {None} \subseteq C /\ Grown(t, C) \subseteq C
                   => R \subseteq C
  BY ReachFacts
<1>2. LStat(t, p) # None
  <2>1. LStat(t, p) = Walk(t, p).at /\ Stat(t, p) = Follow(t, Walk(t, p)).at
    BY DEF LStat, Stat
  <2>. QED
    BY <2>1 DEF Follow
<1>3. Leads(t, p, top) /\ Removable(p) /\ Stat(t, p) = top /\ top \in R
  BY <1>1, <1>2, PlainLeads
<1>4. R \subseteq Live(t) /\ Root \notin R /\ \A n \in R : t[n].kind # "link"
  BY ReachLive DEF Plain
<1> HIDE DEF R, top
<1>5. \A n \in R : t[n].kind \in {"dir", "file", "gone"}
  BY <1>4, LiveFacts
<1>6. \A n \in R : Children(t, n) \subseteq R
  <2>1. UNION {Children(t, n) : n \in R} \subseteq R
    BY <1>1 DEF Grown
  <2>. QED
    BY <2>1
<1>7. ASSUME NEW S, top \in S, \A n \in R : t[n].up \in S => n \in S
      PROVE  R \subseteq S
  <2> DEFINE C == S \cap R
  <2>1. {LStat(t, p), Stat(t, p)} \ {None} \subseteq C
    BY <1>1, <1>3, <1>7 DEF top
  <2>2. ASSUME NEW n \in C PROVE t[n].kind # "link" /\ Children(t, n) \subseteq C
    <3>1. \A m \in Children(t, n) : m \in R /\ t[m].up = n
      BY <1>6, LiveFacts
    <3>. QED
      BY <1>4, <1>7, <3>1
  <2> HIDE DEF C
  <2>3. Grown(t, C) \subseteq C
    BY <2>2, GrownStays
  <2>4. R \subseteq C
    BY <1>1, <2>1, <2>3
  <2>. QED
    BY <2>4 DEF C
\* The trail enters R at its top, from a directory that is not in R.
<1>8. t[top].up \notin R
  <2>1. PICK f : Trail(t, p, f) /\ f[Len(p)] = top
    BY <1>3 DEF Leads
  <2> DEFINE S == {i \in 0 .. Len(p) : f[i] \in R => t[top].up \notin R}
  <2>2. Len(p) \in Nat /\ 0 \in Nat /\ 0 \in 0 .. Len(p) /\ Len(p) \in 0 .. Len(p)
    BY DEF PathType
  <2>3. 0 \in S
    BY <1>4, <2>1, <2>2 DEF Trail
  <2>4. ASSUME NEW i \in 0 + 1 .. Len(p), i - 1 \in S PROVE i \in S
    <3>1. i \in 1 .. Len(p) /\ i \in 0 .. Len(p)
      BY <2>2
    <3>2. Onward(t, f[i - 1], p[i], f[i]) /\ (f[i - 1] \in R => t[top].up \notin R)
      BY <2>1, <2>4, <3>1 DEF Trail
    <3>3. SUFFICES ASSUME f[i] \in R, f[i - 1] \notin R PROVE t[top].up \notin R
      BY <3>1, <3>2
    <3>4. f[i] \in Children(t, f[i - 1])
      BY <3>2, <3>3 DEF Onward
    <3>5. t[f[i]].up = f[i - 1]
      BY <3>4, LiveFacts
    <3> DEFINE U == {top} \cup {n \in R : t[n].up \in R}
    <3>6. top \in U /\ \A n \in R : t[n].up \in U => n \in U
      BY <1>3
    <3> HIDE DEF U
    <3>7. f[i] \in U
      BY <1>7, <3>3, <3>6
    <3>8. f[i] = top
      BY <3>3, <3>5, <3>7 DEF U
    <3>. QED
      BY <3>3, <3>5, <3>8
  <2> HIDE DEF S
  <2>5. 0 .. Len(p) \subseteq S
    BY <2>2, <2>3, <2>4, UpTo
  <2>. QED
    BY <1>3, <2>1, <2>2, <2>5 DEF S
<1>9. Doomed(t, R, top)
  BY <1>1, <1>3, <1>4, <1>5, <1>6, <1>7, <1>8 DEF Doomed
<1>. QED
  BY <1>3, <1>9 DEF R, top

LEMMA DoomedKept ==
    ASSUME NEW t \in [Nodes -> Node], NEW R, NEW top, Doomed(t, R, top), NEW m \in Nodes
    PROVE  Doomed(Without(t, m), R, top)
<1> DEFINE u == Without(t, m)
<1>1. /\ u[m].kind = "gone" /\ u[m].up = t[m].up
      /\ \A n \in Nodes : n # m => u[n] = t[n]
      /\ Live(u) = Live(t) \ {m}
  BY WithoutFacts
<1> HIDE DEF u
<1>2. R \subseteq Nodes \ {Root} /\ top \in R /\ top \in Nodes
  BY DEF Doomed
<1>3. \A n \in Nodes : u[n].up = t[n].up
  BY <1>1
<1>4. \A n \in R : u[n].kind \in {"dir", "file", "gone"}
  BY <1>1, <1>2 DEF Doomed
<1>5. ASSUME NEW n \in R PROVE Children(u, n) \subseteq R
  <2>1. ASSUME NEW c \in Children(u, n) PROVE c \in Children(t, n)
    <3>1. c \in Live(u) /\ c # Root /\ u[c].up = n
      BY LiveFacts
    <3>2. c \in Live(t) /\ c \in Nodes
      BY <1>1, <3>1, LiveFacts
    <3>. QED
      BY <1>3, <3>1, <3>2, LiveFacts
  <2>. QED
    BY <2>1 DEF Doomed
<1>6. u[top].up \notin R
  BY <1>2, <1>3 DEF Doomed
<1>7. \A S \in SUBSET Nodes :
         top \in S /\ (\A n \in R : u[n].up \in S => n \in S) => R \subseteq S
  <2>1. ASSUME NEW S \in SUBSET Nodes, top \in S, \A n \in R : u[n].up \in S => n \in S
        PROVE  R \subseteq S
    <3>1. \A n \in R : t[n].up \in S => n \in S
      BY <1>2, <1>3, <2>1
    <3>. QED
      BY <2>1, <3>1 DEF Doomed
  <2>. QED
    BY <2>1
<1>. QED
  BY <1>2, <1>4, <1>5, <1>6, <1>7 DEF Doomed, u

\* Once its top has gone, nothing of it is in the tree.
LEMMA DoomedGone ==
    ASSUME NEW t \in [Nodes -> Node], WellFormed(t), NEW R, NEW top, Doomed(t, R, top),
           top \notin Live(t)
    PROVE  R \cap Live(t) = {}
<1> DEFINE S == Nodes \ Live(t)
<1>1. R \subseteq Nodes /\ top \in R
  BY DEF Doomed
<1>2. \A n \in R : t[n].up \in S => n \in S
  <2>1. ASSUME NEW n \in R, n \in Live(t) PROVE t[n].up \in Live(t)
    <3>1. IsDir(t, t[n].up) /\ t[n].up \in Nodes
      BY <1>1, <2>1, NodeFacts DEF WellFormed
    <3>. QED
      BY <3>1, LiveDir
  <2>. QED
    BY <1>1, <2>1
<1>3. top \in S /\ S \in SUBSET Nodes
  BY <1>1
<1> HIDE DEF S
<1>4. R \subseteq S
  BY <1>2, <1>3 DEF Doomed
<1>. QED
  BY <1>4 DEF S

-----------------------------------------------------------------------------
(* The directories that rm has open.                                       *)

\* What Frames says of one of them.
FrameAt(t, R, path, stack, busy, i) ==
    LET d == stack[i].dir
        under == IF i = 1 THEN busy ELSE {stack[i - 1].dir}
    IN /\ Leads(t, stack[i].path, d) /\ Removable(stack[i].path)
       /\ d \in R /\ IsDir(t, d)
       /\ \A k \in 1 .. Len(stack) : stack[k].dir = d => k = i
       /\ under \subseteq Children(t, d)
       /\ stack[i].todo = {t[n].name : n \in Children(t, d) \ under}
       /\ i = Len(stack) => stack[i].path = path

LEMMA FramesAt ==
    ASSUME NEW t, NEW R, NEW path, NEW stack, NEW busy
    PROVE  Frames(t, R, path, stack, busy) <=>
               \A i \in 1 .. Len(stack) : FrameAt(t, R, path, stack, busy, i)
  BY DEF Frames, FrameAt

LEMMA FrameType ==
    ASSUME NEW stack \in Seq(Frame), NEW i \in 1 .. Len(stack)
    PROVE  /\ stack[i] \in Frame /\ stack[i].path \in PathType /\ stack[i].dir \in Nodes
           /\ stack[i].todo \in SUBSET PathComponents
<1>1. stack[i] \in Frame
  BY ElementType
<1>. QED
  BY <1>1 DEF Frame, PathType

\* The outermost directory is the one that is to be removed.
LEMMA FramesTop ==
    ASSUME NEW t \in [Nodes -> Node], WellFormed(t), NEW R, NEW path \in PathType,
           NEW stack \in Seq(Frame), stack # <<>>, NEW busy,
           Frames(t, R, path, stack, busy)
    PROVE  /\ Leads(t, path, stack[Len(stack)].dir)
           /\ LStat(t, path) = stack[Len(stack)].dir
<1>1. Len(stack) \in 1 .. Len(stack)
  OBVIOUS
<1>2. Leads(t, path, stack[Len(stack)].dir)
  BY <1>1 DEF Frames
<1>. QED
  BY <1>2, LeadsStat

\* The busy node goes, and with it nothing else.
LEMMA FramesGone ==
    ASSUME NEW t \in [Nodes -> Node], WellFormed(t), NEW R, NEW path \in PathType,
           NEW stack \in Seq(Frame), NEW m \in Nodes, Frames(t, R, path, stack, {m}),
           Children(t, m) = {}, \A k \in 1 .. Len(stack) : stack[k].dir # m
    PROVE  Frames(Without(t, m), R, path, stack, {})
<1> DEFINE u == Without(t, m)
<1>1. /\ u \in [Nodes -> Node] /\ \A n \in Nodes : n # m => u[n] = t[n]
      /\ Live(u) = Live(t) \ {m}
  BY WithoutFacts
<1>2. \A n \in Live(u) : n \in Live(t) /\ n # m /\ u[n] = t[n]
  BY <1>1, LiveFacts
<1>3. \A n \in Live(t) : n # m => n \in Live(u) /\ u[n] = t[n]
  BY <1>1, LiveFacts
<1>4. \A d : Children(u, d) = Children(t, d) \ {m}
  <2>1. TAKE d
  <2>2. ASSUME NEW n \in Children(u, d) PROVE n \in Children(t, d) \ {m}
    <3>1. n \in Live(u) /\ n # Root /\ u[n].up = d
      BY LiveFacts
    <3>2. n \in Live(t) /\ n # m /\ t[n].up = d
      BY <1>2, <3>1
    <3>. QED
      BY <3>1, <3>2, LiveFacts
  <2>3. ASSUME NEW n \in Children(t, d), n # m PROVE n \in Children(u, d)
    <3>1. n \in Live(t) /\ n # Root /\ t[n].up = d
      BY LiveFacts
    <3>2. n \in Live(u) /\ u[n].up = d
      BY <1>3, <2>3, <3>1
    <3>. QED
      BY <3>1, <3>2, LiveFacts
  <2>. QED
    BY <2>2, <2>3
<1>5. \A d : \A n \in Children(u, d) : u[n].name = t[n].name
  BY <1>2, LiveFacts
<1>6. SUFFICES ASSUME NEW i \in 1 .. Len(stack) PROVE FrameAt(u, R, path, stack, {}, i)
  BY FramesAt
<1> DEFINE d == stack[i].dir
           under == IF i = 1 THEN {m} ELSE {stack[i - 1].dir}
           left_ == IF i = 1 THEN {} ELSE {stack[i - 1].dir}
<1>7. /\ Leads(t, stack[i].path, d) /\ Removable(stack[i].path)
      /\ d \in R /\ IsDir(t, d)
      /\ \A k \in 1 .. Len(stack) : stack[k].dir = d => k = i
      /\ under \subseteq Children(t, d)
      /\ stack[i].todo = {t[n].name : n \in Children(t, d) \ under}
      /\ i = Len(stack) => stack[i].path = path
  BY FramesAt DEF FrameAt
<1>8. d \in Nodes /\ d # m /\ stack[i].path \in PathType
  BY FrameType
<1>9. Leads(u, stack[i].path, d) /\ IsDir(u, d)
  BY <1>1, <1>7, <1>8, LeadsKept DEF IsDir
<1>10. left_ \subseteq Children(u, d) /\ Children(u, d) \ left_ = Children(t, d) \ under
  <2>1. CASE i = 1
    BY <1>4, <2>1
  <2>2. CASE i # 1
    <3>1. 1 \in 1 .. Len(stack) /\ i - 1 \in 1 .. Len(stack)
      BY <2>2
    <3>2. stack[i - 1].dir # m
      BY <3>1
    <3>3. m \in Children(t, stack[1].dir)
      BY <3>1, FramesAt DEF FrameAt
    <3>4. t[m].up = stack[1].dir
      BY <3>3, LiveFacts
    <3>5. m \notin Children(t, d)
      <4>1. stack[1].dir # d
        BY <1>7, <2>2, <3>1
      <4>. QED
        BY <3>4, <4>1, LiveFacts
    <3>6. under = {stack[i - 1].dir} /\ left_ = under
      BY <2>2
    <3>. QED
      BY <1>4, <1>7, <3>2, <3>5, <3>6
  <2>. QED
    BY <2>1, <2>2
<1>11. stack[i].todo = {u[n].name : n \in Children(u, d) \ left_}
  <2>1. {t[n].name : n \in Children(u, d) \ left_} = {u[n].name : n \in Children(u, d) \ left_}
    BY <1>5
  <2>. QED
    BY <1>7, <1>10, <2>1
<1>. QED
  <2> HIDE DEF u
  <2>. QED
    BY <1>7, <1>9, <1>10, <1>11 DEF FrameAt

\* A directory whose entries have been read is one of the open ones.
LEMMA FramesOpened ==
    ASSUME NEW t, NEW R, NEW path, NEW rest \in Seq(Frame), NEW stack \in Seq(Frame),
           Len(stack) = Len(rest) + 1,
           \A i \in 1 .. Len(rest) : stack[i + 1] = rest[i],
           Called(t, R, path, rest, stack[1].path, stack[1].dir),
           IsDir(t, stack[1].dir),
           stack[1].todo = {t[n].name : n \in Children(t, stack[1].dir)}
    PROVE  Frames(t, R, path, stack, {})
<1>1. Len(rest) \in Nat /\ Len(stack) \in Nat
  OBVIOUS
<1> DEFINE top == stack[1].dir
<1>2. \A k \in 1 .. Len(stack) : k = 1 \/ (k - 1 \in 1 .. Len(rest) /\ stack[k] = rest[k - 1])
  <2>1. TAKE k \in 1 .. Len(stack)
  <2>2. k = 1 \/ (k - 1 \in 1 .. Len(rest) /\ (k - 1) + 1 = k)
    BY <1>1
  <2>. QED
    BY <2>2
<1>3. SUFFICES ASSUME NEW i \in 1 .. Len(stack) PROVE FrameAt(t, R, path, stack, {}, i)
  BY FramesAt
<1>4. CASE i = 1
  <2>1. Leads(t, stack[1].path, top) /\ Removable(stack[1].path) /\ top \in R
    BY DEF Called
  <2>2. ASSUME NEW k \in 1 .. Len(stack), stack[k].dir = top PROVE k = 1
    <3>1. SUFFICES ASSUME k - 1 \in 1 .. Len(rest), stack[k] = rest[k - 1] PROVE FALSE
      BY <1>2
    <3>. QED
      BY <2>2, <3>1 DEF Called
  <2>3. 1 = Len(stack) => stack[1].path = path
    <3>1. Len(stack) = 1 => rest = <<>>
      BY <1>1
    <3>. QED
      BY <3>1 DEF Called
  <2>4. Children(t, top) \ {} = Children(t, top)
    OBVIOUS
  <2>. QED
    BY <1>4, <2>1, <2>2, <2>3, <2>4 DEF FrameAt
<1>5. CASE i # 1
  <2> DEFINE h == i - 1
             d == rest[h].dir
             under == IF h = 1 THEN {top} ELSE {rest[h - 1].dir}
  <2>1. h \in 1 .. Len(rest) /\ stack[i] = rest[h] /\ h \in Nat \ {0} /\ i = h + 1
    BY <1>1, <1>2, <1>5
  <2>2. /\ Leads(t, rest[h].path, d) /\ Removable(rest[h].path)
        /\ d \in R /\ IsDir(t, d)
        /\ \A k \in 1 .. Len(rest) : rest[k].dir = d => k = h
        /\ under \subseteq Children(t, d)
        /\ rest[h].todo = {t[n].name : n \in Children(t, d) \ under}
        /\ h = Len(rest) => rest[h].path = path
    <3>1. FrameAt(t, R, path, rest, {top}, h)
      BY <2>1, FramesAt DEF Called
    <3> HIDE DEF h
    <3>. QED
      BY <3>1 DEF FrameAt
  <2>3. {stack[i - 1].dir} = under
    <3>1. CASE h = 1
      BY <2>1, <3>1
    <3>2. CASE h # 1
      <4>1. i - 1 \in 1 .. Len(stack) /\ i - 1 # 1 /\ (i - 1) - 1 = h - 1
        BY <1>1, <2>1, <3>2
      <4>2. stack[i - 1] = rest[h - 1]
        BY <1>2, <4>1
      <4>. QED
        BY <3>2, <4>2
    <3>. QED
      BY <3>1, <3>2
  <2>4. ASSUME NEW k \in 1 .. Len(stack), stack[k].dir = d PROVE k = i
    <3>1. CASE k = 1
      <4>1. rest[h].dir # top
        BY <2>1 DEF Called
      <4>. QED
        BY <2>4, <3>1, <4>1
    <3>2. CASE k # 1
      <4>1. k - 1 \in 1 .. Len(rest) /\ rest[k - 1].dir = d
        BY <1>2, <2>4, <3>2
      <4>2. k - 1 = h
        BY <2>2, <4>1
      <4>. QED
        BY <4>2
    <3>. QED
      BY <3>1, <3>2
  <2>5. i = Len(stack) => stack[i].path = path
    BY <1>1, <2>1, <2>2
  <2> HIDE DEF h, under
  <2>. QED
    BY <1>5, <2>1, <2>2, <2>3, <2>4, <2>5 DEF FrameAt
<1>. QED
  BY <1>4, <1>5

\* The innermost directory is empty, and the call for it is at its end.
LEMMA FramesDone ==
    ASSUME NEW t \in [Nodes -> Node], NEW R, NEW path, NEW stack \in Seq(Frame),
           stack # <<>>, Frames(t, R, path, stack, {}), stack[1].todo = {}
    PROVE  /\ Tail(stack) \in Seq(Frame) /\ Children(t, stack[1].dir) = {}
           /\ Called(t, R, path, Tail(stack), stack[1].path, stack[1].dir)
<1> DEFINE rest == Tail(stack)
           m == stack[1].dir
<1>1. /\ Len(stack) \in Nat \ {0} /\ rest \in Seq(Frame) /\ Len(rest) \in Nat
      /\ Len(rest) = Len(stack) - 1
      /\ \A i \in 1 .. Len(rest) : rest[i] = stack[i + 1]
  BY HeadTailProperties, LenProperties
<1>2. 1 \in 1 .. Len(stack)
  BY <1>1
<1>3. /\ Leads(t, stack[1].path, m) /\ Removable(stack[1].path) /\ m \in R
      /\ \A k \in 1 .. Len(stack) : stack[k].dir = m => k = 1
      /\ stack[1].todo = {t[n].name : n \in Children(t, m) \ {}}
      /\ 1 = Len(stack) => stack[1].path = path
  BY <1>2, FramesAt DEF FrameAt
<1> HIDE DEF rest
<1>4. Children(t, m) = {}
  BY <1>3
<1>5. \A k \in 1 .. Len(rest) : rest[k].dir # m
  <2>1. TAKE k \in 1 .. Len(rest)
  <2>2. k + 1 \in 1 .. Len(stack) /\ k + 1 # 1
    BY <1>1
  <2>. QED
    BY <1>1, <1>3, <2>2
<1>6. rest = <<>> => stack[1].path = path
  BY <1>1, <1>3
<1>7. Frames(t, R, path, rest, {m})
  <2>1. SUFFICES ASSUME NEW h \in 1 .. Len(rest) PROVE FrameAt(t, R, path, rest, {m}, h)
    BY FramesAt
  <2> DEFINE i == h + 1
             d == stack[i].dir
             under == {stack[i - 1].dir}
  <2>2. /\ i \in 1 .. Len(stack) /\ i # 1 /\ i - 1 = h /\ rest[h] = stack[i]
        /\ h \in Nat \ {0} /\ (h # 1 => h - 1 \in 1 .. Len(rest) /\ (h - 1) + 1 = h)
    BY <1>1
  <2>3. /\ Leads(t, stack[i].path, d) /\ Removable(stack[i].path)
        /\ d \in R /\ IsDir(t, d)
        /\ \A k \in 1 .. Len(stack) : stack[k].dir = d => k = i
        /\ under \subseteq Children(t, d)
        /\ stack[i].todo = {t[n].name : n \in Children(t, d) \ under}
        /\ i = Len(stack) => stack[i].path = path
    <3>1. FrameAt(t, R, path, stack, {}, i)
      BY <2>2, FramesAt
    <3>2. i # 1
      BY <2>2
    <3> HIDE DEF i
    <3>. QED
      BY <3>1, <3>2 DEF FrameAt
  <2>4. (IF h = 1 THEN {m} ELSE {rest[h - 1].dir}) = under
    <3>1. CASE h = 1
      BY <2>2, <3>1
    <3>2. CASE h # 1
      <4>1. rest[h - 1] = stack[h]
        BY <1>1, <2>2, <3>2
      <4>. QED
        BY <2>2, <3>2, <4>1
    <3>. QED
      BY <3>1, <3>2
  <2>5. ASSUME NEW k \in 1 .. Len(rest), rest[k].dir = d PROVE k = h
    <3>1. k + 1 \in 1 .. Len(stack) /\ stack[k + 1].dir = d
      BY <1>1, <2>5
    <3>2. k + 1 = i
      BY <2>3, <3>1
    <3>. QED
      BY <2>2, <3>2
  <2>6. h = Len(rest) => stack[i].path = path
    BY <1>1, <2>3
  <2> HIDE DEF i, under
  <2>. QED
    BY <2>2, <2>3, <2>4, <2>5, <2>6 DEF FrameAt
<1>. QED
  BY <1>1, <1>3, <1>4, <1>5, <1>6, <1>7 DEF Called, rest

\* The next entry of the innermost directory is a node to be removed that is
\* not yet open.
LEMMA FramesNext ==
    ASSUME NEW t \in [Nodes -> Node], WellFormed(t), NEW R, NEW path \in PathType,
           NEW stack \in Seq(Frame), stack # <<>>, Frames(t, R, path, stack, {}),
           Doomed(t, R, LStat(t, path)), NEW x \in stack[1].todo
    PROVE  /\ Append(stack[1].path, x) \in PathType
           /\ Left(stack, stack[1].todo \ {x}) \in Seq(Frame)
           /\ \E n \in Nodes : Called(t, R, path, Left(stack, stack[1].todo \ {x}),
                                      Append(stack[1].path, x), n)
<1> DEFINE d == stack[1].dir
           rest == Left(stack, stack[1].todo \ {x})
           at == Append(stack[1].path, x)
<1>1. Len(stack) \in Nat \ {0} /\ 1 \in 1 .. Len(stack) /\ Len(stack) \in 1 .. Len(stack)
  OBVIOUS
<1>2. \A i \in 1 .. Len(stack) : FrameAt(t, R, path, stack, {}, i)
  BY FramesAt
<1>3. /\ Leads(t, stack[1].path, d) /\ Removable(stack[1].path)
      /\ d \in R /\ IsDir(t, d)
      /\ \A k \in 1 .. Len(stack) : stack[k].dir = d => k = 1
      /\ stack[1].todo = {t[n].name : n \in Children(t, d) \ {}}
  BY <1>1, <1>2 DEF FrameAt
<1>4. stack[1].path \in PathType /\ d \in Nodes /\ stack[1].todo \in SUBSET PathComponents
  BY <1>1, FrameType
<1>5. PICK n \in Children(t, d) : t[n].name = x
  BY <1>3
<1>6. n \in Live(t) /\ n # Root /\ n \in Nodes /\ t[n].up = d
  BY LiveFacts
<1>7. x \in Names /\ \A m \in Children(t, d) : t[m].name = x => m = n
  BY <1>5, <1>6 DEF WellFormed, Named
<1>8. n \in R /\ t[n].kind # "link"
  BY <1>3, <1>5 DEF Doomed
<1>9. at \in PathType /\ Leads(t, at, n) /\ Removable(at)
  <2>1. Append(stack[1].path, t[n].name) \in PathType
        /\ Leads(t, Append(stack[1].path, t[n].name), n)
    BY <1>3, <1>4, <1>8, LeadsOn
  <2>. QED
    BY <1>4, <1>5, <1>7, <2>1, RemovableEntry
<1>10. /\ rest \in Seq(Frame) /\ Len(rest) = Len(stack)
       /\ rest[1].path = stack[1].path /\ rest[1].dir = d
       /\ rest[1].todo = stack[1].todo \ {x}
       /\ \A i \in 1 .. Len(stack) : i # 1 => rest[i] = stack[i]
  <2>1. stack[1].todo \ {x} \in SUBSET PathComponents
    BY <1>4
  <2>. QED
    BY <2>1, TodoUpdate
<1> HIDE DEF rest, at
<1>11. \A k \in 1 .. Len(stack) : rest[k].dir = stack[k].dir /\ rest[k].path = stack[k].path
  BY <1>10
<1>12. ASSUME NEW k \in 1 .. Len(stack), stack[k].dir = n PROVE FALSE
  <2>1. CASE k = Len(stack)
    <3>1. LStat(t, path) = n
      BY <1>12, <2>1, FramesTop
    <3>. QED
      BY <1>3, <1>6, <3>1 DEF Doomed
  <2>2. CASE k # Len(stack)
    <3>1. k + 1 \in 1 .. Len(stack) /\ k + 1 # 1 /\ (k + 1) - 1 = k
      BY <1>1, <2>2
    <3>2. {stack[k].dir} \subseteq Children(t, stack[k + 1].dir)
      BY <1>2, <3>1 DEF FrameAt
    <3>3. t[n].up = stack[k + 1].dir
      BY <1>12, <3>2, LiveFacts
    <3>. QED
      BY <1>3, <1>6, <3>1, <3>3
  <2>. QED
    BY <2>1, <2>2
<1>13. ASSUME NEW i \in 1 .. Len(rest) PROVE FrameAt(t, R, path, rest, {n}, i)
  <2>1. i \in 1 .. Len(stack) /\ FrameAt(t, R, path, stack, {}, i)
    BY <1>2, <1>10
  <2>2. \A k \in 1 .. Len(rest) : rest[k].dir = rest[i].dir => k = i
    BY <1>10, <1>11, <2>1 DEF FrameAt
  <2>3. CASE i = 1
    <3>1. {t[m].name : m \in Children(t, d) \ {n}} = stack[1].todo \ {x}
      BY <1>3, <1>5, <1>7
    <3>2. {n} \subseteq Children(t, d)
      BY <1>5
    <3>3. i = Len(rest) => rest[1].path = path
      BY <1>10, <1>11, <2>1, <2>3 DEF FrameAt
    <3>. QED
      BY <1>3, <1>10, <2>2, <2>3, <3>1, <3>2, <3>3 DEF FrameAt
  <2>4. CASE i # 1
    <3>1. i - 1 \in 1 .. Len(stack)
      BY <1>1, <2>1, <2>4
    <3>2. rest[i] = stack[i] /\ rest[i - 1].dir = stack[i - 1].dir
      BY <1>10, <1>11, <2>1, <2>4, <3>1
    <3>. QED
      BY <1>10, <2>1, <2>2, <2>4, <3>2 DEF FrameAt
  <2>. QED
    BY <2>3, <2>4
<1>14. Frames(t, R, path, rest, {n})
  BY <1>13, FramesAt
<1>15. rest # <<>> /\ \A k \in 1 .. Len(rest) : rest[k].dir # n
  BY <1>1, <1>10, <1>11, <1>12
<1>16. Called(t, R, path, rest, at, n)
  BY <1>8, <1>9, <1>14, <1>15 DEF Called
<1>. QED
  BY <1>6, <1>9, <1>10, <1>16 DEF rest, at

-----------------------------------------------------------------------------
(* The steps of a removal.                                                 *)

\* The command of s has returned, and its reply says what it did.
Returned(s) ==
    /\ pc'[s] = "idle" /\ job'[s].cmd = "none"
    /\ IF reply'[s] = "250" THEN reach[s] # {} /\ reach[s] \cap Live(fs') = {}
       ELSE reach[s] \subseteq Live(fs')

\* The command of s goes on.
GoingOn(s) ==
    /\ pc'[s] # "idle"
    /\ Progress(fs', reach[s], pc'[s], job'[s])
    /\ Reach(fs', job'[s].path) \subseteq reach[s]

\* The removal of a plain path, and its types.
PlainRemoval(s) == RemovalInv(s) /\ plain[s]

LEMMA PlainRemovalFacts ==
    ASSUME IInv, NEW s \in Sessions, PlainRemoval(s)
    PROVE  /\ fs \in [Nodes -> Node] /\ WellFormed(fs)
           /\ Cmd(s) \in {"DELE", "RMD"} /\ Cmd(s) = job[s].cmd
           /\ pc[s] # "idle" /\ Stage(pc[s], job[s])
           /\ Path(s) \in PathType /\ Path(s) # <<>> /\ Path(s) = job[s].path
           /\ job[s] \in Job /\ job[s].at \in PathType /\ job[s].stack \in Seq(Frame)
           /\ pc \in [Sessions -> Calls \cup {"idle"}]
           /\ job \in [Sessions -> Job] /\ reply \in [Sessions -> Replies]
           /\ Progress(fs, reach[s], pc[s], job[s])
<1>1. /\ fs \in [Nodes -> Node] /\ WellFormed(fs) /\ Stage(pc[s], job[s])
      /\ Path(s) \in PathType /\ job[s] \in Job /\ job[s].at \in PathType
      /\ job[s].stack \in Seq(Frame)
  BY TypeFacts
<1>2. /\ pc \in [Sessions -> Calls \cup {"idle"}]
      /\ job \in [Sessions -> Job] /\ reply \in [Sessions -> Replies]
  BY DEF IInv, TypeOK, Replies
<1>3. Cmd(s) \in {"DELE", "RMD"} /\ Progress(fs, reach[s], pc[s], job[s])
  BY DEF PlainRemoval, RemovalInv
<1>4. pc[s] # "idle" /\ job[s].path # <<>>
  BY <1>1, <1>3 DEF Stage, Cmd
<1>. QED
  BY <1>1, <1>2, <1>3, <1>4 DEF Cmd, Path

LEMMA EndFailed ==
    ASSUME IInv, NEW s \in Sessions, NEW r, r # "250", End(s, r),
           reach[s] \subseteq Live(fs')
    PROVE  Returned(s)
<1>1. pc'[s] = "idle" /\ job'[s] = NoJob /\ reply'[s] = r
  BY DEF IInv, TypeOK, End, Goto
<1>. QED
  BY <1>1, NoJobFacts DEF Returned

LEMMA EndDone ==
    ASSUME IInv, NEW s \in Sessions, End(s, "250"),
           reach[s] # {}, reach[s] \cap Live(fs') = {}
    PROVE  Returned(s)
<1>1. pc'[s] = "idle" /\ job'[s] = NoJob /\ reply'[s] = "250"
  BY DEF IInv, TypeOK, End, Goto
<1>. QED
  BY <1>1, NoJobFacts DEF Returned

\* Before rm, the tree is as it was when the command began.
LEMMA BeforeRm ==
    ASSUME IInv, NEW s \in Sessions, PlainRemoval(s),
           pc[s] \in {"test dir", "test file", "rm"}
    PROVE  /\ reach[s] = Reach(fs, Path(s)) /\ Plain(fs, Path(s))
           /\ reach[s] \subseteq Live(fs)
<1>1. reach[s] = Reach(fs, Path(s)) /\ Plain(fs, Path(s))
  BY PlainRemovalFacts DEF Progress
<1>. QED
  BY <1>1, PlainRemovalFacts, ReachLive

LEMMA TestsGoOn ==
    ASSUME IInv, NEW s \in Sessions, PlainRemoval(s),
           pc[s] \in {"test dir", "test file", "rm"}, fs' = fs, Goto(s, "rm"), UNCHANGED job
    PROVE  GoingOn(s)
<1>1. pc'[s] = "rm" /\ job'[s] = job[s] /\ Path(s) = job[s].path
  BY PlainRemovalFacts DEF Goto
<1>2. reach[s] = Reach(fs, job[s].path) /\ Plain(fs, job[s].path)
  BY <1>1, BeforeRm
<1>. QED
  BY <1>1, <1>2 DEF GoingOn, Progress

LEMMA TestDirRemoval ==
    ASSUME IInv, NEW s \in Sessions, PlainRemoval(s), NEW is \in BOOLEAN, TestDir(s, is)
    PROVE  Returned(s) \/ GoingOn(s)
<1>1. pc[s] = "test dir" /\ fs' = fs
  BY DEF TestDir, At
<1>2. Cmd(s) = "RMD"
  BY <1>1, PlainRemovalFacts DEF Stage
<1>3. AfterDir("RMD") = "rm"
  BY DEF AfterDir
<1>4. CASE End(s, "550")
  BY <1>1, <1>4, BeforeRm, EndFailed
<1>5. CASE Goto(s, "rm") /\ UNCHANGED job
  BY <1>1, <1>5, TestsGoOn
<1> HIDE DEF End, Goto, AfterDir
<1>. QED
  BY <1>2, <1>3, <1>4, <1>5 DEF TestDir

LEMMA TestFileRemoval ==
    ASSUME IInv, NEW s \in Sessions, PlainRemoval(s), NEW is \in BOOLEAN, TestFile(s, is)
    PROVE  Returned(s) \/ GoingOn(s)
<1>1. pc[s] = "test file" /\ fs' = fs
  BY DEF TestFile, At
<1>2. Cmd(s) = "DELE"
  BY <1>1, PlainRemovalFacts DEF Stage
<1>3. CASE End(s, "550")
  BY <1>1, <1>3, BeforeRm, EndFailed
<1>4. CASE Goto(s, "rm") /\ UNCHANGED job
  BY <1>1, <1>4, TestsGoOn
<1> HIDE DEF End, Goto
<1>. QED
  BY <1>2, <1>3, <1>4 DEF TestFile

\* rm is called on a node that is there.
LEMMA RmStatRemoval ==
    ASSUME IInv, NEW s \in Sessions, PlainRemoval(s), fs' = fs,
           NEW at \in PathType, NEW stack \in Seq(Frame), RmStat(s, at, stack),
           Leads(fs, Path(s), LStat(fs, Path(s))),
           Doomed(fs, reach[s], LStat(fs, Path(s))),
           NEW m, Called(fs, reach[s], Path(s), stack, at, m)
    PROVE  GoingOn(s)
<1> DEFINE j == Moved(job[s], at, stack)
           p == IF IsDir(fs, m) THEN "opendir" ELSE "unlink"
<1>1. /\ fs \in [Nodes -> Node] /\ WellFormed(fs)
      /\ Path(s) \in PathType /\ Path(s) = job[s].path
      /\ job[s] \in Job /\ job \in [Sessions -> Job]
      /\ pc \in [Sessions -> Calls \cup {"idle"}]
  BY PlainRemovalFacts
<1>2. Leads(fs, at, m)
  BY DEF Called
<1>3. LStat(fs, at) = m /\ Stat(fs, at) = m /\ m # None
  BY <1>1, <1>2, LeadsStat
<1>4. Goto(s, p) /\ job' = [job EXCEPT ![s].at = at, ![s].stack = stack]
  BY <1>3 DEF RmStat
<1>5. pc'[s] = p
  BY <1>1, <1>4 DEF Goto
<1>6. job'[s] = j
  BY <1>1, <1>4, Zenon DEF Moved
<1>7. j.path = Path(s) /\ j.at = at /\ j.stack = stack
  BY <1>1, JobUpdate
<1> HIDE DEF j
<1>8. p \in {"opendir", "unlink"} /\ (p = "opendir" <=> IsDir(fs, m))
  OBVIOUS
<1> HIDE DEF p
<1>9. Progress(fs, reach[s], p, j)
  BY <1>3, <1>7, <1>8 DEF Progress
<1>10. Reach(fs, Path(s)) \subseteq reach[s]
  BY <1>1, DoomedReach
<1>. QED
  BY <1>5, <1>6, <1>7, <1>8, <1>9, <1>10 DEF GoingOn

LEMMA RmRemoval ==
    ASSUME IInv, NEW s \in Sessions, PlainRemoval(s), Rm(s)
    PROVE  Returned(s) \/ GoingOn(s)
<1> DEFINE p == Path(s)
           top == LStat(fs, p)
<1>1. pc[s] = "rm" /\ fs' = fs /\ RmStat(s, p, <<>>)
  BY DEF Rm, At
<1>2. reach[s] = Reach(fs, p) /\ Plain(fs, p) /\ reach[s] \subseteq Live(fs)
  BY <1>1, BeforeRm
<1>3. fs \in [Nodes -> Node] /\ WellFormed(fs) /\ p \in PathType /\ p # <<>>
  BY PlainRemovalFacts
<1>4. CASE Stat(fs, p) = None
  <2>1. End(s, "550")
    BY <1>1, <1>4 DEF RmStat, RmFail
  <2>. QED
    BY <1>1, <1>2, <2>1, EndFailed
<1>5. CASE Stat(fs, p) # None
  <2>1. /\ Leads(fs, p, top) /\ Removable(p) /\ Doomed(fs, reach[s], top)
    BY <1>2, <1>3, <1>5, PlainDoomed
  <2>2. <<>> \in Seq(Frame) /\ Len(<<>>) = 0
    OBVIOUS
  <2>3. top \in reach[s]
    BY <2>1 DEF Doomed
  <2>4. \A i \in 1 .. Len(<<>>) : FALSE
    BY <2>2
  <2> HIDE DEF p
  <2>5. Called(fs, reach[s], p, <<>>, p, top)
    BY <2>1, <2>3, <2>4 DEF Called, Frames
  <2>. QED
    BY <1>1, <1>3, <2>1, <2>2, <2>5, RmStatRemoval DEF p
<1>. QED
  BY <1>4, <1>5

LEMMA PushFacts ==
    ASSUME NEW S, NEW e \in S, NEW rest \in Seq(S)
    PROVE  /\ <<e>> \o rest \in Seq(S) /\ Len(<<e>> \o rest) = Len(rest) + 1
           /\ (<<e>> \o rest)[1] = e /\ Tail(<<e>> \o rest) = rest
<1> DEFINE q == <<e>> \o rest
<1>1. <<e>> \in Seq(S) /\ Len(<<e>>) = 1 /\ <<e>>[1] = e /\ Len(rest) \in Nat
  OBVIOUS
<1>2. /\ q \in Seq(S) /\ Len(q) = 1 + Len(rest)
      /\ \A i \in 1 .. 1 + Len(rest) : q[i] = IF i <= 1 THEN <<e>>[i] ELSE rest[i - 1]
  <2>1. /\ q \in Seq(S) /\ Len(q) = Len(<<e>>) + Len(rest)
        /\ \A i \in 1 .. Len(<<e>>) + Len(rest) :
              q[i] = IF i <= Len(<<e>>) THEN <<e>>[i] ELSE rest[i - Len(<<e>>)]
    BY <1>1, ConcatProperties
  <2> HIDE DEF q
  <2>. QED
    BY <1>1, <2>1
<1> HIDE DEF q
<1>3. q[1] = e /\ q # <<>>
  <2>1. 1 \in 1 .. 1 + Len(rest)
    BY <1>1
  <2>. QED
    BY <1>1, <1>2, <2>1
<1>4. /\ Tail(q) \in Seq(S) /\ Len(Tail(q)) = Len(q) - 1
      /\ \A i \in 1 .. Len(Tail(q)) : Tail(q)[i] = q[i + 1]
  BY <1>2, <1>3, HeadTailProperties
<1>5. Len(Tail(q)) = Len(rest)
  BY <1>1, <1>2, <1>4
<1>6. \A i \in 1 .. Len(rest) : Tail(q)[i] = rest[i]
  <2>1. TAKE i \in 1 .. Len(rest)
  <2>2. i + 1 \in 1 .. 1 + Len(rest) /\ ~(i + 1 <= 1) /\ (i + 1) - 1 = i
    BY <1>1
  <2>. QED
    BY <1>2, <1>4, <1>5, <2>2
<1>7. Tail(q) = rest
  BY <1>4, <1>5, <1>6, SeqEqual
<1>. QED
  BY <1>1, <1>2, <1>3, <1>7 DEF q

LEMMA OpenDirRemoval ==
    ASSUME IInv, NEW s \in Sessions, PlainRemoval(s), OpenDir(s)
    PROVE  Returned(s) \/ GoingOn(s)
<1> DEFINE at == job[s].at
           m == LStat(fs, at)
           frame == [path |-> at, dir |-> Stat(fs, at), todo |-> {}]
           stack == <<frame>> \o job[s].stack
           j == Opened(job[s], stack)
<1>1. /\ fs \in [Nodes -> Node] /\ WellFormed(fs) /\ at \in PathType
      /\ Path(s) \in PathType /\ Path(s) = job[s].path /\ Cmd(s) # "LIST"
      /\ job[s] \in Job /\ job \in [Sessions -> Job] /\ job[s].stack \in Seq(Frame)
      /\ pc \in [Sessions -> Calls \cup {"idle"}]
  BY PlainRemovalFacts
<1>2. pc[s] = "opendir" /\ fs' = fs
  BY DEF OpenDir, At
<1>3. /\ Leads(fs, Path(s), LStat(fs, Path(s)))
      /\ Doomed(fs, reach[s], LStat(fs, Path(s)))
      /\ Called(fs, reach[s], Path(s), job[s].stack, at, m)
      /\ IsDir(fs, m)
  BY <1>1, <1>2, PlainRemovalFacts DEF Progress
<1>4. Stat(fs, at) = m /\ m \in Nodes
  <2>1. Leads(fs, at, m)
    BY <1>3 DEF Called
  <2> HIDE DEF m
  <2>. QED
    BY <1>1, <2>1, LeadsStat
<1>5. frame \in Frame /\ frame.path = at /\ frame.dir = m
  BY <1>1, <1>4 DEF Frame, PathType
<1>6. /\ Goto(s, "readdir") /\ job' = [job EXCEPT ![s].stack = <<frame>> \o @]
  BY <1>1, <1>3, <1>4 DEF OpenDir
<1>7. pc'[s] = "readdir"
  BY <1>1, <1>6 DEF Goto
<1>8. job'[s] = j
  BY <1>1, <1>6, Zenon DEF Opened
<1> HIDE DEF frame
<1>9. stack \in Seq(Frame) /\ stack[1] = frame /\ Tail(stack) = job[s].stack
  BY <1>1, <1>5, PushFacts
<1> HIDE DEF stack
<1>10. j.path = Path(s) /\ j.stack = stack
  BY <1>1, <1>9, JobUpdate
<1> HIDE DEF j, m, at
<1>11. Progress(fs, reach[s], "readdir", j)
  BY <1>3, <1>5, <1>9, <1>10 DEF Progress
<1>12. Reach(fs, Path(s)) \subseteq reach[s]
  BY <1>1, <1>3, DoomedReach
<1>. QED
  BY <1>2, <1>7, <1>8, <1>10, <1>11, <1>12 DEF GoingOn

LEMMA ReadDirRemoval ==
    ASSUME IInv, NEW s \in Sessions, PlainRemoval(s), ReadDir(s)
    PROVE  Returned(s) \/ GoingOn(s)
<1> DEFINE old == job[s].stack
           d == old[1].dir
           names == {fs[n].name : n \in Children(fs, d)}
           stack == Left(old, names)
           j == Opened(job[s], stack)
<1>1. /\ fs \in [Nodes -> Node] /\ WellFormed(fs)
      /\ Path(s) \in PathType /\ Path(s) = job[s].path /\ Cmd(s) # "LIST"
      /\ job[s] \in Job /\ job \in [Sessions -> Job] /\ old \in Seq(Frame)
      /\ pc \in [Sessions -> Calls \cup {"idle"}] /\ Stage(pc[s], job[s])
  BY PlainRemovalFacts
<1>2. pc[s] = "readdir" /\ fs' = fs
  BY DEF ReadDir, At
<1>3. /\ Leads(fs, Path(s), LStat(fs, Path(s)))
      /\ Doomed(fs, reach[s], LStat(fs, Path(s)))
      /\ Called(fs, reach[s], Path(s), Tail(old), old[1].path, d)
      /\ IsDir(fs, d)
  BY <1>1, <1>2, PlainRemovalFacts DEF Progress
<1>4. old # <<>>
  BY <1>1, <1>2 DEF Stage
<1>5. \A n \in Children(fs, d) : fs[n].name \in Names
  <2>1. TAKE n \in Children(fs, d)
  <2>2. n \in Live(fs) /\ n # Root
    BY LiveFacts
  <2>. QED
    BY <1>1, <2>2 DEF WellFormed, Named
<1>6. names \in SUBSET PathComponents /\ names \cap Dots = {}
  BY <1>5, NodeFacts DEF PathComponents, Dots
<1>7. /\ stack \in Seq(Frame) /\ Len(stack) = Len(old) /\ Head(old) = old[1]
      /\ stack[1].path = old[1].path /\ stack[1].dir = d /\ stack[1].todo = names
      /\ \A i \in 1 .. Len(old) : i # 1 => stack[i] = old[i]
  <2> HIDE DEF names, old
  <2>. QED
    BY <1>1, <1>4, <1>6, TodoUpdate
<1>8. d \in Live(fs)
  <2>1. Leads(fs, old[1].path, d)
    BY <1>3 DEF Called
  <2>. QED
    BY <2>1 DEF Leads
<1>9. Top(s).dir = d /\ Skipped(s) = Dots
  BY <1>1, <1>7 DEF Top, Skipped
<1>10. /\ Goto(s, "next") /\ job' = [job EXCEPT ![s].stack[1].todo = names]
  <2>1. (names \cup Dots) \ Dots = names
    BY <1>6
  <2> HIDE DEF d
  <2>. QED
    BY <1>8, <1>9, <2>1 DEF ReadDir
<1>11. pc'[s] = "next"
  BY <1>1, <1>10 DEF Goto
<1>12. job'[s] = j
  <2> HIDE DEF names
  <2>. QED
    BY <1>1, <1>10, Zenon DEF Opened, Left
<1> HIDE DEF stack
<1>13. j.path = Path(s) /\ j.stack = stack
  BY <1>1, <1>7, JobUpdate
<1> HIDE DEF j
<1>14. /\ Tail(old) \in Seq(Frame) /\ Len(stack) = Len(Tail(old)) + 1
       /\ \A i \in 1 .. Len(Tail(old)) : stack[i + 1] = Tail(old)[i]
  <2> HIDE DEF old
  <2>1. /\ Len(old) \in Nat \ {0} /\ Tail(old) \in Seq(Frame)
        /\ Len(Tail(old)) = Len(old) - 1
        /\ \A i \in 1 .. Len(Tail(old)) : Tail(old)[i] = old[i + 1]
    BY <1>1, <1>4, HeadTailProperties, LenProperties
  <2>2. ASSUME NEW i \in 1 .. Len(Tail(old)) PROVE stack[i + 1] = Tail(old)[i]
    <3>1. i + 1 \in 1 .. Len(old) /\ i + 1 # 1
      BY <2>1
    <3>. QED
      BY <1>7, <2>1, <3>1
  <2>. QED
    BY <1>7, <2>1, <2>2
<1>15. Frames(fs, reach[s], Path(s), stack, {})
  <2> HIDE DEF old, d
  <2>1. stack[1].todo = {fs[n].name : n \in Children(fs, stack[1].dir)}
    BY <1>7
  <2>. QED
    BY <1>1, <1>3, <1>7, <1>14, <2>1, FramesOpened
<1>16. Progress(fs, reach[s], "next", j)
  BY <1>3, <1>13, <1>15 DEF Progress
<1>17. Reach(fs, Path(s)) \subseteq reach[s]
  BY <1>1, <1>3, DoomedReach
<1>. QED
  BY <1>2, <1>11, <1>12, <1>13, <1>16, <1>17 DEF GoingOn

LEMMA RmEntryRemoval ==
    ASSUME IInv, NEW s \in Sessions, PlainRemoval(s), RmEntry(s)
    PROVE  Returned(s) \/ GoingOn(s)
<1> DEFINE stack == job[s].stack
<1>1. /\ fs \in [Nodes -> Node] /\ WellFormed(fs)
      /\ Path(s) \in PathType /\ Path(s) = job[s].path
      /\ stack \in Seq(Frame) /\ Stage(pc[s], job[s])
  BY PlainRemovalFacts
<1>2. pc[s] = "next" /\ fs' = fs
  BY DEF RmEntry, At
<1>3. /\ Leads(fs, Path(s), LStat(fs, Path(s)))
      /\ Doomed(fs, reach[s], LStat(fs, Path(s)))
      /\ Frames(fs, reach[s], Path(s), stack, {})
  BY <1>1, <1>2, PlainRemovalFacts DEF Progress
<1>4. stack # <<>>
  BY <1>1, <1>2 DEF Stage
<1>5. Top(s) = stack[1]
  BY <1>1, <1>4 DEF Top
<1>6. PICK x \in stack[1].todo :
          RmStat(s, Append(stack[1].path, x), Left(stack, stack[1].todo \ {x}))
  BY <1>5 DEF RmEntry, Left
<1> HIDE DEF stack
<1>7. /\ Append(stack[1].path, x) \in PathType
      /\ Left(stack, stack[1].todo \ {x}) \in Seq(Frame)
      /\ \E n \in Nodes : Called(fs, reach[s], Path(s), Left(stack, stack[1].todo \ {x}),
                                 Append(stack[1].path, x), n)
  BY <1>1, <1>3, <1>4, FramesNext
<1> DEFINE at == Append(stack[1].path, x)
           rest == Left(stack, stack[1].todo \ {x})
<1>8. PICK n \in Nodes : Called(fs, reach[s], Path(s), rest, at, n)
  BY <1>7
<1>9. at \in PathType /\ rest \in Seq(Frame) /\ RmStat(s, at, rest)
  BY <1>6, <1>7
<1> HIDE DEF at, rest
<1>. QED
  BY <1>2, <1>3, <1>8, <1>9, RmStatRemoval

\* The call for a node is at its end: the node goes, and rm goes on in the
\* directory around it, or returns.
LEMMA RmDoneRemoval ==
    ASSUME IInv, NEW s \in Sessions, PlainRemoval(s),
           Leads(fs, Path(s), LStat(fs, Path(s))),
           Doomed(fs, reach[s], LStat(fs, Path(s))),
           NEW rest \in Seq(Frame), NEW at \in PathType, NEW m,
           Called(fs, reach[s], Path(s), rest, at, m), Children(fs, m) = {},
           fs' = Without(fs, m), RmDone(s, rest)
    PROVE  Returned(s) \/ GoingOn(s)
<1> DEFINE u == Without(fs, m)
           R == reach[s]
           top == LStat(fs, Path(s))
           j == Opened(job[s], rest)
<1>1. /\ fs \in [Nodes -> Node] /\ WellFormed(fs)
      /\ Path(s) \in PathType /\ Path(s) = job[s].path
      /\ job[s] \in Job /\ job \in [Sessions -> Job]
      /\ pc \in [Sessions -> Calls \cup {"idle"}]
  BY PlainRemovalFacts
<1>2. /\ Leads(fs, at, m) /\ m \in R
      /\ \A k \in 1 .. Len(rest) : rest[k].dir # m
      /\ rest = <<>> => at = Path(s)
      /\ Frames(fs, R, Path(s), rest, {m})
  BY DEF Called
<1>3. m \in Nodes /\ m # Root /\ m = LStat(fs, at)
  <2>1. m \in Nodes \ {Root}
    BY <1>2 DEF Doomed
  <2>. QED
    BY <1>1, <1>2, <2>1, LeadsStat
<1>4. u \in [Nodes -> Node] /\ WellFormed(u) /\ Live(u) = Live(fs) \ {m}
  BY <1>1, <1>3, WithoutFacts, WithoutWellFormed
<1>5. Doomed(u, R, top)
  BY <1>1, <1>3, DoomedKept
<1> HIDE DEF u, R
<1>6. CASE rest = <<>>
  <2>1. m = top
    BY <1>2, <1>3, <1>6
  <2>2. R \cap Live(u) = {}
    BY <1>4, <1>5, <2>1, DoomedGone
  <2>3. End(s, "250")
    BY <1>6 DEF RmDone
  <2>4. R # {}
    BY <1>2
  <2>. QED
    BY <2>2, <2>3, <2>4, EndDone DEF u, R
<1>7. CASE rest # <<>>
  <2>1. Goto(s, "next") /\ job' = [job EXCEPT ![s].stack = rest]
    BY <1>7 DEF RmDone
  <2>2. pc'[s] = "next"
    BY <1>1, <2>1 DEF Goto
  <2>3. job'[s] = j
    BY <1>1, <2>1, Zenon DEF Opened
  <2>4. j.path = Path(s) /\ j.stack = rest
    BY <1>1, JobUpdate
  <2> HIDE DEF j
  <2>5. Frames(u, R, Path(s), rest, {})
    BY <1>1, <1>2, <1>3, FramesGone DEF u
  <2>6. LStat(u, Path(s)) = top /\ Leads(u, Path(s), top)
    <3>1. top = rest[Len(rest)].dir
      BY <1>1, <1>2, <1>7, FramesTop
    <3> HIDE DEF top
    <3>2. Leads(u, Path(s), rest[Len(rest)].dir) /\ LStat(u, Path(s)) = rest[Len(rest)].dir
      BY <1>1, <1>4, <1>7, <2>5, FramesTop
    <3>. QED
      BY <3>1, <3>2
  <2> HIDE DEF top
  <2>7. Progress(u, R, "next", j)
    BY <1>5, <2>4, <2>5, <2>6 DEF Progress
  <2>8. Reach(u, Path(s)) \subseteq R
    BY <1>1, <1>4, <1>5, <2>6, DoomedReach
  <2>. QED
    BY <2>2, <2>3, <2>4, <2>7, <2>8 DEF GoingOn, u, R
<1>. QED
  BY <1>6, <1>7

LEMMA RmDirRemoval ==
    ASSUME IInv, NEW s \in Sessions, PlainRemoval(s), RmDir(s)
    PROVE  Returned(s) \/ GoingOn(s)
<1> DEFINE stack == job[s].stack
           at == stack[1].path
           m == stack[1].dir
<1>1. /\ fs \in [Nodes -> Node] /\ WellFormed(fs)
      /\ Path(s) \in PathType /\ stack \in Seq(Frame) /\ Stage(pc[s], job[s])
      /\ Path(s) = job[s].path
  BY PlainRemovalFacts
<1>2. pc[s] = "next"
  BY DEF RmDir, At
<1>3. /\ Leads(fs, Path(s), LStat(fs, Path(s)))
      /\ Doomed(fs, reach[s], LStat(fs, Path(s)))
      /\ Frames(fs, reach[s], Path(s), stack, {})
  BY <1>1, <1>2, PlainRemovalFacts DEF Progress
<1>4. stack # <<>>
  BY <1>1, <1>2 DEF Stage
<1>5. Top(s) = stack[1]
  BY <1>1, <1>4 DEF Top
<1>6. stack[1].todo = {} /\ fs' = Rmdir(fs, at)
  BY <1>5 DEF RmDir
<1>7. fs' # fs => RmDone(s, Tail(stack))
  BY DEF RmDir
<1> HIDE DEF stack
<1>8. 1 \in 1 .. Len(stack)
  BY <1>1, <1>4
<1>9. /\ at \in PathType /\ m \in Nodes /\ IsDir(fs, m)
      /\ Tail(stack) \in Seq(Frame) /\ Children(fs, m) = {}
      /\ Called(fs, reach[s], Path(s), Tail(stack), at, m)
  <2>1. IsDir(fs, m)
    BY <1>3, <1>8, FramesAt DEF FrameAt
  <2>. QED
    BY <1>1, <1>3, <1>4, <1>6, <1>8, <2>1, FrameType, FramesDone
<1> HIDE DEF at, m
<1>10. Leads(fs, at, m) /\ Removable(at) /\ m # Root
  <2>1. m \in reach[s] /\ Leads(fs, at, m) /\ Removable(at)
    BY <1>9 DEF Called
  <2>. QED
    BY <1>3, <2>1 DEF Doomed
<1>11. fs' = Without(fs, m)
  BY <1>1, <1>6, <1>9, <1>10, RmdirLeads
<1>12. fs' # fs
  <2>1. m \in Live(fs)
    BY <1>10 DEF Leads
  <2>. QED
    BY <1>1, <1>11, <2>1, WithoutChanges
<1>. QED
  BY <1>3, <1>7, <1>9, <1>11, <1>12, RmDoneRemoval

LEMMA RmFileRemoval ==
    ASSUME IInv, NEW s \in Sessions, PlainRemoval(s), RmFile(s)
    PROVE  Returned(s) \/ GoingOn(s)
<1> DEFINE stack == job[s].stack
           at == job[s].at
           m == LStat(fs, at)
<1>1. /\ fs \in [Nodes -> Node] /\ WellFormed(fs) /\ at \in PathType
      /\ Path(s) \in PathType /\ stack \in Seq(Frame) /\ Path(s) = job[s].path
  BY PlainRemovalFacts
<1>2. pc[s] = "unlink" /\ fs' = Unlink(fs, at)
  BY DEF RmFile, At
<1>3. /\ Leads(fs, Path(s), LStat(fs, Path(s)))
      /\ Doomed(fs, reach[s], LStat(fs, Path(s)))
      /\ Called(fs, reach[s], Path(s), stack, at, m)
      /\ ~IsDir(fs, m)
  BY <1>1, <1>2, PlainRemovalFacts DEF Progress
<1>4. fs' # fs => RmDone(s, stack)
  BY DEF RmFile
<1> HIDE DEF m, at, stack
<1>5. Leads(fs, at, m)
  BY <1>3 DEF Called
<1>6. m \in Live(fs) /\ m \in Nodes
  BY <1>1, <1>5, LeadsStat
<1>7. fs' = Without(fs, m)
  BY <1>1, <1>2, <1>3, <1>5, UnlinkLeads
<1>8. fs' # fs
  BY <1>1, <1>6, <1>7, WithoutChanges
<1>9. Children(fs, m) = {}
  BY <1>1, <1>3, <1>6, NoChildren
<1>. QED
  BY <1>1, <1>3, <1>4, <1>7, <1>8, <1>9, RmDoneRemoval

\* Only the steps of a removal are taken in one.
LEMMA RemovalStep ==
    ASSUME IInv, NEW s \in Sessions, PlainRemoval(s), Client(s) \/ Handler(s)
    PROVE  Returned(s) \/ GoingOn(s)
<1>1. pc[s] # "idle" /\ Stage(pc[s], job[s]) /\ job[s].cmd \in {"DELE", "RMD"}
      /\ Cmd(s) = job[s].cmd
  BY PlainRemovalFacts
<1>2. ~Client(s)
  BY <1>1 DEF Client, Begin, Cdup, At
<1>3. (\A is : ~MakeDir(s, is)) /\ ~MkdirCall(s) /\ ~Rnto(s) /\ ~ListEntry(s) /\ ~ListEnd(s)
  BY <1>1 DEF MakeDir, MkdirCall, Rnto, ListEntry, ListEnd, At, Stage
<1>4. is_dir_exist(Path(s)) \in BOOLEAN /\ is_file_exist(Path(s)) \in BOOLEAN
  BY TestTypes
<1>. QED
  <2> HIDE DEF Returned, GoingOn, MakeDir, TestDir, TestFile
  <2>. QED
    BY <1>2, <1>3, <1>4, TestDirRemoval, TestFileRemoval, RmRemoval, OpenDirRemoval,
       ReadDirRemoval, RmEntryRemoval, RmDirRemoval, RmFileRemoval DEF Handler

-----------------------------------------------------------------------------
(* All of a tree goes, or nothing.                                         *)

\* A step of s is a step of no other session.
LEMMA OthersStay ==
    ASSUME TypeOK, NEW s \in Sessions, Client(s) \/ Handler(s) \/ Refuse(s),
           NEW u \in Sessions, u # s
    PROVE  pc'[u] = pc[u] /\ job'[u] = job[u]
<1> DEFINE Stays == pc'[u] = pc[u] /\ job'[u] = job[u]
<1>1. pc \in [Sessions -> Calls \cup {"idle"}] /\ job \in [Sessions -> Job]
  BY DEF TypeOK
<1>2. ASSUME NEW p, Goto(s, p) PROVE pc'[u] = pc[u]
  BY <1>1, <1>2 DEF Goto
<1>3. ASSUME NEW j, job' = [job EXCEPT ![s] = j] PROVE job'[u] = job[u]
  BY <1>1, <1>3
<1>4. ASSUME NEW r, End(s, r) PROVE Stays
  BY <1>2, <1>3, <1>4 DEF End
<1>5. ASSUME RmFail(s) PROVE Stays
  BY <1>4, <1>5 DEF RmFail
<1>6. ASSUME NEW at, NEW stack, RmStat(s, at, stack) PROVE Stays
  <2>1. CASE RmFail(s)
    BY <1>5, <2>1
  <2>2. CASE \E p : Goto(s, p) /\ job' = [job EXCEPT ![s].at = at, ![s].stack = stack]
    BY <1>1, <1>2, <2>2
  <2> HIDE DEF RmFail, Goto
  <2>. QED
    BY <1>6, <2>1, <2>2 DEF RmStat
<1>7. ASSUME NEW stack, RmDone(s, stack) PROVE Stays
  <2>1. CASE End(s, "250")
    BY <1>4, <2>1
  <2>2. CASE Goto(s, "next") /\ job' = [job EXCEPT ![s].stack = stack]
    BY <1>1, <1>2, <2>2
  <2> HIDE DEF End, Goto
  <2>. QED
    BY <1>7, <2>1, <2>2 DEF RmDone
<1>8. \A p : UNCHANGED job /\ Goto(s, p) => Stays
  BY <1>2
<1>9. ASSUME Client(s) PROVE Stays
  <2>1. CASE Cdup(s)
    BY <2>1 DEF Cdup
  <2>2. CASE \E cmd \in Commands, arg \in Args[s] : Begin(s, cmd, arg)
    <3>1. PICK cmd \in Commands, arg \in Args[s] : Begin(s, cmd, arg)
      BY <2>2
    <3>2. \E p : Goto(s, p)
      BY <3>1 DEF Begin
    <3>3. \E j : job' = [job EXCEPT ![s] = j]
      BY <3>1 DEF Begin
    <3>. QED
      BY <1>2, <1>3, <3>2, <3>3
  <2>. QED
    BY <1>9, <2>1, <2>2 DEF Client
<1> HIDE DEF Stays
<1>10. ASSUME \/ \E is : TestDir(s, is) \/ TestFile(s, is) \/ MakeDir(s, is)
              \/ MkdirCall(s) \/ Rnto(s)
       PROVE  Stays
  <2> HIDE DEF End, Goto
  <2>1. (\E r : End(s, r)) \/ (UNCHANGED job /\ \E p : Goto(s, p))
    <3>1. CASE \E is : TestDir(s, is)
      BY <3>1 DEF TestDir
    <3>2. CASE \E is : TestFile(s, is)
      BY <3>2 DEF TestFile
    <3>3. CASE \E is : MakeDir(s, is)
      BY <3>3 DEF MakeDir
    <3>4. CASE MkdirCall(s) \/ Rnto(s)
      BY <3>4 DEF MkdirCall, Rnto
    <3>. QED
      BY <1>10, <3>1, <3>2, <3>3, <3>4
  <2>. QED
    BY <1>4, <1>8, <2>1
<1>11. ASSUME Rm(s) \/ RmEntry(s) PROVE Stays
  <2> HIDE DEF RmStat
  <2>1. \E at, stack : RmStat(s, at, stack)
    BY <1>11 DEF Rm, RmEntry
  <2>. QED
    BY <1>6, <2>1
<1>12. ASSUME RmDir(s) \/ RmFile(s) PROVE Stays
  <2> HIDE DEF RmFail, RmDone
  <2>1. RmFail(s) \/ \E stack : RmDone(s, stack)
    BY <1>12 DEF RmDir, RmFile
  <2>. QED
    BY <1>5, <1>7, <2>1
<1>13. ASSUME ReadDir(s) PROVE Stays
  <2>1. Goto(s, "next") /\ \E x : job' = [job EXCEPT ![s].stack[1].todo = x]
    BY <1>13 DEF ReadDir
  <2>. QED
    BY <1>1, <1>2, <2>1 DEF Stays
<1>14. ASSUME OpenDir(s) PROVE Stays
  <2>1. CASE \E r : End(s, r)
    BY <1>4, <2>1
  <2>2. CASE RmFail(s)
    BY <1>5, <2>2
  <2>3. CASE Goto(s, "readdir") /\ \E x : job' = [job EXCEPT ![s].stack = <<x>> \o @]
    BY <1>1, <1>2, <2>3 DEF Stays
  <2> HIDE DEF End, RmFail, Goto
  <2>. QED
    BY <1>14, <2>1, <2>2, <2>3 DEF OpenDir
<1>15. ASSUME ListEntry(s) \/ ListEnd(s) PROVE Stays
  <2>1. CASE \E r : End(s, r)
    BY <1>4, <2>1
  <2>2. CASE UNCHANGED pc /\ \E x : job' = [job EXCEPT ![s].stack[1].todo = @ \ {x}]
    BY <1>1, <2>2 DEF Stays
  <2> HIDE DEF End
  <2>. QED
    BY <1>15, <2>1, <2>2 DEF ListEntry, ListEnd
<1>16. ASSUME Refuse(s) PROVE Stays
  <2>1. CASE TestDir(s, FALSE) \/ TestFile(s, FALSE) \/ MakeDir(s, FALSE)
    <3> HIDE DEF TestDir, TestFile, MakeDir
    <3>. QED
      BY <1>10, <2>1
  <2>2. CASE \E r : End(s, r)
    BY <1>4, <2>2
  <2>3. CASE UNCHANGED job /\ Goto(s, "next")
    BY <1>8, <2>3
  <2>4. CASE RmFail(s)
    BY <1>5, <2>4
  <2> HIDE DEF End, Goto, RmFail, TestDir, TestFile, MakeDir
  <2>. QED
    BY <1>16, <2>1, <2>2, <2>3, <2>4 DEF Refuse
<1>. QED
  <2>1. Stays
    <3>1. Handler(s) => \/ \E is : TestDir(s, is) \/ TestFile(s, is) \/ MakeDir(s, is)
                        \/ MkdirCall(s) \/ Rnto(s) \/ Rm(s) \/ RmEntry(s) \/ RmDir(s)
                        \/ RmFile(s) \/ ReadDir(s) \/ OpenDir(s) \/ ListEntry(s) \/ ListEnd(s)
      <4> HIDE DEF TestDir, TestFile, MakeDir
      <4>. QED
        BY DEF Handler
    <3>. QED
      BY <1>9, <1>10, <1>11, <1>12, <1>13, <1>14, <1>15, <1>16, <3>1
  <2>. QED
    BY <2>1 DEF Stays

\* Nobody but s changed the tree, if u is still plain.
LEMMA PlainNext ==
    ASSUME NEW s \in Sessions, NEW refusal \in BOOLEAN, History(s, refusal), NEW u \in Sessions
    PROVE  /\ job'[u].cmd \notin {"DELE", "RMD"} => reach'[u] = {} /\ ~plain'[u]
           /\ job'[u].cmd \in {"DELE", "RMD"} =>
                 reach'[u] = reach[u] \cup Reach(fs', job'[u].path)
           /\ plain'[u] =>
                 /\ job'[u].cmd \in {"DELE", "RMD"}
                 /\ pc'[u] = "idle" \/ (u = s /\ ~refusal) \/ (u # s /\ fs' = fs)
                 /\ IF pc[u] = "idle" THEN Plain(fs', job'[u].path) ELSE plain[u]
<1>1. /\ alone'[u] = (pc'[u] = "idle" \/ (alone[u] /\ IF u = s THEN ~refusal ELSE fs' = fs))
      /\ reach'[u] = IF job'[u].cmd \in {"DELE", "RMD"}
                     THEN reach[u] \cup Reach(fs', job'[u].path) ELSE {}
      /\ plain'[u] = (/\ job'[u].cmd \in {"DELE", "RMD"} /\ alone'[u]
                      /\ IF pc[u] = "idle" THEN Plain(fs', job'[u].path) ELSE plain[u])
  BY Zenon DEF History
<1>. QED
  BY <1>1

LEMMA RemovalInvNext ==
    ASSUME IInv, \A u \in Sessions : RemovalInv(u), [Next]_vars
    PROVE  \A u \in Sessions : RemovalInv(u)'
<1>1. CASE UNCHANGED vars
  BY <1>1 DEF vars, state, history, RemovalInv, Cmd
<1>2. CASE \E s \in Sessions, refusal \in BOOLEAN :
              /\ IF refusal THEN Refuse(s) ELSE Client(s) \/ Handler(s)
              /\ History(s, refusal)
  <2>1. PICK s \in Sessions, refusal \in BOOLEAN :
              /\ IF refusal THEN Refuse(s) ELSE Client(s) \/ Handler(s)
              /\ History(s, refusal)
    BY <1>2
  <2>2. TAKE u \in Sessions
  <2>3. SUFFICES ASSUME plain'[u] PROVE Progress(fs', reach'[u], pc'[u], job'[u])
    <3>1. job'[u].cmd \notin {"DELE", "RMD"} => reach'[u] = {} /\ ~plain'[u]
      BY <2>1, PlainNext
    <3> HIDE DEF Progress
    <3>. QED
      BY <2>3, <3>1 DEF RemovalInv, Cmd
  <2>4. /\ job'[u].cmd \in {"DELE", "RMD"}
        /\ reach'[u] = reach[u] \cup Reach(fs', job'[u].path)
        /\ pc'[u] = "idle" \/ (u = s /\ ~refusal) \/ (u # s /\ fs' = fs)
        /\ pc[u] = "idle" => Plain(fs', job'[u].path)
        /\ pc[u] # "idle" => plain[u]
    BY <2>1, <2>3, PlainNext
  <2>9. Client(s) \/ Handler(s) \/ Refuse(s)
    BY <2>1
  <2>10. pc'[u] # "idle"
    <3>1. SessionInv(u)'
      BY NextPreserves DEF IInv
    <3>. QED
      BY <2>4, <3>1 DEF SessionInv, Stage
  <2>5. TypeOK /\ RemovalInv(u) /\ RemovalInv(s)
    BY DEF IInv
  <2>6. CASE pc[u] # "idle" /\ u = s
    <3>1. Returned(s) \/ GoingOn(s)
      BY <2>1, <2>4, <2>5, <2>6, <2>10, RemovalStep DEF PlainRemoval
    <3>2. GoingOn(s)
      BY <2>4, <2>6, <3>1 DEF Returned
    <3>3. reach'[u] = reach[u]
      BY <2>4, <2>6, <3>2 DEF GoingOn
    <3>. QED
      BY <2>6, <3>2, <3>3 DEF GoingOn
  <2>7. CASE pc[u] # "idle" /\ u # s
    <3>1. pc'[u] = pc[u] /\ job'[u] = job[u]
      BY <2>5, <2>7, <2>9, OthersStay
    <3>2. fs' = fs
      BY <2>4, <2>7, <2>10
    <3>3. PlainRemoval(u)
      BY <2>4, <2>5, <2>7 DEF PlainRemoval
    <3>4. Reach(fs, job[u].path) \subseteq reach[u] /\ Progress(fs, reach[u], pc[u], job[u])
      <4>1. Cmd(u) \in {"DELE", "RMD"} /\ Path(u) = job[u].path
            /\ Progress(fs, reach[u], pc[u], job[u])
        BY <3>3, PlainRemovalFacts
      <4>. QED
        BY <4>1, TypeFacts
    <3>5. reach'[u] = reach[u]
      BY <2>4, <3>1, <3>2, <3>4
    <3>. QED
      BY <3>1, <3>2, <3>4, <3>5
  <2>8. CASE pc[u] = "idle"
    <3>1. Cmd(u) = "none"
      BY <2>8, TypeFacts DEF Stage, Cmd
    <3>2. reach[u] = {}
      BY <2>5, <3>1 DEF RemovalInv
    <3>3. u = s
      BY <2>4, <2>5, <2>9, <3>1, OthersStay DEF Cmd
    <3>4. ~Handler(s)
      BY <2>8, <3>3 DEF Handler, TestDir, TestFile, MakeDir, MkdirCall, Rnto, Rm,
         OpenDir, ReadDir, RmEntry, RmDir, RmFile, ListEntry, ListEnd, At
    <3>5. ~Cdup(s)
      BY <2>4, <3>1, <3>3 DEF Cdup, Cmd
    <3>6. pc'[u] \in {"test file", "test dir"}
      <4>1. PICK cmd \in Commands, arg \in Args[s] : Begin(s, cmd, arg)
        BY <2>1, <2>4, <2>10, <3>3, <3>4, <3>5 DEF Client
      <4>. QED
        BY <2>5, <3>3, <4>1 DEF Begin, Goto, TypeOK
    <3>. QED
      BY <2>4, <2>8, <3>2, <3>6 DEF Progress
  <2>. QED
    BY <2>6, <2>7, <2>8
<1>. QED
  <2>1. Next => UNCHANGED vars \/ \E s \in Sessions, refusal \in BOOLEAN :
              /\ IF refusal THEN Refuse(s) ELSE Client(s) \/ Handler(s)
              /\ History(s, refusal)
    <3>1. Refused \subseteq Sessions /\ TRUE \in BOOLEAN /\ FALSE \in BOOLEAN
      BY CommandAssumption
    <3> HIDE DEF History, Refuse, Client, Handler
    <3>. QED
      BY <3>1 DEF Next, Finished
  <2>. QED
    BY <1>1, <1>2, <2>1

LEMMA InitRemoval == ASSUME Init, NEW s \in Sessions PROVE RemovalInv(s)
<1>1. ~plain[s] /\ reach[s] = {}
  BY DEF Init
<1>. QED
  BY <1>1 DEF RemovalInv

\* A DELE or RMD of a plain path that no other session disturbed, and no call
\* of which was refused, for want of a descriptor say, removes all its path
\* leads to, or nothing, and its reply says which; with a call refused, 250
\* still says that all has gone: for any number of sessions, any tree and any
\* commands of the others (file_opr.cpp:226-283).
THEOREM RemovalIsWhole == Spec => RemovalWhole
<1> DEFINE RInv == \A s \in Sessions : RemovalInv(s)
           Whole == \A s \in Sessions :
               Ends(s) /\ plain[s] =>
                   IF reply'[s] = "250"
                   THEN reach[s] # {} /\ reach[s] \cap Live(fs') = {}
                   ELSE disturbed'[s] = disturbed[s] => reach[s] \subseteq Live(fs')
<1>1. Init => RInv
  BY InitRemoval
<1>2. ASSUME IInv, RInv, [Next]_vars PROVE RInv'
  BY <1>2, RemovalInvNext
<1>3. ASSUME IInv, RInv, [Next]_vars PROVE [Whole]_vars
  <2>1. CASE UNCHANGED vars
    BY <2>1
  <2>2. CASE \E s \in Sessions : (Client(s) \/ Handler(s)) /\ History(s, FALSE)
    <3>1. PICK s \in Sessions : (Client(s) \/ Handler(s)) /\ History(s, FALSE)
      BY <2>2
    <3>2. ASSUME NEW u \in Sessions, Ends(u), plain[u]
          PROVE  IF reply'[u] = "250"
                 THEN reach[u] # {} /\ reach[u] \cap Live(fs') = {}
                 ELSE disturbed'[u] = disturbed[u] => reach[u] \subseteq Live(fs')
      <4>1. u = s
        BY <1>3, <3>1, <3>2, OthersStay DEF Ends, At, IInv
      <4>2. PlainRemoval(s)
        BY <1>3, <3>2, <4>1 DEF PlainRemoval
      <4>3. Returned(s) \/ GoingOn(s)
        BY <1>3, <3>1, <4>2, RemovalStep
      <4>4. Returned(s)
        BY <3>2, <4>1, <4>3 DEF GoingOn, Ends
      <4>. QED
        BY <4>1, <4>4 DEF Returned
    <3>. QED
      BY <3>2
  <2>3. CASE \E s \in Refused : Refuse(s) /\ History(s, TRUE)
    <3>1. PICK s \in Sessions : Refuse(s) /\ History(s, TRUE)
      BY <2>3, CommandAssumption
    <3>2. ASSUME NEW u \in Sessions, Ends(u), plain[u]
          PROVE  reply'[u] # "250" /\ disturbed'[u] # disturbed[u]
      <4>1. u = s /\ pc[u] # "idle" /\ pc'[u] = "idle"
        BY <1>3, <3>1, <3>2, OthersStay DEF Ends, At, IInv
      <4>2. Cmd(s) \in {"DELE", "RMD"} /\ job[s].cmd = Cmd(s) /\ Stage(pc[s], job[s])
            /\ pc \in [Sessions -> Calls \cup {"idle"}] /\ reply \in [Sessions -> Replies]
        BY <1>3, <3>2, <4>1, PlainRemovalFacts DEF PlainRemoval
      <4>3. disturbed[s] \in Nat /\ disturbed \in [Sessions -> Nat]
        BY <1>3 DEF IInv, TypeOK
      <4>4. disturbed'[s] = disturbed[s] + 1
        BY <3>1, <4>1, <4>3 DEF History
      <4>5. End(s, "550") \/ Goto(s, "rm") \/ Goto(s, "next")
        <5>1. CASE TestDir(s, FALSE)
          <6>1. AfterDir("RMD") = "rm"
            BY DEF AfterDir
          <6>2. Cmd(s) = "RMD"
            BY <4>2, <5>1 DEF TestDir, At, Stage
          <6> HIDE DEF End, Goto, AfterDir
          <6>. QED
            BY <5>1, <6>1, <6>2 DEF TestDir
        <5>2. CASE TestFile(s, FALSE)
          <6> HIDE DEF End, Goto
          <6>. QED
            BY <4>2, <5>2 DEF TestFile
        <5>3. ~MakeDir(s, FALSE) /\ ~At(s, "mkdir") /\ ~At(s, "mv")
          BY <4>2 DEF MakeDir, At, Stage
        <5>4. CASE RmFail(s)
          BY <5>4 DEF RmFail
        <5> HIDE DEF End, Goto, RmFail, TestDir, TestFile, MakeDir
        <5>. QED
          BY <3>1, <4>2, <5>1, <5>2, <5>3, <5>4 DEF Refuse
      <4>6. ~Goto(s, "rm") /\ ~Goto(s, "next")
        BY <4>1, <4>2 DEF Goto
      <4>7. reply'[s] = "550"
        BY <4>2, <4>5, <4>6 DEF End
      <4>. QED
        BY <4>1, <4>3, <4>4, <4>7
    <3>. QED
      BY <3>2
  <2>. QED
    BY <1>3, <2>1, <2>2, <2>3 DEF Next, Finished
<1> HIDE DEF RInv, Whole
<1>4. Spec => [][Whole]_vars
  BY IInvHolds, <1>1, <1>2, <1>3, PTL DEF Spec
<1>. QED
  BY <1>4 DEF Whole, RemovalWhole

=============================================================================
