-------------------------- MODULE DiagnosisProofs ---------------------------
(***************************************************************************)
(* The dependency tree parser and the diagnosis made from its trees, for   *)
(* every output of Maven, every failure and every pair of builds:          *)
(*                                                                         *)
(*   - the parser keeps the tree Maven printed, and the path to any of its *)
(*     dependencies starts at the project (PathsReachTheProject);          *)
(*   - the lead has the standing of the diagnosis (TheLeadIsTheBest), its  *)
(*     chain of evidence is whole (TheChainHolds), and what a supported    *)
(*     diagnosis says of the two builds is so (SupportedDiagnosesAreTrue); *)
(*   - a ready plan is for a true cause and allows the file that fails     *)
(*     (ReadyPlansAllowTheFailingFile).                                    *)
(*                                                                         *)
(* The way up a tree is a recursive function.  Induction over it is        *)
(* induction over the set of numbers that have the property: the least     *)
(* number outside that set would be neither 0 nor the successor of one     *)
(* inside (LeastNumber, SetInduction).                                     *)
(***************************************************************************)
EXTENDS Diagnosis, DependencyTree, FiniteSetTheorems, WellFoundedInduction,
        SequenceTheorems, TLAPS

-----------------------------------------------------------------------------
(* Numbers, walks and the way up a tree.                                   *)

\* The least of a set of numbers.
LEMMA LeastNumber ==
    ASSUME NEW T \in SUBSET Nat, T # {}
    PROVE  \E n \in T : \A m \in T : n <= m
  <1> DEFINE R == OpToRel(<, Nat)
  <1>1. IsWellFoundedOn(R, Nat)
    BY NatLessThanWellFounded
  <1>2. PICK x \in T : \A y \in T : ~ (<<y, x>> \in R)
    <2> HIDE DEF R
    <2> QED
      BY <1>1, WFMin
  <1>3. ASSUME NEW y \in Nat, y < x PROVE <<y, x>> \in R
    BY <1>3 DEF OpToRel
  <1>4. ASSUME NEW y \in T PROVE x <= y
    <2>1. ~ (<<y, x>> \in R)
      BY <1>2
    <2>2. ~ (y < x)
      BY <2>1, <1>3
    <2>3. QED
      BY <2>2
  <1>5. QED
    BY <1>4

\* Induction over numbers, for the set of those that have the property.
LEMMA SetInduction ==
    ASSUME NEW T \in SUBSET Nat, 0 \in T, \A n \in T : n + 1 \in T
    PROVE  T = Nat
  <1>1. SUFFICES ASSUME Nat \ T # {} PROVE FALSE
    OBVIOUS
  <1>2. PICK n \in Nat \ T : \A m \in Nat \ T : n <= m
    <2>1. Nat \ T \in SUBSET Nat
      OBVIOUS
    <2>2. QED
      BY <1>1, <2>1, LeastNumber
  <1>3. n # 0 /\ n - 1 \in Nat /\ ~ (n <= n - 1)
    BY <1>2
  <1>4. n - 1 \in T
    BY <1>2, <1>3
  <1>5. (n - 1) + 1 \in T
    BY <1>4
  <1>6. QED
    BY <1>2, <1>5

\* What starts somewhere in a set and moves on in it for a number of steps.
IsWalk(f, S, first, move, N) ==
    f \in [0..N -> S] /\ f[0] = first /\ \A n \in 1..N : f[n] = move[f[n - 1]]

\* There is a walk of every length.
LEMMA Walk ==
    ASSUME NEW S, NEW first \in S, NEW move \in [S -> S], NEW N \in Nat
    PROVE  \E f : IsWalk(f, S, first, move, N)
  <1> DEFINE Is(f, n) == f[0] = first /\ \A i \in 1..n : f[i] = move[f[i - 1]]
             T == {n \in Nat : \E f \in [0..n -> S] : Is(f, n)}
  <1>1. 0 \in T
    <2> DEFINE f == [i \in 0..0 |-> first]
    <2>1. f \in [0..0 -> S] /\ Is(f, 0)
      OBVIOUS
    <2> HIDE DEF f, Is
    <2>2. QED
      BY <2>1
  <1>2. ASSUME NEW n \in T PROVE n + 1 \in T
    <2>1. PICK f \in [0..n -> S] : Is(f, n)
      OBVIOUS
    <2> DEFINE g == [i \in 0..(n + 1) |-> IF i = n + 1 THEN move[f[n]] ELSE f[i]]
    <2>2. g \in [0..(n + 1) -> S]
      OBVIOUS
    <2>3. ASSUME NEW i \in 1..(n + 1)
          PROVE  g[i] = move[g[i - 1]]
      <3>1. i - 1 \in 0..n /\ i - 1 # n + 1 /\ i - 1 \in 0..(n + 1)
        OBVIOUS
      <3>2. g[i - 1] = f[i - 1]
        BY <3>1
      <3>3. CASE i = n + 1
        BY <3>2, <3>3
      <3>4. CASE i # n + 1
        <4>1. i \in 1..n /\ g[i] = f[i]
          BY <3>4
        <4>2. QED
          BY <2>1, <3>2, <4>1
      <3>5. QED
        BY <3>3, <3>4
    <2>4. Is(g, n + 1)
      <3>1. g[0] = first
        BY <2>1
      <3> HIDE DEF g
      <3>2. QED
        BY <2>3, <3>1
    <2>5. n + 1 \in Nat
      OBVIOUS
    <2> HIDE DEF g, Is
    <2>6. QED
      BY <2>2, <2>4, <2>5
  <1>3. T = Nat
    <2>1. T \in SUBSET Nat
      OBVIOUS
    <2> HIDE DEF T
    <2> QED
      BY <1>1, <1>2, <2>1, SetInduction
  <1>4. PICK f \in [0..N -> S] : Is(f, N)
    BY <1>3
  <1>5. QED
    BY <1>4 DEF IsWalk

\* What is met going up unfolds one step at a time.
LEMMA ClimbUnfolds ==
    ASSUME NEW tree \in Seq(Node), NEW key
    PROVE  Climb(tree, key) =
               [n \in 0..Len(tree) |->
                   IF n = 0 THEN IF key \in KeysOf(tree) THEN <<key>> ELSE <<>>
                   ELSE Further(tree, Climb(tree, key)[n - 1])]
  <1> DEFINE N == Len(tree)
             Met == Seq(KeysOf(tree))
             first == IF key \in KeysOf(tree) THEN <<key>> ELSE <<>>
             move == [met \in Met |-> Further(tree, met)]
  <1>1. first \in Met
    OBVIOUS
  <1>2. move \in [Met -> Met]
    <2>1. ASSUME NEW met \in Met PROVE Further(tree, met) \in Met
      BY DEF Further
    <2>2. QED
      BY <2>1
  <1>3. N \in Nat
    OBVIOUS
  <1>4. PICK f \in [0..N -> Met] : f[0] = first /\ \A n \in 1..N : f[n] = move[f[n - 1]]
    <2> HIDE DEF Met, first, move, N
    <2>1. \E f : IsWalk(f, Met, first, move, N)
      BY <1>1, <1>2, <1>3, Walk
    <2>2. QED
      BY <2>1 DEF IsWalk
  <1>5. f = [n \in 0..N |-> IF n = 0 THEN first ELSE Further(tree, f[n - 1])]
    <2>1. ASSUME NEW n \in 0..N, n # 0
          PROVE  f[n] = Further(tree, f[n - 1])
      <3> HIDE DEF Met, N
      <3>1. n - 1 \in 0..N /\ n \in 1..N
        BY <1>3, <2>1
      <3>2. f[n - 1] \in Met
        BY <3>1
      <3>3. QED
        BY <1>4, <3>1, <3>2
    <2> HIDE DEF Met, move, first, N
    <2>2. QED
      BY <1>4, <2>1
  <1>6. Climb(tree, key) = CHOOSE up : up = [n \in 0..Len(tree) |-> 
                   IF n = 0 THEN IF key \in KeysOf(tree) THEN <<key>> ELSE <<>>
                   ELSE Further(tree, up[n - 1])]
    BY DEF Climb
  <1>7. QED
    BY <1>5, <1>6

\* Where the node of a key stands in the tree.
PlaceOf(tree, key) == CHOOSE i \in DOMAIN tree : tree[i].key = key

\* The tree has one node at most for each key, and the parent of a node comes before it.
IsTree(tree) ==
    /\ tree \in Seq(Node)
    /\ \A i, j \in DOMAIN tree : tree[i].key = tree[j].key => i = j
    /\ \A i \in DOMAIN tree : tree[i].parent # None =>
          \E j \in 1..(i - 1) : tree[j].key = tree[i].parent

\* A key has its place, and its node stands there.
LEMMA PlaceOfKey ==
    ASSUME NEW tree, NEW key \in KeysOf(tree)
    PROVE  /\ PlaceOf(tree, key) \in DOMAIN tree
           /\ NodeAt(tree, key) = tree[PlaceOf(tree, key)]
           /\ NodeAt(tree, key).key = key
  BY DEF KeysOf, PlaceOf, NodeAt

\* None is the key of no node.
LEMMA KeysAreNotNone ==
    ASSUME NEW tree \in Seq(Node)
    PROVE  KeysOf(tree) \subseteq Keys /\ None \notin KeysOf(tree)
  <1>1. ASSUME NEW i \in DOMAIN tree PROVE tree[i].key \in Keys
    <2>1. tree[i] \in Node
      OBVIOUS
    <2>2. QED
      BY <2>1 DEF Node
  <1>2. QED
    BY <1>1, KeyAssumption DEF KeysOf

\* Whatever was met, each key is the parent of the one before.
IsChain(tree, key, met) ==
    /\ met \in Seq(KeysOf(tree))
    /\ key \in KeysOf(tree) => met # <<>> /\ met[1] = key
    /\ \A i \in 2..Len(met) : met[i] = NodeAt(tree, met[i - 1]).parent

\* One step further up a chain stays a chain.
LEMMA FurtherKeepsChain ==
    ASSUME NEW tree, NEW key, NEW met, IsChain(tree, key, met)
    PROVE  IsChain(tree, key, Further(tree, met))
  <1> DEFINE parent == NodeAt(tree, met[Len(met)]).parent
  <1>1. CASE Further(tree, met) = met
    BY <1>1
  <1>2. CASE Further(tree, met) # met
    <2>1. /\ met # <<>> /\ parent \in KeysOf(tree)
          /\ Further(tree, met) = Append(met, parent)
      BY <1>2 DEF Further
    <2>2. met \in Seq(KeysOf(tree)) /\ Len(met) \in Nat /\ DOMAIN met = 1..Len(met)
      BY DEF IsChain
    <2> DEFINE longer == Append(met, parent)
    <2> HIDE DEF parent
    <2>3. /\ longer \in Seq(KeysOf(tree)) /\ Len(longer) = Len(met) + 1
          /\ \A i \in 1..Len(met) : longer[i] = met[i]
          /\ longer[Len(met) + 1] = parent
      BY <2>1, <2>2
    <2>4. Len(met) # 0
      BY <2>1, <2>2
    <2>5. longer # <<>> /\ (key \in KeysOf(tree) => longer[1] = key)
      BY <2>2, <2>3, <2>4 DEF IsChain
    <2>6. ASSUME NEW i \in 2..Len(longer)
          PROVE  longer[i] = NodeAt(tree, longer[i - 1]).parent
      <3>1. i - 1 \in 1..Len(met) /\ longer[i - 1] = met[i - 1]
        BY <2>2, <2>3
      <3>2. CASE i = Len(met) + 1
        BY <2>2, <2>3, <3>1, <3>2 DEF parent
      <3>3. CASE i # Len(met) + 1
        <4>1. i \in 2..Len(met) /\ longer[i] = met[i]
          BY <2>2, <2>3, <3>3
        <4>2. QED
          BY <3>1, <4>1 DEF IsChain
      <3>4. QED
        BY <3>2, <3>3
    <2> HIDE DEF longer
    <2>7. IsChain(tree, key, longer)
      BY <2>3, <2>5, <2>6 DEF IsChain
    <2>8. QED
      BY <2>1, <2>7 DEF longer
  <1>3. QED
    BY <1>1, <1>2

\* The keys that are met in any number of steps are a chain.
LEMMA ClimbIsChain ==
    ASSUME NEW tree \in Seq(Node), NEW key, NEW n \in 0..Len(tree)
    PROVE  IsChain(tree, key, Climb(tree, key)[n])
  <1> DEFINE up == Climb(tree, key)
             T == {m \in Nat : m \in 0..Len(tree) => IsChain(tree, key, up[m])}
  <1>1. up = [m \in 0..Len(tree) |->
                 IF m = 0 THEN IF key \in KeysOf(tree) THEN <<key>> ELSE <<>>
                 ELSE Further(tree, up[m - 1])]
    BY ClimbUnfolds
  <1> HIDE DEF up
  <1>2. Len(tree) \in Nat
    OBVIOUS
  <1>3. 0 \in T
    <2>1. up[0] = IF key \in KeysOf(tree) THEN <<key>> ELSE <<>>
      BY <1>1, <1>2
    <2>2. IsChain(tree, key, up[0])
      BY <2>1 DEF IsChain
    <2>3. QED
      BY <2>2
  <1>4. ASSUME NEW m \in T PROVE m + 1 \in T
    <2>1. SUFFICES ASSUME m + 1 \in 0..Len(tree)
                   PROVE  IsChain(tree, key, up[m + 1])
      OBVIOUS
    <2>2. m \in 0..Len(tree) /\ m + 1 # 0 /\ (m + 1) - 1 = m
      BY <2>1
    <2>3. up[m + 1] = Further(tree, up[m])
      BY <1>1, <2>1, <2>2
    <2>4. QED
      BY <2>2, <2>3, FurtherKeepsChain
  <1>5. T = Nat
    <2>1. T \in SUBSET Nat
      OBVIOUS
    <2> HIDE DEF T
    <2>2. QED
      BY <1>3, <1>4, <2>1, SetInduction
  <1>6. n \in T
    BY <1>2, <1>5
  <1>7. QED
    BY <1>6 DEF up

\* The parent of a node of a tree stands before it, and there is none at the top.
LEMMA ParentIsBefore ==
    ASSUME NEW tree, IsTree(tree), NEW key \in KeysOf(tree),
           NEW parent, parent = NodeAt(tree, key).parent, parent # None
    PROVE  parent \in KeysOf(tree) /\ PlaceOf(tree, parent) + 1 <= PlaceOf(tree, key)
  <1> DEFINE p == PlaceOf(tree, key)
  <1>1. p \in DOMAIN tree /\ NodeAt(tree, key) = tree[p]
    BY PlaceOfKey
  <1>2. DOMAIN tree = 1..Len(tree) /\ Len(tree) \in Nat
    BY DEF IsTree
  <1> HIDE DEF p
  <1>3. PICK j \in 1..(p - 1) : tree[j].key = parent
    BY <1>1 DEF IsTree
  <1>4. j \in DOMAIN tree
    BY <1>1, <1>2
  <1>5. parent \in KeysOf(tree)
    BY <1>3, <1>4 DEF KeysOf
  <1>6. PlaceOf(tree, parent) \in DOMAIN tree /\ tree[PlaceOf(tree, parent)].key = parent
    BY <1>5, PlaceOfKey
  <1>7. PlaceOf(tree, parent) = j
    BY <1>3, <1>4, <1>6 DEF IsTree
  <1>8. QED
    BY <1>1, <1>2, <1>3, <1>5, <1>7 DEF p

\* Going up a tree, one goes back in the output Maven printed, by a node a step at least.
LEMMA ChainGoesBack ==
    ASSUME NEW tree, IsTree(tree), NEW key, NEW met, IsChain(tree, key, met),
           NEW i \in 1..Len(met), NEW j \in i..Len(met)
    PROVE  PlaceOf(tree, met[j]) + (j - i) <= PlaceOf(tree, met[i])
  <1> DEFINE Place(m) == PlaceOf(tree, met[m])
             T == {d \in Nat : i + d <= Len(met) => Place(i + d) + d <= Place(i)}
  <1>1. met \in Seq(KeysOf(tree)) /\ Len(met) \in Nat
    BY DEF IsChain
  <1>2. \A m \in 1..Len(met) : met[m] \in KeysOf(tree) /\ Place(m) \in Nat
    <2>1. SUFFICES ASSUME NEW m \in 1..Len(met)
                   PROVE  met[m] \in KeysOf(tree) /\ PlaceOf(tree, met[m]) \in Nat
      OBVIOUS
    <2>2. met[m] \in KeysOf(tree)
      BY <1>1
    <2>3. PlaceOf(tree, met[m]) \in DOMAIN tree
      BY <2>2, PlaceOfKey
    <2>4. tree \in Seq(Node)
      BY DEF IsTree
    <2>5. QED
      BY <2>2, <2>3, <2>4
  <1>3. 0 \in T
    <2>1. i + 0 = i /\ Place(i) \in Nat
      BY <1>1, <1>2
    <2> HIDE DEF Place
    <2>2. QED
      BY <2>1
  <1>4. ASSUME NEW d \in T PROVE d + 1 \in T
    <2>1. SUFFICES ASSUME i + (d + 1) <= Len(met)
                   PROVE  Place(i + (d + 1)) + (d + 1) <= Place(i)
      OBVIOUS
    <2> DEFINE here == i + d
    <2>2. /\ here \in 1..Len(met) /\ here + 1 \in 2..Len(met)
          /\ here + 1 = i + (d + 1) /\ (here + 1) - 1 = here /\ here + 1 \in 1..Len(met)
      BY <1>1, <2>1
    <2>3. Place(here) + d <= Place(i)
      BY <2>2
    <2>4. Place(here + 1) + 1 <= Place(here)
      <3>1. met[here + 1] = NodeAt(tree, met[here]).parent
        BY <2>2 DEF IsChain
      <3>2. met[here] \in KeysOf(tree) /\ met[here + 1] \in KeysOf(tree)
        BY <1>2, <2>2
      <3>3. met[here + 1] # None
        BY <3>2, KeysAreNotNone DEF IsTree
      <3> HIDE DEF here
      <3>4. QED
        BY <3>1, <3>2, <3>3, ParentIsBefore
    <2>5. Place(here) \in Nat /\ Place(here + 1) \in Nat /\ Place(i) \in Nat
      BY <1>2, <2>2
    <2> HIDE DEF Place
    <2>6. QED
      BY <2>2, <2>3, <2>4, <2>5
  <1>5. T = Nat
    <2>1. T \in SUBSET Nat
      OBVIOUS
    <2> HIDE DEF T
    <2>2. QED
      BY <1>3, <1>4, <2>1, SetInduction
  <1>6. j - i \in Nat /\ i + (j - i) = j /\ j <= Len(met)
    BY <1>1
  <1>7. j - i \in T
    <2> HIDE DEF T
    <2>1. QED
      BY <1>5, <1>6
  <1>8. QED
    BY <1>6, <1>7

\* In a tree the way up never turns back to a key it met: after so many steps it
\* has met one key more, or is at the top.
LEMMA ClimbGoesOn ==
    ASSUME NEW tree, IsTree(tree), NEW key \in KeysOf(tree), NEW n \in 0..Len(tree)
    PROVE  LET met == Climb(tree, key)[n]
           IN  Len(met) = n + 1 \/ NodeAt(tree, met[Len(met)]).parent = None
  <1> DEFINE up == Climb(tree, key)
             Top(met) == NodeAt(tree, met[Len(met)]).parent = None
             T == {m \in Nat : m \in 0..Len(tree) => Len(up[m]) = m + 1 \/ Top(up[m])}
  <1>1. tree \in Seq(Node) /\ Len(tree) \in Nat
    BY DEF IsTree
  <1>2. up = [m \in 0..Len(tree) |->
                 IF m = 0 THEN IF key \in KeysOf(tree) THEN <<key>> ELSE <<>>
                 ELSE Further(tree, up[m - 1])]
    BY <1>1, ClimbUnfolds
  <1>3. \A m \in 0..Len(tree) : IsChain(tree, key, up[m])
    BY <1>1, ClimbIsChain
  <1> HIDE DEF up
  <1>4. 0 \in T
    <2>1. up[0] = <<key>>
      BY <1>1, <1>2
    <2>2. Len(up[0]) = 0 + 1
      BY <2>1
    <2>3. QED
      BY <2>2
  <1>5. ASSUME NEW m \in T PROVE m + 1 \in T
    <2> DEFINE met == up[m]
               parent == NodeAt(tree, met[Len(met)]).parent
    <2>1. SUFFICES ASSUME m + 1 \in 0..Len(tree)
                   PROVE  Len(up[m + 1]) = (m + 1) + 1 \/ Top(up[m + 1])
      OBVIOUS
    <2>2. m \in 0..Len(tree) /\ m + 1 # 0 /\ (m + 1) - 1 = m
      BY <1>1, <2>1
    <2>3. up[m + 1] = Further(tree, met)
      BY <1>2, <2>1, <2>2
    <2>4. Len(met) = m + 1 \/ parent = None
      BY <2>2
    <2>5. IsChain(tree, key, met)
      BY <1>3, <2>2
    <2>6. met \in Seq(KeysOf(tree)) /\ Len(met) \in Nat \ {0} /\ met # <<>>
      BY <2>5 DEF IsChain
    <2>7. met[Len(met)] \in KeysOf(tree)
      BY <2>6
    <2>8. CASE parent = None
      <3>1. parent \notin KeysOf(tree)
        BY <1>1, <2>8, KeysAreNotNone
      <3>2. Further(tree, met) = met
        BY <2>6, <3>1 DEF Further
      <3>3. QED
        BY <2>3, <2>8, <3>2
    <2>9. CASE parent # None /\ Len(met) = m + 1
      <3>1. parent \in KeysOf(tree) /\ PlaceOf(tree, parent) + 1 <= PlaceOf(tree, met[Len(met)])
        <4> DEFINE last == met[Len(met)]
        <4>1. last \in KeysOf(tree) /\ parent = NodeAt(tree, last).parent /\ parent # None
          BY <2>7, <2>9
        <4> HIDE DEF last, parent
        <4>2. parent \in KeysOf(tree) /\ PlaceOf(tree, parent) + 1 <= PlaceOf(tree, last)
          BY <4>1, ParentIsBefore
        <4>3. QED
          BY <4>2 DEF last
      <3>2. ASSUME NEW i \in DOMAIN met, met[i] = parent
            PROVE  FALSE
        <4>1. i \in 1..Len(met) /\ Len(met) \in i..Len(met)
          BY <2>6
        <4>2. PlaceOf(tree, met[Len(met)]) + (Len(met) - i) <= PlaceOf(tree, met[i])
          BY <2>5, <4>1, ChainGoesBack
        <4>3. /\ PlaceOf(tree, parent) \in DOMAIN tree
              /\ PlaceOf(tree, met[Len(met)]) \in DOMAIN tree
          BY <2>7, <3>1, PlaceOfKey
        <4>4. PlaceOf(tree, parent) \in Nat /\ PlaceOf(tree, met[Len(met)]) \in Nat
          BY <1>1, <4>3
        <4> HIDE DEF parent, met
        <4>5. QED
          BY <2>6, <3>1, <3>2, <4>1, <4>2, <4>4
      <3>3. Further(tree, met) = Append(met, parent)
        BY <2>6, <3>1, <3>2 DEF Further
      <3>4. Len(Append(met, parent)) = Len(met) + 1
        BY <2>6
      <3>5. QED
        BY <2>3, <2>9, <3>3, <3>4
    <2>10. QED
      BY <2>4, <2>8, <2>9
  <1>6. T = Nat
    <2>1. T \in SUBSET Nat
      OBVIOUS
    <2> HIDE DEF T
    <2>2. QED
      BY <1>4, <1>5, <2>1, SetInduction
  <1>7. n \in T
    BY <1>1, <1>6
  <1>8. QED
    BY <1>7 DEF up

\* The path down to a key is the way up from it, backwards: it ends at the key,
\* and each of its keys is the parent of the next.
IsPathTo(tree, key, path) ==
    /\ path \in Seq(KeysOf(tree)) /\ path # <<>> /\ path[Len(path)] = key
    /\ \A i \in 2..Len(path) : NodeAt(tree, path[i]).parent = path[i - 1]

\* The path that is reported is one.
LEMMA PathIsChain ==
    ASSUME NEW tree \in Seq(Node), NEW key \in KeysOf(tree)
    PROVE  IsPathTo(tree, key, DependencyPath(tree, key))
  <1> DEFINE path == DependencyPath(tree, key)
             up == Ascent(tree, key)
             n == Len(up)
  <1>1. IsChain(tree, key, up)
    <2>1. Len(tree) \in 0..Len(tree)
      OBVIOUS
    <2>2. QED
      BY <2>1, ClimbIsChain DEF Ascent
  <1> HIDE DEF up
  <1>2. up \in Seq(KeysOf(tree)) /\ n \in Nat \ {0} /\ up[1] = key
    BY <1>1 DEF IsChain
  <1>3. path = [i \in 1..n |-> up[n + 1 - i]]
    BY DEF DependencyPath, up
  <1> HIDE DEF n, path
  <1>4. \A i \in 1..n : n + 1 - i \in 1..n /\ up[n + 1 - i] \in KeysOf(tree)
    BY <1>2 DEF n
  <1>5. path \in Seq(KeysOf(tree)) /\ Len(path) = n
    BY <1>2, <1>3, <1>4
  <1>6. path[n] = key /\ path # <<>>
    <2>1. n \in Nat \ {0} /\ n \in 1..n /\ n + 1 - n = 1
      BY <1>2
    <2>2. path[n] = up[1]
      BY <1>3, <2>1
    <2>3. QED
      BY <1>2, <1>5, <2>1, <2>2
  <1>7. ASSUME NEW i \in 2..n
        PROVE  NodeAt(tree, path[i]).parent = path[i - 1]
    <2> DEFINE j == n + 2 - i
    <2>1. /\ j \in 2..n /\ path[i] = up[j - 1] /\ path[i - 1] = up[j]
      BY <1>2, <1>3
    <2>2. up[j] = NodeAt(tree, up[j - 1]).parent
      BY <1>1, <2>1 DEF IsChain, n
    <2>3. QED
      BY <2>1, <2>2
  <1>8. QED
    BY <1>5, <1>6, <1>7 DEF IsPathTo, path

\* In a tree the path starts at a node without a parent.
LEMMA PathStartsAtTop ==
    ASSUME NEW tree, IsTree(tree), NEW key \in KeysOf(tree), NEW path, path = DependencyPath(tree, key)
    PROVE  NodeAt(tree, path[1]).parent = None
  <1> DEFINE up == Climb(tree, key)[Len(tree)]
             n == Len(up)
  <1>1. tree \in Seq(Node) /\ Len(tree) \in Nat /\ Len(tree) \in 0..Len(tree)
    BY DEF IsTree
  <1>2. IsChain(tree, key, up) /\ (n = Len(tree) + 1 \/ NodeAt(tree, up[n]).parent = None)
    BY <1>1, ClimbIsChain, ClimbGoesOn
  <1>3. path = [i \in 1..n |-> up[n + 1 - i]]
    BY DEF DependencyPath, Ascent
  <1> HIDE DEF up
  <1>4. up \in Seq(KeysOf(tree)) /\ n \in Nat \ {0}
    BY <1>2 DEF IsChain
  <1>5. path[1] = up[n]
    BY <1>3, <1>4
  <1>6. n # Len(tree) + 1
    <2>1. SUFFICES ASSUME n = Len(tree) + 1 PROVE FALSE
      OBVIOUS
    <2>2. 1 \in 1..n /\ n \in 1..n
      BY <1>4
    <2>3. PlaceOf(tree, up[n]) + (n - 1) <= PlaceOf(tree, up[1])
      BY <1>2, <2>2, ChainGoesBack
    <2>4. up[1] \in KeysOf(tree) /\ up[n] \in KeysOf(tree)
      BY <1>4
    <2>5. PlaceOf(tree, up[1]) \in DOMAIN tree /\ PlaceOf(tree, up[n]) \in DOMAIN tree
      BY <2>4, PlaceOfKey
    <2>6. PlaceOf(tree, up[1]) \in 1..Len(tree) /\ PlaceOf(tree, up[n]) \in 1..Len(tree)
      BY <1>1, <2>5
    <2>7. QED
      BY <1>1, <1>4, <2>1, <2>3, <2>6
  <1>7. QED
    BY <1>2, <1>5, <1>6

-----------------------------------------------------------------------------
(* The tree parser.                                                        *)

\* Every active parent is a node that was kept: what makes the parent of the
\* next entry an earlier node.
ActiveParentsAreKept ==
    \A d \in Depths : parents[d] # None => \E j \in DOMAIN nodes : nodes[j].key = parents[d]

\* A repeated entry is not kept: what makes the way up a walk over nodes.
KeysAreUnique == \A i, j \in DOMAIN nodes : nodes[i].key = nodes[j].key => i = j

\* The inductive invariant.
ParserInv == ParserTypeOK /\ ActiveParentsAreKept /\ KeysAreUnique /\ ParentsComeFirst

\* The fields of an entry are what the alphabet of lines says they are.
LEMMA EntryFields ==
    ASSUME NEW line \in Line, line.form = "entry"
    PROVE  line.depth \in Depths /\ line.key \in Keys /\ line.version \in Versions
  BY DEF Line

\* Nothing has been read yet: the invariant holds.
LEMMA ParserInvInit == ParseInit => ParserInv
  <1>1. SUFFICES ASSUME ParseInit PROVE ParserInv
    OBVIOUS
  <1>2. ParserTypeOK
    BY <1>1 DEF ParseInit, ParserTypeOK, NoParents
  <1>3. ActiveParentsAreKept /\ KeysAreUnique /\ ParentsComeFirst
    BY <1>1 DEF ParseInit, NoParents, ActiveParentsAreKept, KeysAreUnique, ParentsComeFirst
  <1>4. QED
    BY <1>2, <1>3 DEF ParserInv

\* A step that keeps the nodes and activates no new parent keeps the invariant.
LEMMA ParserSameNodes ==
    ASSUME ParserInv, ParserTypeOK', nodes' = nodes,
           \A d \in Depths : parents'[d] \in {parents[d], None}
    PROVE  ParserInv'
  <1>1. ActiveParentsAreKept'
    BY DEF ParserInv, ActiveParentsAreKept
  <1>2. KeysAreUnique' /\ ParentsComeFirst'
    BY DEF ParserInv, KeysAreUnique, ParentsComeFirst
  <1>3. QED
    BY <1>1, <1>2 DEF ParserInv

\* An entry read below its active parent: the node that may be added has a
\* parent that was kept, and the entry's own key is kept when it is activated.
LEMMA ParserEntryStep ==
    ASSUME ParserInv, NEW line \in Line, ReadEntry(line)
    PROVE  ParserInv'
  <1> DEFINE node == [key |-> line.key, version |-> line.version,
                      depth |-> line.depth, parent |-> ActiveParent(line)]
             kept == line.key \in KeysOf(nodes)
  <1>1. /\ line.form = "entry" /\ ~Orphan(line)
        /\ nodes' = IF kept THEN nodes ELSE Append(nodes, node)
        /\ parents' = AfterEntry(line)
        /\ text' = Append(text, line) /\ projects' = projects /\ phase' = phase
    BY DEF ReadEntry
  <1>2. line.depth \in Depths /\ line.key \in Keys /\ line.version \in Versions
    BY <1>1, EntryFields
  <1>3. line.depth \in Nat \ {0} /\ (line.depth # 1 => line.depth - 1 \in Depths)
    BY <1>2, BoundAssumption DEF Depths
  <1>4. /\ ActiveParent(line) \in Keys \union {None}
        /\ line.depth = 1 <=> ActiveParent(line) = None
        /\ ActiveParent(line) # None =>
              \E j \in DOMAIN nodes : nodes[j].key = ActiveParent(line)
    <2>1. CASE line.depth = 1
      BY <2>1 DEF ActiveParent
    <2>2. CASE line.depth # 1
      <3>1. ActiveParent(line) = parents[line.depth - 1] /\ line.depth - 1 \in Depths
        BY <2>2, <1>3 DEF ActiveParent
      <3>2. ActiveParent(line) # None
        BY <1>1, <1>3, <2>2 DEF Orphan
      <3>3. QED
        BY <2>2, <3>1, <3>2 DEF ParserInv, ParserTypeOK, ActiveParentsAreKept
    <2>3. QED
      BY <2>1, <2>2
  <1>5. node \in Node
    BY <1>2, <1>3, <1>4 DEF Node
  <1>6. nodes \in Seq(Node) /\ nodes' \in Seq(Node)
    BY <1>1, <1>5 DEF ParserInv, ParserTypeOK
  <1>7. parents' \in [Depths -> Keys \union {None}]
    BY <1>1, <1>2 DEF AfterEntry, ParserInv, ParserTypeOK
  <1>8. ParserTypeOK'
    BY <1>1, <1>6, <1>7 DEF ParserInv, ParserTypeOK
  <1>9. \A j \in DOMAIN nodes : j \in DOMAIN nodes' /\ nodes'[j] = nodes[j]
    BY <1>1, <1>6
  <1>10. \E j \in DOMAIN nodes' : nodes'[j].key = line.key
    <2>1. CASE kept
      BY <2>1, <1>1 DEF KeysOf
    <2>2. CASE ~kept
      <3>1. nodes' = Append(nodes, node)
        BY <2>2, <1>1
      <3>2. Len(nodes) + 1 \in DOMAIN nodes' /\ nodes'[Len(nodes) + 1] = node
        BY <3>1, <1>6
      <3>3. node.key = line.key
        OBVIOUS
      <3>4. QED
        BY <3>2, <3>3
    <2>3. QED
      BY <2>1, <2>2
  <1>11. ActiveParentsAreKept'
    <2>1. SUFFICES ASSUME NEW d \in Depths, parents'[d] # None
                   PROVE  \E j \in DOMAIN nodes' : nodes'[j].key = parents'[d]
      BY DEF ActiveParentsAreKept
    <2>2. parents'[d] = IF d < line.depth THEN parents[d]
                        ELSE IF d = line.depth THEN line.key ELSE None
      BY <1>1, <2>1 DEF AfterEntry
    <2>3. CASE d < line.depth
      BY <2>1, <2>2, <2>3, <1>9 DEF ParserInv, ActiveParentsAreKept
    <2>4. CASE d = line.depth
      BY <1>2, <1>3, <2>2, <2>4, <1>10
    <2>5. QED
      BY <2>1, <2>2, <2>3, <2>4
  <1>12. ParentsComeFirst'
    <2>1. CASE kept
      BY <2>1, <1>1 DEF ParserInv, ParentsComeFirst
    <2>2. CASE ~kept
      <3>1. nodes' = Append(nodes, node)
        BY <2>2, <1>1
      <3>2. SUFFICES ASSUME NEW i \in DOMAIN nodes'
                     PROVE  /\ nodes'[i].depth = 1 <=> nodes'[i].parent = None
                            /\ nodes'[i].parent # None =>
                                  \E j \in 1..(i - 1) : nodes'[j].key = nodes'[i].parent
        BY DEF ParentsComeFirst
      <3>3. CASE i \in DOMAIN nodes
        <4>1. nodes'[i] = nodes[i] /\ i \in 1..Len(nodes)
          BY <3>3, <1>6, <1>9
        <4>2. \A j \in 1..(i - 1) : nodes'[j] = nodes[j]
          BY <4>1, <1>6, <1>9
        <4>3. QED
          BY <3>3, <4>1, <4>2 DEF ParserInv, ParentsComeFirst
      <3>4. CASE i \notin DOMAIN nodes
        <4>1. i = Len(nodes) + 1 /\ nodes'[i] = node /\ DOMAIN nodes = 1..(i - 1)
          BY <3>1, <3>4, <1>6
        <4>2. node.depth = line.depth /\ node.parent = ActiveParent(line)
          OBVIOUS
        <4>3. QED
          BY <1>4, <1>9, <4>1, <4>2
      <3>5. QED
        BY <3>3, <3>4
    <2>3. QED
      BY <2>1, <2>2
  <1>13. KeysAreUnique'
    <2>1. CASE kept
      BY <2>1, <1>1 DEF ParserInv, KeysAreUnique
    <2>2. CASE ~kept
      <3>1. nodes' = Append(nodes, node) /\ node.key = line.key
        BY <2>2, <1>1
      <3>2. \A i \in DOMAIN nodes : nodes[i].key # line.key
        BY <2>2 DEF KeysOf
      <3>3. \A i \in DOMAIN nodes' : i \in DOMAIN nodes \/ i = Len(nodes) + 1
        BY <3>1, <1>6
      <3>4. nodes'[Len(nodes) + 1] = node
        BY <3>1, <1>6
      <3>5. QED
        BY <3>1, <3>2, <3>3, <3>4, <1>9 DEF ParserInv, KeysAreUnique
    <2>3. QED
      BY <2>1, <2>2
  <1>14. QED
    BY <1>8, <1>11, <1>12, <1>13 DEF ParserInv

\* Every step keeps the invariant.
LEMMA ParserInvStep == ParserInv /\ [ParseNext]_parserVars => ParserInv'
  <1>1. SUFFICES ASSUME ParserInv, [ParseNext]_parserVars PROVE ParserInv'
    OBVIOUS
  <1>2. ASSUME NEW line \in Line, ReadProject(line) PROVE ParserInv'
    <2>1. ParserTypeOK'
      BY <1>1, <1>2 DEF ReadProject, ParserInv, ParserTypeOK, NoParents
    <2>2. QED
      BY <1>1, <1>2, <2>1, ParserSameNodes DEF ReadProject, NoParents
  <1>3. ASSUME NEW line \in Line, ReadOmitted(line) PROVE ParserInv'
    <2>1. parents' = [d \in Depths |-> IF d < line.depth THEN parents[d] ELSE None]
      BY <1>3 DEF ReadOmitted, AfterOmitted
    <2>2. ParserTypeOK'
      BY <1>1, <1>3, <2>1 DEF ReadOmitted, ParserInv, ParserTypeOK
    <2>3. QED
      BY <1>1, <1>3, <2>1, <2>2, ParserSameNodes DEF ReadOmitted
  <1>4. ASSUME NEW line \in Line, ReadEntry(line) PROVE ParserInv'
    BY <1>1, <1>4, ParserEntryStep
  <1>5. ASSUME NEW line \in Line, ReadUnusable(line) PROVE ParserInv'
    <2>1. ParserTypeOK' /\ nodes' = nodes /\ parents' = parents
      BY <1>1, <1>5 DEF ReadUnusable, Reject, ParserInv, ParserTypeOK
    <2>2. QED
      BY <1>1, <2>1, ParserSameNodes
  <1>6. ASSUME Finish PROVE ParserInv'
    <2>1. ParserTypeOK' /\ nodes' = nodes /\ parents' = parents
      BY <1>1, <1>6 DEF Finish, ParserInv, ParserTypeOK
    <2>2. QED
      BY <1>1, <2>1, ParserSameNodes
  <1>7. CASE UNCHANGED parserVars
    <2>1. ParserTypeOK' /\ nodes' = nodes /\ parents' = parents
      BY <1>1, <1>7 DEF parserVars, ParserInv, ParserTypeOK
    <2>2. QED
      BY <1>1, <2>1, ParserSameNodes
  <1>8. QED
    BY <1>1, <1>2, <1>3, <1>4, <1>5, <1>6, <1>7 DEF ParseNext, Read

\* The parser's state is well typed, whatever it reads.
THEOREM TheParserIsWellTyped == ParseSpec => []ParserTypeOK
  <1>1. ParserInv => ParserTypeOK
    BY DEF ParserInv
  <1>2. QED
    BY <1>1, ParserInvInit, ParserInvStep, PTL DEF ParseSpec

\* Whatever the parser reads, the parent of a node is an earlier node: the way
\* up from a changed dependency is finite and ends at a dependency of the
\* project, for any number of keys, levels and lines.
THEOREM WayUpIsFinite == ParseSpec => []ParentsComeFirst
  <1>1. ParserInv => ParentsComeFirst
    BY DEF ParserInv
  <1>2. QED
    BY <1>1, ParserInvInit, ParserInvStep, PTL DEF ParseSpec

-----------------------------------------------------------------------------

\* Lines that are printed at some depth of the tree.
Placed(line) == line.form \in {"entry", "omitted"}

\* Between lines m and l nothing ends what line m, at depth d, has begun.
NothingEnds(lines, m, l, d) ==
    \A n \in (m + 1)..(l - 1) :
        /\ lines[n].form # "project"
        /\ Placed(lines[n]) => lines[n].depth > d

\* Line m is the entry for key at depth d that a line l one level below belongs to.
IsAbove(lines, m, l, d, key) ==
    /\ lines[m].form = "entry" /\ lines[m].depth = d /\ lines[m].key = key
    /\ NothingEnds(lines, m, l, d)

\* An active parent is the last line at its depth or above.
ActiveParentsAreAbove ==
    phase = "reading" =>
        \A d \in Depths : parents[d] # None =>
            \E m \in DOMAIN text : IsAbove(text, m, Len(text) + 1, d, parents[d])

\* As long as nothing was refused, the key of every entry is among the nodes.
EveryEntryIsKept ==
    phase = "reading" =>
        \A l \in DOMAIN text : text[l].form = "entry" => text[l].key \in KeysOf(nodes)

IsEntryFor(line, key) == line.form = "entry" /\ line.key = key

\* Line l is the first entry for key.
IsFirst(lines, l, key) ==
    /\ IsEntryFor(lines[l], key)
    /\ \A m \in 1..(l - 1) : ~IsEntryFor(lines[m], key)

\* A node was read from the first entry for its key, below the entry for its parent.
IsReadFrom(node, lines, l) ==
    /\ IsFirst(lines, l, node.key)
    /\ node.parent # None =>
          \E m \in 1..(l - 1) : IsAbove(lines, m, l, lines[l].depth - 1, node.parent)

NodesAreOfTheirLines ==
    \A i \in DOMAIN nodes : \E l \in DOMAIN text : IsReadFrom(nodes[i], text, l)

\* The inductive invariant that relates what is kept to what was read.
TreeInv == ParserInv /\ ActiveParentsAreAbove /\ EveryEntryIsKept /\ NodesAreOfTheirLines

\* Reading a line leaves the earlier ones where they are.
LEMMA TextGrows ==
    ASSUME NEW lines \in Seq(Line), NEW line \in Line
    PROVE  /\ Len(lines) \in Nat /\ Len(Append(lines, line)) = Len(lines) + 1
           /\ DOMAIN lines = 1..Len(lines)
           /\ DOMAIN Append(lines, line) = 1..(Len(lines) + 1)
           /\ \A l \in DOMAIN lines : Append(lines, line)[l] = lines[l]
           /\ Append(lines, line)[Len(lines) + 1] = line
  OBVIOUS

\* Whether line m is above line l depends on nothing that is read later.
LEMMA AboveStays ==
    ASSUME NEW lines \in Seq(Line), NEW line \in Line,
           NEW m \in DOMAIN lines, NEW l \in 1..(Len(lines) + 1), NEW d, NEW key,
           IsAbove(lines, m, l, d, key)
    PROVE  IsAbove(Append(lines, line), m, l, d, key)
  <1>1. \A n \in DOMAIN lines : Append(lines, line)[n] = lines[n]
    BY TextGrows
  <1>2. DOMAIN lines = 1..Len(lines) /\ Len(lines) \in Nat
    BY TextGrows
  <1>3. \A n \in (m + 1)..(l - 1) : n \in DOMAIN lines
    BY <1>2
  <1>4. QED
    BY <1>1, <1>3 DEF IsAbove, NothingEnds

\* Nor does the line that a node was read from.
LEMMA ReadFromStays ==
    ASSUME NEW lines \in Seq(Line), NEW line \in Line,
           NEW node, NEW l \in DOMAIN lines, IsReadFrom(node, lines, l)
    PROVE  IsReadFrom(node, Append(lines, line), l)
  <1> DEFINE longer == Append(lines, line)
  <1>1. \A n \in DOMAIN lines : longer[n] = lines[n]
    BY TextGrows
  <1>2. DOMAIN lines = 1..Len(lines) /\ Len(lines) \in Nat
    BY TextGrows
  <1>3. \A m \in 1..(l - 1) : m \in DOMAIN lines
    BY <1>2
  <1>4. l \in 1..(Len(lines) + 1) /\ longer[l] = lines[l]
    BY <1>1, <1>2
  <1>5. IsFirst(longer, l, node.key)
    BY <1>1, <1>3, <1>4 DEF IsReadFrom, IsFirst
  <1>6. ASSUME node.parent # None
        PROVE  \E m \in 1..(l - 1) : IsAbove(longer, m, l, longer[l].depth - 1, node.parent)
    <2>1. PICK m \in 1..(l - 1) : IsAbove(lines, m, l, lines[l].depth - 1, node.parent)
      BY <1>6 DEF IsReadFrom
    <2>2. IsAbove(longer, m, l, lines[l].depth - 1, node.parent)
      BY <1>3, <1>4, <2>1, AboveStays
    <2>3. QED
      BY <1>4, <2>2
  <1>7. QED
    BY <1>5, <1>6 DEF IsReadFrom

\* A node that is kept stays the node of its line, whatever is read next.
LEMMA NodesStay ==
    ASSUME TreeInv, NEW line \in Line, text' = Append(text, line),
           NEW i \in DOMAIN nodes, nodes'[i] = nodes[i]
    PROVE  \E l \in DOMAIN text' : IsReadFrom(nodes'[i], text', l)
  <1>1. text \in Seq(Line)
    BY DEF TreeInv, ParserInv, ParserTypeOK
  <1>2. PICK l \in DOMAIN text : IsReadFrom(nodes[i], text, l)
    BY DEF TreeInv, NodesAreOfTheirLines
  <1>3. IsReadFrom(nodes[i], text', l)
    BY <1>1, <1>2, ReadFromStays
  <1>4. l \in DOMAIN text'
    BY <1>1, TextGrows
  <1>5. QED
    BY <1>3, <1>4

\* An active parent stays what is above the next line, unless the line that was
\* read ended what the parent had begun.
LEMMA ActiveStays ==
    ASSUME TreeInv, phase = "reading", NEW line \in Line, text' = Append(text, line),
           line.form # "project", NEW d \in Depths, parents[d] # None,
           Placed(line) => line.depth > d
    PROVE  \E m \in DOMAIN text' : IsAbove(text', m, Len(text') + 1, d, parents[d])
  <1>1. text \in Seq(Line)
    BY DEF TreeInv, ParserInv, ParserTypeOK
  <1>2. PICK m \in DOMAIN text : IsAbove(text, m, Len(text) + 1, d, parents[d])
    BY DEF TreeInv, ActiveParentsAreAbove
  <1>3. /\ Len(text) \in Nat /\ Len(text') = Len(text) + 1
        /\ DOMAIN text = 1..Len(text) /\ DOMAIN text' = 1..(Len(text) + 1)
        /\ text'[Len(text) + 1] = line
    BY <1>1, TextGrows
  <1>4. IsAbove(text', m, Len(text) + 1, d, parents[d])
    <2>1. Len(text) + 1 \in 1..(Len(text) + 1)
      BY <1>3
    <2>2. QED
      BY <1>1, <1>2, <2>1, AboveStays
  <1>5. \A n \in (m + 1)..(Len(text') + 1 - 1) :
            n \in (m + 1)..(Len(text) + 1 - 1) \/ n = Len(text) + 1
    BY <1>3
  <1>6. IsAbove(text', m, Len(text') + 1, d, parents[d])
    BY <1>3, <1>4, <1>5 DEF IsAbove, NothingEnds
  <1>7. QED
    BY <1>3, <1>6

\* A line that adds no node: what is active afterwards was active before, and
\* the line did not end it.
LEMMA TreeSameNodes ==
    ASSUME TreeInv, ParserInv', NEW line \in Line, text' = Append(text, line), nodes' = nodes,
           phase' = "reading" =>
              /\ phase = "reading" /\ line.form # "entry"
              /\ \A d \in Depths : parents'[d] # None =>
                    /\ parents'[d] = parents[d] /\ line.form # "project"
                    /\ Placed(line) => line.depth > d
    PROVE  TreeInv'
  <1>1. text \in Seq(Line)
    BY DEF TreeInv, ParserInv, ParserTypeOK
  <1>2. /\ DOMAIN text = 1..Len(text) /\ DOMAIN text' = 1..(Len(text) + 1)
        /\ \A l \in DOMAIN text : text'[l] = text[l]
        /\ text'[Len(text) + 1] = line /\ Len(text) \in Nat
    BY <1>1, TextGrows
  <1>3. ActiveParentsAreAbove'
    <2>1. SUFFICES ASSUME phase' = "reading", NEW d \in Depths, parents'[d] # None
                   PROVE  \E m \in DOMAIN text' : IsAbove(text', m, Len(text') + 1, d, parents'[d])
      BY DEF ActiveParentsAreAbove
    <2>2. /\ phase = "reading" /\ parents'[d] = parents[d] /\ line.form # "project"
          /\ Placed(line) => line.depth > d
      BY <2>1
    <2>3. QED
      BY <2>1, <2>2, ActiveStays
  <1>4. EveryEntryIsKept'
    <2>1. SUFFICES ASSUME phase' = "reading", NEW l \in DOMAIN text', text'[l].form = "entry"
                   PROVE  text'[l].key \in KeysOf(nodes)
      BY DEF EveryEntryIsKept
    <2>2. l \in DOMAIN text /\ text'[l] = text[l]
      BY <1>2, <2>1
    <2>3. QED
      BY <2>1, <2>2 DEF TreeInv, EveryEntryIsKept
  <1>5. NodesAreOfTheirLines'
    BY NodesStay DEF NodesAreOfTheirLines
  <1>6. QED
    BY <1>3, <1>4, <1>5 DEF TreeInv

\* An entry: the node that may be added is read from this line, which is the
\* first for its key because every earlier entry's key is kept, and its parent
\* is the active one, which is above this line.
LEMMA TreeEntryStep ==
    ASSUME TreeInv, ParserInv', phase = "reading", NEW line \in Line, ReadEntry(line)
    PROVE  TreeInv'
  <1> DEFINE node == [key |-> line.key, version |-> line.version,
                      depth |-> line.depth, parent |-> ActiveParent(line)]
             kept == line.key \in KeysOf(nodes)
             here == Len(text) + 1
  <1>1. /\ line.form = "entry" /\ ~Orphan(line)
        /\ nodes' = IF kept THEN nodes ELSE Append(nodes, node)
        /\ parents' = AfterEntry(line)
        /\ text' = Append(text, line) /\ phase' = phase
    BY DEF ReadEntry
  <1>2. text \in Seq(Line) /\ nodes \in Seq(Node)
    BY DEF TreeInv, ParserInv, ParserTypeOK
  <1>3. /\ Len(text) \in Nat /\ Len(text') = here
        /\ DOMAIN text = 1..Len(text) /\ DOMAIN text' = 1..here
        /\ \A l \in DOMAIN text : text'[l] = text[l]
        /\ text'[here] = line
    BY <1>1, <1>2, TextGrows
  <1>4. line.depth \in Depths /\ line.depth \in Nat
    BY <1>1, EntryFields, BoundAssumption DEF Depths
  <1>5. nodes' \in Seq(Node)
    BY DEF ParserInv, ParserTypeOK
  <1>6. /\ \A i \in DOMAIN nodes : i \in DOMAIN nodes' /\ nodes'[i] = nodes[i]
        /\ \A i \in DOMAIN nodes' : i \in DOMAIN nodes \/ (~kept /\ nodes'[i] = node)
        /\ ~kept => \E i \in DOMAIN nodes' : nodes'[i] = node
    <2>1. CASE kept
      BY <1>1, <2>1
    <2>2. CASE ~kept
      <3>1. nodes' = Append(nodes, node)
        BY <1>1, <2>2
      <3>2. Len(nodes) \in Nat /\ DOMAIN nodes = 1..Len(nodes)
        BY <1>2
      <3>3. DOMAIN nodes' = 1..(Len(nodes) + 1) /\ nodes'[Len(nodes) + 1] = node
        BY <1>2, <3>1
      <3>4. \A i \in DOMAIN nodes : i \in DOMAIN nodes' /\ nodes'[i] = nodes[i]
        BY <1>2, <3>1
      <3>5. QED
        BY <2>2, <3>2, <3>3, <3>4
    <2>3. QED
      BY <2>1, <2>2
  <1>7. ActiveParentsAreAbove'
    <2>1. SUFFICES ASSUME NEW d \in Depths, parents'[d] # None
                   PROVE  \E m \in DOMAIN text' : IsAbove(text', m, Len(text') + 1, d, parents'[d])
      BY DEF ActiveParentsAreAbove
    <2>2. /\ parents'[d] = IF d < line.depth THEN parents[d]
                           ELSE IF d = line.depth THEN line.key ELSE None
          /\ d \in Nat
      BY <1>1, BoundAssumption DEF AfterEntry, Depths
    <2>3. CASE d < line.depth
      <3>1. parents'[d] = parents[d] /\ line.depth > d
        BY <1>4, <2>2, <2>3
      <3>2. QED
        BY <1>1, <2>1, <3>1, ActiveStays
    <2>4. CASE d = line.depth
      <3>1. parents'[d] = line.key
        BY <2>2, <2>4
      <3>2. NothingEnds(text', here, here + 1, d)
        BY <1>3 DEF NothingEnds
      <3>3. IsAbove(text', here, here + 1, d, parents'[d])
        BY <1>1, <1>3, <2>4, <3>1, <3>2 DEF IsAbove
      <3>4. QED
        BY <1>3, <3>3
    <2>5. QED
      BY <1>4, <2>1, <2>2, <2>3, <2>4
  <1>8. EveryEntryIsKept'
    <2>1. SUFFICES ASSUME NEW l \in DOMAIN text', text'[l].form = "entry"
                   PROVE  text'[l].key \in KeysOf(nodes')
      BY DEF EveryEntryIsKept
    <2>2. \A k \in KeysOf(nodes) : k \in KeysOf(nodes')
      BY <1>6 DEF KeysOf
    <2>3. line.key \in KeysOf(nodes')
      <3>1. CASE kept
        BY <2>2, <3>1
      <3>2. CASE ~kept
        <4>1. PICK i \in DOMAIN nodes' : nodes'[i] = node
          BY <1>6, <3>2
        <4>2. nodes'[i].key = line.key
          BY <4>1
        <4>3. QED
          BY <4>2 DEF KeysOf
      <3>3. QED
        BY <3>1, <3>2
    <2>4. CASE l \in DOMAIN text
      <3>1. text'[l] = text[l]
        BY <1>3, <2>4
      <3>2. text[l].key \in KeysOf(nodes)
        BY <2>1, <2>4, <3>1 DEF TreeInv, EveryEntryIsKept
      <3>3. QED
        BY <2>2, <3>1, <3>2
    <2>5. CASE l \notin DOMAIN text
      <3>1. l = here
        BY <1>3, <2>5
      <3>2. QED
        BY <1>3, <2>3, <3>1
    <2>6. QED
      BY <2>4, <2>5
  <1>9. ASSUME ~kept
        PROVE  IsReadFrom(node, text', here)
    <2>1. node.key = line.key /\ node.parent = ActiveParent(line)
      OBVIOUS
    <2>2. IsFirst(text', here, line.key)
      <3>1. SUFFICES ASSUME NEW m \in 1..(here - 1), IsEntryFor(text'[m], line.key)
                     PROVE  FALSE
        BY <1>1, <1>3 DEF IsFirst, IsEntryFor
      <3>2. m \in DOMAIN text /\ text'[m] = text[m]
        BY <1>3
      <3>3. text[m].form = "entry" /\ text[m].key = line.key
        BY <3>1, <3>2 DEF IsEntryFor
      <3>4. text[m].key \in KeysOf(nodes)
        BY <3>2, <3>3 DEF TreeInv, EveryEntryIsKept
      <3>5. QED
        BY <1>9, <3>3, <3>4
    <2>3. ASSUME ActiveParent(line) # None
          PROVE  \E m \in 1..(here - 1) :
                     IsAbove(text', m, here, text'[here].depth - 1, ActiveParent(line))
      <3> DEFINE d == line.depth - 1
      <3>1. line.depth # 1 /\ ActiveParent(line) = parents[line.depth - 1]
        BY <2>3 DEF ActiveParent
      <3>2. d \in Depths
        BY <1>4, <3>1, BoundAssumption DEF Depths
      <3>3. PICK m \in DOMAIN text : IsAbove(text, m, Len(text) + 1, d, parents[d])
        BY <2>3, <3>1, <3>2 DEF TreeInv, ActiveParentsAreAbove
      <3>4. IsAbove(text', m, here, d, parents[d])
        <4>1. Len(text) + 1 \in 1..(Len(text) + 1)
          BY <1>3
        <4>2. IsAbove(Append(text, line), m, Len(text) + 1, d, parents[d])
          BY <1>2, <3>3, <4>1, AboveStays
        <4>3. QED
          BY <1>1, <4>2
      <3>5. m \in 1..(here - 1)
        BY <1>3
      <3>6. QED
        BY <1>3, <3>1, <3>4, <3>5
    <2>4. QED
      BY <2>1, <2>2, <2>3 DEF IsReadFrom
  <1>10. NodesAreOfTheirLines'
    <2>1. SUFFICES ASSUME NEW i \in DOMAIN nodes'
                   PROVE  \E l \in DOMAIN text' : IsReadFrom(nodes'[i], text', l)
      BY DEF NodesAreOfTheirLines
    <2>2. CASE i \in DOMAIN nodes
      BY <1>1, <1>6, <2>2, NodesStay
    <2>3. CASE i \notin DOMAIN nodes
      <3>1. ~kept /\ nodes'[i] = node
        BY <1>6, <2>3
      <3>2. here \in DOMAIN text'
        BY <1>3
      <3>3. QED
        BY <1>9, <3>1, <3>2
    <2>4. QED
      BY <2>2, <2>3
  <1>11. QED
    BY <1>7, <1>8, <1>10 DEF TreeInv

\* Nothing has been read yet.
LEMMA TreeInvInit == ParseInit => TreeInv
  <1>1. SUFFICES ASSUME ParseInit PROVE TreeInv
    OBVIOUS
  <1>2. ParserInv
    BY <1>1, ParserInvInit
  <1>3. ActiveParentsAreAbove
    BY <1>1 DEF ParseInit, NoParents, ActiveParentsAreAbove
  <1>4. EveryEntryIsKept /\ NodesAreOfTheirLines
    BY <1>1 DEF ParseInit, EveryEntryIsKept, NodesAreOfTheirLines
  <1>5. QED
    BY <1>2, <1>3, <1>4 DEF TreeInv

\* Every step keeps the tree that of the lines.
LEMMA TreeInvStep == TreeInv /\ [ParseNext]_parserVars => TreeInv'
  <1>1. SUFFICES ASSUME TreeInv, [ParseNext]_parserVars PROVE TreeInv'
    OBVIOUS
  <1>2. ParserInv'
    BY <1>1, ParserInvStep DEF TreeInv
  <1>3. ASSUME NEW line \in Line, ReadProject(line), phase = "reading" PROVE TreeInv'
    <2>1. \A d \in Depths : parents'[d] = None
      BY <1>3 DEF ReadProject, NoParents
    <2>2. text' = Append(text, line) /\ nodes' = nodes /\ line.form # "entry"
      BY <1>3 DEF ReadProject
    <2>3. QED
      BY <1>1, <1>2, <1>3, <2>1, <2>2, TreeSameNodes
  <1>4. ASSUME NEW line \in Line, ReadOmitted(line), phase = "reading" PROVE TreeInv'
    <2>1. /\ text' = Append(text, line) /\ nodes' = nodes /\ line.form = "omitted"
          /\ parents' = AfterOmitted(line)
      BY <1>4 DEF ReadOmitted
    <2>2. line.depth \in Depths /\ line.depth \in Nat
      BY <2>1, BoundAssumption DEF Line, Depths
    <2>3. ASSUME NEW d \in Depths, parents'[d] # None
          PROVE  parents'[d] = parents[d] /\ line.depth > d
      <3>1. parents'[d] = IF d < line.depth THEN parents[d] ELSE None
        BY <2>1 DEF AfterOmitted
      <3>2. d < line.depth /\ d \in Nat
        BY <2>3, <3>1, BoundAssumption DEF Depths
      <3>3. QED
        BY <2>2, <3>1, <3>2
    <2>4. QED
      BY <1>1, <1>2, <1>4, <2>1, <2>3, TreeSameNodes
  <1>5. ASSUME NEW line \in Line, ReadEntry(line), phase = "reading" PROVE TreeInv'
    BY <1>1, <1>2, <1>5, TreeEntryStep
  <1>6. ASSUME NEW line \in Line, ReadUnusable(line) PROVE TreeInv'
    <2>1. text' = Append(text, line) /\ nodes' = nodes /\ phase' = "rejected"
      BY <1>6 DEF ReadUnusable, Reject
    <2>2. QED
      BY <1>1, <1>2, <2>1, TreeSameNodes
  <1>7. CASE Finish \/ UNCHANGED parserVars
    <2>1. /\ text' = text /\ nodes' = nodes /\ parents' = parents
          /\ phase' = "reading" => phase = "reading"
      BY <1>7 DEF Finish, parserVars
    <2>2. ActiveParentsAreAbove' /\ EveryEntryIsKept' /\ NodesAreOfTheirLines'
      BY <1>1, <2>1 DEF TreeInv, ActiveParentsAreAbove, EveryEntryIsKept, NodesAreOfTheirLines
    <2>3. QED
      BY <1>2, <2>2 DEF TreeInv
  <1>8. QED
    BY <1>1, <1>3, <1>4, <1>5, <1>6, <1>7 DEF ParseNext, Read

\* The choice of a least number is the only one there is.
LEMMA LeastIs ==
    ASSUME NEW S \in SUBSET Int, NEW x \in S, \A y \in S : x =< y
    PROVE  Min(S) = x
  <1>1. \A z \in S : (\A y \in S : z =< y) => z = x
    OBVIOUS
  <1>2. QED
    BY <1>1 DEF Min

\* And of a greatest.
LEMMA GreatestIs ==
    ASSUME NEW S \in SUBSET Int, NEW x \in S, \A y \in S : x >= y
    PROVE  Max(S) = x
  <1>1. \A z \in S : (\A y \in S : z >= y) => z = x
    OBVIOUS
  <1>2. QED
    BY <1>1 DEF Max

\* What the invariant says of the lines is what the property says of them.
LEMMA TreeInvImplies == TreeInv => ParentsAreTheTreesOwn
  <1>1. SUFFICES ASSUME TreeInv, NEW i \in DOMAIN nodes, nodes[i].parent # None
                 PROVE  LET l == Min({m \in DOMAIN text : text[m].form = "entry"
                                                          /\ text[m].key = nodes[i].key})
                            above == text[Max(LineAbove(l))]
                        IN  /\ above.form = "entry" /\ above.depth = text[l].depth - 1
                            /\ above.key = nodes[i].parent
    BY DEF ParentsAreTheTreesOwn
  <1> DEFINE entries == {m \in DOMAIN text : text[m].form = "entry" /\ text[m].key = nodes[i].key}
  <1>2. text \in Seq(Line)
    BY <1>1 DEF TreeInv, ParserInv, ParserTypeOK
  <1>3. DOMAIN text = 1..Len(text) /\ Len(text) \in Nat
    BY <1>2
  <1>4. PICK l \in DOMAIN text : IsReadFrom(nodes[i], text, l)
    BY <1>1 DEF TreeInv, NodesAreOfTheirLines
  <1>5. IsFirst(text, l, nodes[i].key)
    BY <1>4 DEF IsReadFrom
  <1>6. Min(entries) = l
    <2>1. l \in entries
      BY <1>5 DEF IsFirst, IsEntryFor
    <2>2. entries \in SUBSET Int
      BY <1>3
    <2>3. \A m \in entries : l =< m
      BY <1>3, <1>5 DEF IsFirst, IsEntryFor
    <2>4. QED
      BY <2>1, <2>2, <2>3, LeastIs
  <1>7. PICK m \in 1..(l - 1) : IsAbove(text, m, l, text[l].depth - 1, nodes[i].parent)
    BY <1>1, <1>4 DEF IsReadFrom
  <1>8. text[m].form = "entry" /\ text[m].depth = text[l].depth - 1 /\ text[m].key = nodes[i].parent
    BY <1>7 DEF IsAbove
  <1>9. NothingEnds(text, m, l, text[l].depth - 1)
    BY <1>7 DEF IsAbove
  <1>10. \A n \in DOMAIN text : Placed(text[n]) => text[n].depth \in Nat
    BY <1>2, BoundAssumption DEF Placed, Line, Depths
  <1>11. l \in Nat /\ m \in Nat /\ m \in DOMAIN text /\ m < l
    BY <1>3
  <1>12. text[l].depth \in Nat
    BY <1>5, <1>10 DEF IsFirst, IsEntryFor, Placed
  <1>13. Max(LineAbove(l)) = m
    <2>1. m \in LineAbove(l)
      <3>1. text[m].depth < text[l].depth
        BY <1>8, <1>12
      <3>2. QED
        BY <1>7, <1>8, <1>9, <3>1 DEF LineAbove, NothingEnds
    <2>2. LineAbove(l) \in SUBSET Int
      BY DEF LineAbove
    <2>3. ASSUME NEW n \in LineAbove(l), n > m
          PROVE  FALSE
      <3>1. /\ n \in 1..(l - 1) /\ Placed(text[n]) /\ text[n].depth < text[l].depth
        BY DEF LineAbove, Placed
      <3>2. n \in (m + 1)..(l - 1) /\ n \in DOMAIN text
        BY <1>3, <1>11, <2>3, <3>1
      <3>3. text[n].depth > text[l].depth - 1 /\ text[n].depth \in Nat
        BY <1>9, <1>10, <3>1, <3>2 DEF NothingEnds
      <3>4. QED
        BY <1>12, <3>1, <3>3
    <2>4. \A n \in LineAbove(l) : m >= n
      BY <1>11, <2>2, <2>3
    <2>5. QED
      BY <2>1, <2>2, <2>4, GreatestIs
  <1>14. QED
    BY <1>6, <1>8, <1>13

\* The parent the parser gives a node is the entry that Maven printed above the
\* line the node was read from, one level up, with no omitted entry and no other
\* project in between: for outputs of any length, any depth and any keys.
THEOREM TheTreeIsMavens == ParseSpec => []ParentsAreTheTreesOwn
  <1>1. QED
    BY TreeInvInit, TreeInvStep, TreeInvImplies, PTL DEF ParseSpec

\* Every path the analysis reports of a tree the parser built runs from a
\* dependency of the project down to the one that was asked for, parent by
\* parent: for outputs of any length, any depth and any keys.
THEOREM PathsReachTheProject == ParseSpec => []PathsAreComplete
  <1>1. ASSUME ParserInv PROVE PathsAreComplete
    <2>1. IsTree(nodes)
      BY <1>1 DEF ParserInv, ParserTypeOK, KeysAreUnique, ParentsComeFirst, IsTree
    <2>2. nodes \in Seq(Node)
      BY <2>1 DEF IsTree
    <2>3. QED
      BY <2>1, <2>2, PathIsChain, PathStartsAtTop DEF PathsAreComplete, IsPathTo
  <1>2. QED
    BY <1>1, ParserInvInit, ParserInvStep, PTL DEF ParseSpec

-----------------------------------------------------------------------------
(* Sequences put together.                                                 *)

\* Two sequences joined are the sequence that has the elements of one and then
\* those of the other.
LEMMA JoinIs ==
    ASSUME NEW S, NEW s \in Seq(S), NEW t \in Seq(S), NEW u \in Seq(S), Len(u) = Len(s) + Len(t),
           \A i \in 1..Len(s) : u[i] = s[i], \A i \in 1..Len(t) : u[Len(s) + i] = t[i]
    PROVE  s \o t = u
  <1>1. s \o t \in Seq(S) /\ Len(s \o t) = Len(u)
    OBVIOUS
  <1>2. ASSUME NEW i \in 1..Len(u) PROVE (s \o t)[i] = u[i]
    <2>1. CASE i \in 1..Len(s)
      BY <2>1
    <2>2. CASE i \notin 1..Len(s)
      <3>1. i - Len(s) \in 1..Len(t) /\ Len(s) + (i - Len(s)) = i
        BY <2>2
      <3>2. (s \o t)[i] = t[i - Len(s)]
        BY <2>2, <3>1
      <3>3. QED
        BY <3>1, <3>2
    <2>3. QED
      BY <2>1, <2>2
  <1>3. QED
    BY <1>1, <1>2, SeqEqual

\* One element and nothing.
LEMMA JoinNothing ==
    ASSUME NEW a
    PROVE  <<a>> \o <<>> = <<a>>
  <1> DEFINE s == <<a>>
  <1>1. s \in Seq({a})
    OBVIOUS
  <1> HIDE DEF s
  <1>2. s \o <<>> = s
    BY <1>1, ConcatEmptySeq
  <1>3. QED
    BY <1>2 DEF s

\* One element and one.
LEMMA Join1And1 ==
    ASSUME NEW a, NEW b
    PROVE  <<a>> \o <<b>> = <<a, b>>
  <1> DEFINE S == {a, b}
             s == <<a>>
             t == <<b>>
             u == <<a, b>>
  <1>1. s \in Seq(S) /\ t \in Seq(S) /\ u \in Seq(S) /\ Len(u) = Len(s) + Len(t)
    OBVIOUS
  <1>2. (\A i \in 1..Len(s) : u[i] = s[i]) /\ Len(t) = 1 /\ u[Len(s) + 1] = t[1]
    OBVIOUS
  <1> HIDE DEF S, s, t, u
  <1>3. \A i \in 1..Len(t) : u[Len(s) + i] = t[i]
    <2>1. \A i \in 1..Len(t) : i = 1
      BY <1>2
    <2>2. QED
      BY <1>2, <2>1
  <1>4. s \o t = u
    BY <1>1, <1>2, <1>3, JoinIs
  <1>5. QED
    BY <1>4 DEF s, t, u

\* Two elements and one.
LEMMA Join2And1 ==
    ASSUME NEW a, NEW b, NEW c
    PROVE  <<a, b>> \o <<c>> = <<a, b, c>>
  <1> DEFINE S == {a, b, c}
             s == <<a, b>>
             t == <<c>>
             u == <<a, b, c>>
  <1>1. s \in Seq(S) /\ t \in Seq(S) /\ u \in Seq(S) /\ Len(u) = Len(s) + Len(t)
    OBVIOUS
  <1>2. (\A i \in 1..Len(s) : u[i] = s[i]) /\ Len(t) = 1 /\ u[Len(s) + 1] = t[1]
    OBVIOUS
  <1> HIDE DEF S, s, t, u
  <1>3. \A i \in 1..Len(t) : u[Len(s) + i] = t[i]
    <2>1. \A i \in 1..Len(t) : i = 1
      BY <1>2
    <2>2. QED
      BY <1>2, <2>1
  <1>4. s \o t = u
    BY <1>1, <1>2, <1>3, JoinIs
  <1>5. QED
    BY <1>4 DEF s, t, u

\* Three elements and one.
LEMMA Join3And1 ==
    ASSUME NEW a, NEW b, NEW c, NEW d
    PROVE  <<a, b, c>> \o <<d>> = <<a, b, c, d>>
  <1> DEFINE S == {a, b, c, d}
             s == <<a, b, c>>
             t == <<d>>
             u == <<a, b, c, d>>
  <1>1. s \in Seq(S) /\ t \in Seq(S) /\ u \in Seq(S) /\ Len(u) = Len(s) + Len(t)
    OBVIOUS
  <1>2. (\A i \in 1..Len(s) : u[i] = s[i]) /\ Len(t) = 1 /\ u[Len(s) + 1] = t[1]
    OBVIOUS
  <1> HIDE DEF S, s, t, u
  <1>3. \A i \in 1..Len(t) : u[Len(s) + i] = t[i]
    <2>1. \A i \in 1..Len(t) : i = 1
      BY <1>2
    <2>2. QED
      BY <1>2, <2>1
  <1>4. s \o t = u
    BY <1>1, <1>2, <1>3, JoinIs
  <1>5. QED
    BY <1>4 DEF s, t, u

\* Four elements and one.
LEMMA Join4And1 ==
    ASSUME NEW a, NEW b, NEW c, NEW d, NEW e
    PROVE  <<a, b, c, d>> \o <<e>> = <<a, b, c, d, e>>
  <1> DEFINE S == {a, b, c, d, e}
             s == <<a, b, c, d>>
             t == <<e>>
             u == <<a, b, c, d, e>>
  <1>1. s \in Seq(S) /\ t \in Seq(S) /\ u \in Seq(S) /\ Len(u) = Len(s) + Len(t)
    OBVIOUS
  <1>2. (\A i \in 1..Len(s) : u[i] = s[i]) /\ Len(t) = 1 /\ u[Len(s) + 1] = t[1]
    OBVIOUS
  <1> HIDE DEF S, s, t, u
  <1>3. \A i \in 1..Len(t) : u[Len(s) + i] = t[i]
    <2>1. \A i \in 1..Len(t) : i = 1
      BY <1>2
    <2>2. QED
      BY <1>2, <2>1
  <1>4. s \o t = u
    BY <1>1, <1>2, <1>3, JoinIs
  <1>5. QED
    BY <1>4 DEF s, t, u

\* One element and three.
LEMMA Join1And3 ==
    ASSUME NEW a, NEW b, NEW c, NEW d
    PROVE  <<a>> \o <<b, c, d>> = <<a, b, c, d>>
  <1> DEFINE S == {a, b, c, d}
             s == <<a>>
             t == <<b, c, d>>
             u == <<a, b, c, d>>
  <1>1. s \in Seq(S) /\ t \in Seq(S) /\ u \in Seq(S) /\ Len(u) = Len(s) + Len(t)
    OBVIOUS
  <1>2. (\A i \in 1..Len(s) : u[i] = s[i]) /\ (\A i \in 1..Len(t) : u[Len(s) + i] = t[i])
    OBVIOUS
  <1> HIDE DEF S, s, t, u
  <1>3. s \o t = u
    BY <1>1, <1>2, JoinIs
  <1>4. QED
    BY <1>3 DEF s, t, u

\* Two elements and three.
LEMMA Join2And3 ==
    ASSUME NEW a, NEW b, NEW c, NEW d, NEW e
    PROVE  <<a, b>> \o <<c, d, e>> = <<a, b, c, d, e>>
  <1> DEFINE S == {a, b, c, d, e}
             s == <<a, b>>
             t == <<c, d, e>>
             u == <<a, b, c, d, e>>
  <1>1. s \in Seq(S) /\ t \in Seq(S) /\ u \in Seq(S) /\ Len(u) = Len(s) + Len(t)
    OBVIOUS
  <1>2. (\A i \in 1..Len(s) : u[i] = s[i]) /\ (\A i \in 1..Len(t) : u[Len(s) + i] = t[i])
    OBVIOUS
  <1> HIDE DEF S, s, t, u
  <1>3. s \o t = u
    BY <1>1, <1>2, JoinIs
  <1>4. QED
    BY <1>3 DEF s, t, u

-----------------------------------------------------------------------------
(* The diagnosis.                                                          *)

\* The image of a finite set is finite.
LEMMA ImageIsFinite ==
    ASSUME NEW S, IsFiniteSet(S), NEW R, NEW f \in [S -> R]
    PROVE  IsFiniteSet({f[x] : x \in S})
  <1> DEFINE T == {f[x] : x \in S}
  <1>1. f \in Surjection(S, T)
    BY DEF Surjection
  <1> HIDE DEF T
  <1>2. IsFiniteSet(T)
    BY <1>1, FS_Surjection
  <1>3. QED
    BY <1>2 DEF T

\* What one of the candidates of a world was found to be.
AttributionsOf(w) == {Attribute(w, CandidatesOf(w)[i]) : i \in Nat}

\* The ranking lists every hypothesis, a better one first.
IsRanking(order, hypotheses) ==
    /\ order \in Seq(hypotheses)
    /\ \A h \in hypotheses : \E i \in DOMAIN order : order[i] = h
    /\ \A i, j \in DOMAIN order : i < j => ~RanksBefore(order[j], order[i])

KnownHypotheses == Hypotheses(world, Attributed)

\* The places the plan is made from.
LocationsFound ==
    LET api == ApiEvidenceOf(Attributed, Lead)
    IN  IF status = "SUPPORTED_DIAGNOSIS" /\ Lead # None /\ api # None
        THEN FindUsages(world, MigrationKind(Lead), api) ELSE {}

\* The situation is one of those looked at.
WorldIsKnown == \E family \in DOMAIN Worlds : world \in Worlds[family]

\* Every candidate was attributed as the facts have it, and an artifact that
\* could not be inspected for one of them left an issue.
AttributionsAreRight ==
    /\ attributions \in Seq(AttributionsOf(world))
    /\ issues \in BOOLEAN
    /\ ~issues => \A a \in Attributed : ~LeavesIssue(world, a.candidate)

\* Each phase has its result when it is over and not before.
PhasesAreInOrder ==
    /\ stage \in {"attribute", "investigate", "plan", "done", "refused"}
    /\ stage \in {"attribute", "refused"} => analysis = None
    /\ stage \notin {"attribute", "refused"} =>
          analysis = ClassifyAnalysis(world.failure, Attributed, issues)
    /\ stage \notin {"plan", "done"} => ranking = <<>> /\ status = None
    /\ stage \in {"plan", "done"} =>
          IsRanking(ranking, KnownHypotheses) /\ status = DiagnosisStatus(KnownHypotheses)
    /\ stage # "done" => plan = None
    /\ stage = "done" => plan = PlanFor(status, Lead, Attributed, LocationsFound)

\* The inductive invariant.
DiagnosisInv == WorldIsKnown /\ AttributionsAreRight /\ PhasesAreInOrder

\* What has been attributed is finitely much.
LEMMA AttributedIsFinite ==
    ASSUME AttributionsAreRight
    PROVE  Attributed \subseteq AttributionsOf(world) /\ IsFiniteSet(Attributed)
  <1>1. attributions \in Seq(AttributionsOf(world))
    BY DEF AttributionsAreRight
  <1>2. /\ DOMAIN attributions = 1..Len(attributions) /\ Len(attributions) \in Nat
        /\ attributions \in [DOMAIN attributions -> AttributionsOf(world)]
    BY <1>1
  <1>3. IsFiniteSet(DOMAIN attributions)
    <2>1. 1 \in Int /\ Len(attributions) \in Int
      BY <1>2
    <2>2. IsFiniteSet(1..Len(attributions))
      BY <2>1, FS_Interval
    <2>3. QED
      BY <1>2, <2>2
  <1>4. IsFiniteSet(Attributed)
    BY <1>2, <1>3, ImageIsFinite DEF Attributed
  <1>5. QED
    BY <1>1, <1>4 DEF Attributed

\* Finitely many attributions have finitely many hypotheses.
LEMMA HypothesesAreFinite ==
    ASSUME NEW w, NEW S, IsFiniteSet(S)
    PROVE  IsFiniteSet(Hypotheses(w, S))
  <1> DEFINE shared == {b \in S : b.ownership = "MULTIPLE_MATCHES"}
             owned  == {b \in S : b.ownership = "EXACT_SINGLE_MATCH" /\ b.api.kind \in HypothesisKinds}
             f == [a \in shared |-> AmbiguousHypothesis(a)]
             g == [a \in owned |-> ApiHypothesis(w, a)]
             R == {f[a] : a \in shared} \union {g[a] : a \in owned}
  <1>1. IsFiniteSet(shared) /\ IsFiniteSet(owned)
    BY FS_Subset
  <1>2. f \in [shared -> R] /\ g \in [owned -> R]
    OBVIOUS
  <1>3. IsFiniteSet({f[a] : a \in shared}) /\ IsFiniteSet({g[a] : a \in owned})
    <2> HIDE DEF f, g, shared, owned, R
    <2>1. QED
      BY <1>1, <1>2, ImageIsFinite
  <1>4. IsFiniteSet({f[a] : a \in shared} \union {g[a] : a \in owned})
    <2> HIDE DEF f, g, shared, owned
    <2>1. QED
      BY <1>3, FS_Union
  <1>5. /\ {f[a] : a \in shared} = {AmbiguousHypothesis(a) : a \in shared}
        /\ {g[a] : a \in owned} = {ApiHypothesis(w, a) : a \in owned}
    OBVIOUS
  <1>6. QED
    BY <1>4, <1>5 DEF Hypotheses

\* A sequence with as many elements as the set has, all different, has them all.
LEMMA OrderListsAll ==
    ASSUME NEW S, IsFiniteSet(S), NEW order \in SetToSeqs(S)
    PROVE  order \in Seq(S) /\ \A x \in S : \E i \in DOMAIN order : order[i] = x
  <1> DEFINE n == Cardinality(S)
             D == 1..n
  <1>1. n \in Nat
    BY FS_CardinalityType
  <1>2. order \in [D -> S] /\ \A i, j \in D : i # j => order[i] # order[j]
    BY DEF SetToSeqs
  <1>3. order \in Injection(D, S)
    BY <1>2 DEF Injection, IsInjective
  <1>4. Cardinality(D) = n
    BY <1>1, FS_Interval
  <1>5. order \in Surjection(D, S)
    <2> HIDE DEF D, n
    <2>1. QED
      BY <1>3, <1>4, FS_Injection DEF n
  <1>6. order \in Seq(S)
    BY <1>1, <1>2
  <1>7. QED
    BY <1>2, <1>5, <1>6 DEF Surjection

\* An attribution is of the candidate it was made for.
LEMMA AttributionOfCandidate ==
    ASSUME NEW w, NEW candidate
    PROVE  Attribute(w, candidate).candidate = candidate
  BY DEF Attribute, Unattributed

\* Before anything was attributed the invariant holds.
LEMMA DiagnosisInit == Init => DiagnosisInv
  <1>1. SUFFICES ASSUME Init PROVE DiagnosisInv
    OBVIOUS
  <1>2. WorldIsKnown
    BY <1>1 DEF Init, WorldIsKnown
  <1>3. AttributionsAreRight
    <2>1. attributions = <<>> /\ issues = FALSE
      BY <1>1 DEF Init
    <2>2. Attributed = {}
      BY <2>1 DEF Attributed
    <2>3. attributions \in Seq(AttributionsOf(world))
      BY <2>1
    <2>4. QED
      BY <2>1, <2>2, <2>3 DEF AttributionsAreRight
  <1>4. PhasesAreInOrder
    BY <1>1 DEF Init, PhasesAreInOrder
  <1>5. QED
    BY <1>2, <1>3, <1>4 DEF DiagnosisInv

\* The next candidate is attributed as the facts have it.
LEMMA AttributeStep ==
    ASSUME DiagnosisInv, AttributeNext
    PROVE  DiagnosisInv'
  <1> DEFINE candidate == CandidatesOf(world)[Len(attributions) + 1]
             attribution == Attribute(world, candidate)
             unavailable == attribution.api # None /\ attribution.api.kind = "API_INSPECTION_UNAVAILABLE"
  <1>1. /\ stage = "attribute" /\ stage' = stage /\ world' = world /\ analysis' = analysis
        /\ ranking' = ranking /\ status' = status /\ plan' = plan
        /\ attributions' = Append(attributions, attribution)
        /\ issues' = (issues \/ LeavesIssue(world, candidate) \/ unavailable)
    BY DEF AttributeNext
  <1>2. attributions \in Seq(AttributionsOf(world)) /\ issues \in BOOLEAN
    BY DEF DiagnosisInv, AttributionsAreRight
  <1>3. attribution \in AttributionsOf(world)
    <2>1. Len(attributions) + 1 \in Nat
      BY <1>2
    <2>2. QED
      BY <2>1 DEF AttributionsOf
  <1>4. attribution.candidate = candidate
    BY AttributionOfCandidate
  <1> HIDE DEF attribution, unavailable
  <1>5. attributions' \in Seq(AttributionsOf(world)')
    <2>1. AttributionsOf(world)' = AttributionsOf(world)
      BY <1>1 DEF AttributionsOf, CandidatesOf
    <2>2. QED
      BY <1>1, <1>2, <1>3, <2>1
  <1>6. Attributed' = Attributed \union {attribution}
    <2>1. /\ DOMAIN attributions' = DOMAIN attributions \union {Len(attributions) + 1}
          /\ \A i \in DOMAIN attributions : attributions'[i] = attributions[i]
          /\ attributions'[Len(attributions) + 1] = attribution
      BY <1>1, <1>2
    <2>2. QED
      BY <2>1 DEF Attributed
  <1>7. AttributionsAreRight'
    <2>1. issues' \in BOOLEAN
      BY <1>1, <1>2 DEF LeavesIssue, unavailable
    <2>2. ASSUME ~issues', NEW a \in Attributed' PROVE ~LeavesIssue(world', a.candidate)
      <3>1. ~issues /\ ~LeavesIssue(world, candidate)
        BY <1>1, <1>2, <2>2
      <3>2. \A b \in Attributed : ~LeavesIssue(world, b.candidate)
        BY <3>1 DEF DiagnosisInv, AttributionsAreRight
      <3>3. QED
        BY <1>1, <1>4, <1>6, <2>2, <3>1, <3>2
    <2>3. QED
      BY <1>5, <2>1, <2>2 DEF AttributionsAreRight
  <1>8. PhasesAreInOrder'
    BY <1>1 DEF DiagnosisInv, PhasesAreInOrder
  <1>9. WorldIsKnown'
    BY <1>1 DEF DiagnosisInv, WorldIsKnown
  <1>10. QED
    BY <1>7, <1>8, <1>9 DEF DiagnosisInv

\* The hypotheses are ranked and the diagnosis is what they amount to.
LEMMA InvestigateStep ==
    ASSUME DiagnosisInv, Investigate
    PROVE  DiagnosisInv'
  <1>1. /\ stage = "investigate" /\ stage' = "plan" /\ world' = world /\ attributions' = attributions
        /\ issues' = issues /\ analysis' = analysis /\ plan' = plan
        /\ ranking' \in SetToSeqs(KnownHypotheses)
        /\ \A i, j \in DOMAIN ranking' : i < j => ~RanksBefore(ranking'[j], ranking'[i])
        /\ status' = DiagnosisStatus(KnownHypotheses)
    BY DEF Investigate, KnownHypotheses
  <1>2. KnownHypotheses' = KnownHypotheses /\ Attributed' = Attributed
    BY <1>1 DEF KnownHypotheses, Attributed
  <1>3. IsFiniteSet(KnownHypotheses)
    BY AttributedIsFinite, HypothesesAreFinite DEF DiagnosisInv, KnownHypotheses
  <1>4. IsRanking(ranking', KnownHypotheses)
    BY <1>1, <1>3, OrderListsAll DEF IsRanking
  <1>5. PhasesAreInOrder'
    BY <1>1, <1>2, <1>4 DEF DiagnosisInv, PhasesAreInOrder
  <1>6. WorldIsKnown' /\ AttributionsAreRight'
    BY <1>1, <1>2 DEF DiagnosisInv, WorldIsKnown, AttributionsAreRight, AttributionsOf
  <1>7. QED
    BY <1>5, <1>6 DEF DiagnosisInv

\* Every step keeps the invariant.
LEMMA DiagnosisStep == DiagnosisInv /\ [Next]_vars => DiagnosisInv'
  <1>1. SUFFICES ASSUME DiagnosisInv, [Next]_vars PROVE DiagnosisInv'
    OBVIOUS
  <1>2. ASSUME world' = world, attributions' = attributions, issues' = issues
        PROVE  /\ WorldIsKnown' /\ AttributionsAreRight' /\ Attributed' = Attributed
               /\ KnownHypotheses' = KnownHypotheses
    BY <1>1, <1>2 DEF DiagnosisInv, WorldIsKnown, AttributionsAreRight, AttributionsOf,
                      Attributed, KnownHypotheses
  <1>3. CASE Refuse
    <2>1. PhasesAreInOrder'
      BY <1>1, <1>3 DEF Refuse, DiagnosisInv, PhasesAreInOrder
    <2>2. QED
      BY <1>2, <1>3, <2>1 DEF Refuse, DiagnosisInv
  <1>4. CASE AttributeNext
    BY <1>1, <1>4, AttributeStep
  <1>5. CASE CloseBundle
    <2>1. PhasesAreInOrder'
      BY <1>1, <1>2, <1>5 DEF CloseBundle, DiagnosisInv, PhasesAreInOrder
    <2>2. QED
      BY <1>2, <1>5, <2>1 DEF CloseBundle, DiagnosisInv
  <1>6. CASE Investigate
    BY <1>1, <1>6, InvestigateStep
  <1>7. CASE Plan
    <2>1. /\ stage = "plan" /\ stage' = "done" /\ world' = world /\ attributions' = attributions
          /\ issues' = issues /\ analysis' = analysis /\ ranking' = ranking /\ status' = status
          /\ plan' = PlanFor(status, Lead, Attributed, LocationsFound)
      BY <1>7 DEF Plan, Lead, LocationsFound
    <2>2. Lead' = Lead
      BY <2>1 DEF Lead
    <2>3. LocationsFound' = LocationsFound
      BY <1>2, <2>1, <2>2 DEF LocationsFound
    <2>4. PhasesAreInOrder'
      BY <1>1, <1>2, <2>1, <2>2, <2>3 DEF DiagnosisInv, PhasesAreInOrder
    <2>5. QED
      BY <1>2, <2>1, <2>4 DEF DiagnosisInv
  <1>8. CASE UNCHANGED vars
    <2>1. /\ stage' = stage /\ world' = world /\ attributions' = attributions
          /\ issues' = issues /\ analysis' = analysis /\ ranking' = ranking /\ status' = status
          /\ plan' = plan
      BY <1>8 DEF vars
    <2>2. Lead' = Lead
      BY <2>1 DEF Lead
    <2>3. LocationsFound' = LocationsFound
      BY <1>2, <2>1, <2>2 DEF LocationsFound
    <2>4. PhasesAreInOrder'
      BY <1>1, <1>2, <2>1, <2>2, <2>3 DEF DiagnosisInv, PhasesAreInOrder
    <2>5. QED
      BY <1>2, <2>1, <2>4 DEF DiagnosisInv
  <1>9. QED
    BY <1>1, <1>3, <1>4, <1>5, <1>6, <1>7, <1>8 DEF Next

\* What is known of a change: the versions are those of its key in both trees, and
\* it has a place in the tree its path is taken from.
LEMMA ChangeFacts ==
    ASSUME NEW w, w.base \in Seq(Node), w.updated \in Seq(Node),
           NEW change \in Compare(w.base, w.updated)
    PROVE  /\ change.before = VersionAt(w.base, change.key)
           /\ change.after = VersionAt(w.updated, change.key)
           /\ change.after = None <=> change.key \notin KeysOf(w.updated)
           /\ change.kind = "REMOVED" <=> change.after = None
           /\ change.key \in KeysOf(TreeOf(w, change))
  <1>1. PICK k \in KeysOf(w.base) \union KeysOf(w.updated) :
            change = [key       |-> k,
                      kind      |-> ChangeKind(VersionAt(w.base, k), VersionAt(w.updated, k)),
                      before    |-> VersionAt(w.base, k),
                      after     |-> VersionAt(w.updated, k),
                      is_target |-> k \in {FindTarget(w.base), FindTarget(w.updated)}]
    BY DEF Compare
  <1>2. /\ change.key = k /\ change.before = VersionAt(w.base, k) /\ change.after = VersionAt(w.updated, k)
        /\ change.kind = ChangeKind(change.before, change.after)
    BY <1>1
  <1>3. ASSUME NEW tree \in Seq(Node)
        PROVE  VersionAt(tree, k) = None <=> k \notin KeysOf(tree)
    <2>1. CASE k \in KeysOf(tree)
      <3>1. PlaceOf(tree, k) \in DOMAIN tree /\ NodeAt(tree, k) = tree[PlaceOf(tree, k)]
        BY <2>1, PlaceOfKey
      <3>2. NodeAt(tree, k) \in Node
        BY <3>1
      <3>3. NodeAt(tree, k).version \in Versions
        BY <3>2 DEF Node
      <3>4. QED
        BY <2>1, <3>3, KeyAssumption DEF VersionAt
    <2>2. CASE k \notin KeysOf(tree)
      BY <2>2 DEF VersionAt
    <2>3. QED
      BY <2>1, <2>2
  <1>4. /\ change.before = None <=> k \notin KeysOf(w.base)
        /\ change.after = None <=> k \notin KeysOf(w.updated)
    BY <1>2, <1>3
  <1>5. change.kind = "REMOVED" <=> change.after = None
    BY <1>2, <1>4 DEF ChangeKind
  <1>6. change.key \in KeysOf(TreeOf(w, change))
    BY <1>2, <1>4, <1>5 DEF TreeOf
  <1>7. QED
    BY <1>2, <1>4, <1>5, <1>6

\* An attribution to one dependency: that dependency owns the candidate, and the
\* path and the API evidence are about it.
LEMMA ExactAttribution ==
    ASSUME NEW w, w.base \in Seq(Node), w.updated \in Seq(Node), NEW a, NEW candidate,
           a = Attribute(w, candidate), a.ownership = "EXACT_SINGLE_MATCH"
    PROVE  LET change == ChangeOf(a)
           IN  /\ a.candidate = candidate
               /\ change \in Matches(w, candidate) /\ change \in Compare(w.base, w.updated)
               /\ a.path = DependencyPath(TreeOf(w, change), change.key)
               /\ a.target_on_path = TargetOnPath(a.path)
               /\ a.api = ApiEvidenceFor(w, candidate, change)
  <1> DEFINE matches == Matches(w, candidate)
             change == CHOOSE c \in matches : TRUE
             path == DependencyPath(TreeOf(w, change), change.key)
  <1>1. /\ matches # {}
        /\ a = [candidate      |-> candidate,
                ownership      |-> "EXACT_SINGLE_MATCH",
                dependencies   |-> matches,
                path           |-> path,
                target_on_path |-> TargetOnPath(path),
                api            |-> ApiEvidenceFor(w, candidate, change)]
    BY DEF Attribute, Unattributed
  <1>2. change \in matches
    BY <1>1
  <1>3. change \in Compare(w.base, w.updated)
    BY <1>2 DEF Matches, Relevant
  <1> HIDE DEF matches, path
  <1>4. ChangeOf(a) = change
    BY <1>1 DEF ChangeOf
  <1> HIDE DEF change
  <1>5. QED
    BY <1>1, <1>2, <1>3, <1>4 DEF matches, path

\* What the evidence says of its own dependency.
LEMMA EvidenceFields ==
    ASSUME NEW w, NEW candidate, NEW change, NEW e, e = ApiEvidenceFor(w, candidate, change)
    PROVE  /\ e.before = change.before /\ e.after = change.after
           /\ e.symbol = IF w.failure = None THEN None ELSE w.failure.symbol
           /\ e.kind = IF Transition(w, candidate, change) = "COMPARED"
                       THEN CompareRelevantApi(w.failure,
                                               w.jars["base"][change.key].api[candidate.name],
                                               w.jars["updated"][change.key].api[candidate.name]).kind
                       ELSE Transition(w, candidate, change)
  <1> DEFINE kind     == Transition(w, candidate, change)
             new      == w.jars["updated"][change.key].api[candidate.name]
             compared == CompareRelevantApi(w.failure, w.jars["base"][change.key].api[candidate.name], new)
             symbol   == IF w.failure = None THEN None ELSE w.failure.symbol
  <1>1. e = [kind        |-> IF kind = "COMPARED" THEN compared.kind ELSE kind,
             class_name  |-> candidate.name,
             symbol      |-> symbol,
             before      |-> change.before,
             after       |-> change.after,
             old_members |-> IF kind = "COMPARED" THEN compared.old_members ELSE {},
             new_members |-> IF kind = "COMPARED" THEN compared.new_members ELSE {},
             new_class   |-> IF kind = "COMPARED" THEN new ELSE {}]
    BY DEF ApiEvidenceFor
  <1> HIDE DEF kind, new, compared, symbol
  <1>2. /\ e.before = change.before /\ e.after = change.after /\ e.symbol = symbol
        /\ e.kind = IF kind = "COMPARED" THEN compared.kind ELSE kind
    BY <1>1
  <1>3. QED
    BY <1>2 DEF kind, new, compared, symbol

\* The path of a dependency ends at it.
LEMMA PathEndsAtKey ==
    ASSUME NEW w, w.base \in Seq(Node), w.updated \in Seq(Node),
           NEW change \in Compare(w.base, w.updated)
    PROVE  LET path == DependencyPath(TreeOf(w, change), change.key)
           IN  path # <<>> /\ path[Len(path)] = change.key
  <1>1. TreeOf(w, change) \in Seq(Node)
    BY DEF TreeOf
  <1>2. QED
    BY <1>1, ChangeFacts, PathIsChain DEF IsPathTo

\* Facts of one attribution never contradict each other.
LEMMA NothingIsInconsistent ==
    ASSUME NEW w, w.base \in Seq(Node), w.updated \in Seq(Node), NEW a, NEW candidate,
           a = Attribute(w, candidate), a.ownership = "EXACT_SINGLE_MATCH"
    PROVE  InconsistenciesOf(w, a) = {}
  <1> DEFINE change == ChangeOf(a)
  <1>1. /\ change \in Compare(w.base, w.updated)
        /\ a.path = DependencyPath(TreeOf(w, change), change.key)
        /\ a.target_on_path = TargetOnPath(a.path)
        /\ a.api = ApiEvidenceFor(w, candidate, change)
    BY ExactAttribution
  <1> HIDE DEF change
  <1>2. a.api.before = change.before /\ a.api.after = change.after
    BY <1>1, EvidenceFields
  <1>3. a.api.symbol = IF w.failure = None THEN None ELSE w.failure.symbol
    BY <1>1, EvidenceFields
  <1>4. a.path # <<>> /\ a.path[Len(a.path)] = change.key
    BY <1>1, PathEndsAtKey
  <1>5. VersionAt(TreeOf(w, change), change.key)
            = IF change.kind = "REMOVED" THEN change.before ELSE change.after
    BY <1>1, ChangeFacts DEF TreeOf
  <1>6. QED
    BY <1>1, <1>2, <1>3, <1>4, <1>5 DEF InconsistenciesOf, Inconsistencies, change

\* What is at work in the score of a hypothesis.
Marks(h, supporting, missing) ==
    /\ supporting \subseteq Supports
    /\ missing \subseteq Gaps
    /\ h.score = Score(supporting, h.contradictory, missing)
    /\ h.status = HypothesisStatus(h.kind, h.contradictory, missing)
    /\ {"DEPENDENCY_UPDATE", "EXACT_CLASS_OWNERSHIP"} \subseteq supporting
    /\ "API_CHANGE" \in supporting <=> h.kind \in PositiveKinds
    /\ "API_INSPECTION_UNAVAILABLE" \in missing <=> h.kind = "API_INSPECTION_UNAVAILABLE"
    /\ "SOURCE_LOCALIZED" \in supporting <=> "SOURCE_UNRESOLVED" \notin missing
    /\ "SOURCE_CALL_SITE" \in supporting => "SOURCE_LOCALIZED" \in supporting
    /\ "TARGET_DEPENDENCY_PATH" \in supporting <=> "DEPENDENCY_PATH_INCOMPLETE" \notin missing
    /\ "FAILURE_SYMBOL_MATCH" \in supporting => "FAILURE_SYMBOL_MATCH" \notin missing
    /\ "FAILURE_SYMBOL_MATCH" \notin missing => "FAILURE_SYMBOL_MATCH" \in supporting
    /\ "RELEVANT_MEMBER_UNCHANGED" = h.kind => h.contradictory # {}
    /\ h.kind \in HypothesisKinds

\* What a hypothesis of an attribution to one dependency has for it and lacks.
LEMMA HypothesisMarks ==
    ASSUME NEW w, w.base \in Seq(Node), w.updated \in Seq(Node), w.source.localized \in BOOLEAN,
           NEW a, NEW candidate,
           a = Attribute(w, candidate), a.ownership = "EXACT_SINGLE_MATCH",
           a.api.kind \in HypothesisKinds
    PROVE  /\ Marks(ApiHypothesis(w, a), Supporting(w, a), Missing(w, a))
           /\ ApiHypothesis(w, a).contradictory =
                 IF a.api.kind = "RELEVANT_MEMBER_UNCHANGED" THEN {"RELEVANT_MEMBER_UNCHANGED"} ELSE {}
  <1> DEFINE h == ApiHypothesis(w, a)
             supporting == Supporting(w, a)
             missing == Missing(w, a)
  <1>1. /\ h.kind = a.api.kind /\ h.contradictory = Contradictory(w, a)
        /\ h.score = Score(supporting, h.contradictory, missing)
        /\ h.status = HypothesisStatus(h.kind, h.contradictory, missing)
    BY DEF ApiHypothesis
  <1>2. a.api.symbol = IF w.failure = None THEN None ELSE w.failure.symbol
    BY ExactAttribution, EvidenceFields
  <1>3. a.target_on_path \in BOOLEAN
    <2>1. a.target_on_path = TargetOnPath(a.path)
      BY ExactAttribution
    <2>2. QED
      BY <2>1 DEF TargetOnPath
  <1>4. supporting \subseteq Supports /\ missing \subseteq Gaps
    BY DEF Supporting, Missing, Supports, Gaps
  <1>5. /\ {"DEPENDENCY_UPDATE", "EXACT_CLASS_OWNERSHIP"} \subseteq supporting
        /\ "API_CHANGE" \in supporting <=> a.api.kind \in PositiveKinds
        /\ "SOURCE_LOCALIZED" \in supporting <=> w.source.localized
        /\ "SOURCE_CALL_SITE" \in supporting => w.source.localized
        /\ "TARGET_DEPENDENCY_PATH" \in supporting <=> a.target_on_path
        /\ "FAILURE_SYMBOL_MATCH" \in supporting <=>
              w.failure # None /\ a.api.symbol # None /\ a.api.symbol = w.failure.symbol
    BY <1>3 DEF Supporting
  <1>6. /\ "API_INSPECTION_UNAVAILABLE" \in missing <=> a.api.kind = "API_INSPECTION_UNAVAILABLE"
        /\ "SOURCE_UNRESOLVED" \in missing <=> ~w.source.localized
        /\ "DEPENDENCY_PATH_INCOMPLETE" \in missing <=> ~a.target_on_path
        /\ "FAILURE_SYMBOL_MATCH" \in missing <=> w.failure = None \/ a.api.symbol = None
    BY <1>3 DEF Missing
  <1>7. Contradictory(w, a) =
            IF a.api.kind = "RELEVANT_MEMBER_UNCHANGED" THEN {"RELEVANT_MEMBER_UNCHANGED"} ELSE {}
    BY NothingIsInconsistent DEF Contradictory
  <1> HIDE DEF h, supporting, missing
  <1>8. Marks(h, supporting, missing)
    BY <1>1, <1>2, <1>4, <1>5, <1>6, <1>7 DEF Marks
  <1>9. QED
    BY <1>1, <1>7, <1>8 DEF h, supporting, missing

\* The weights keep the kinds of hypotheses apart: one that is supported scores 95
\* or more, another 80 or less; one that is supported in part 40 or more, and one
\* that is not supported at all 35 or less.
LEMMA ScoresSeparate ==
    ASSUME NEW h, NEW supporting, NEW missing, Marks(h, supporting, missing)
    PROVE  /\ h.score \in 0..100
           /\ h.status \in {"SUPPORTED", "PARTIALLY_SUPPORTED", "CONTRADICTED", "INSUFFICIENT_EVIDENCE"}
           /\ h.status = "SUPPORTED" => h.score >= 95
           /\ h.status # "SUPPORTED" => h.score <= 80
           /\ h.status = "PARTIALLY_SUPPORTED" => h.score >= 40
           /\ h.status \in {"CONTRADICTED", "INSUFFICIENT_EVIDENCE"} => h.score <= 35
  <1> DEFINE D == If("DEPENDENCY_UPDATE", supporting, Weight("DEPENDENCY_UPDATE"))
             E == If("EXACT_CLASS_OWNERSHIP", supporting, Weight("EXACT_CLASS_OWNERSHIP"))
             A == If("API_CHANGE", supporting, Weight("API_CHANGE"))
             F == If("FAILURE_SYMBOL_MATCH", supporting, Weight("FAILURE_SYMBOL_MATCH"))
             L == If("SOURCE_LOCALIZED", supporting, Weight("SOURCE_LOCALIZED"))
             C == If("SOURCE_CALL_SITE", supporting, Weight("SOURCE_CALL_SITE"))
             T == If("TARGET_DEPENDENCY_PATH", supporting, Weight("TARGET_DEPENDENCY_PATH"))
             U == If("API_INSPECTION_UNAVAILABLE", missing, Penalty("API_INSPECTION_UNAVAILABLE"))
             S == If("SOURCE_UNRESOLVED", missing, Penalty("SOURCE_UNRESOLVED"))
             P == If("DEPENDENCY_PATH_INCOMPLETE", missing, Penalty("DEPENDENCY_PATH_INCOMPLETE"))
             raw == RawScore(supporting, missing)
  <1>1. raw = D + E + A + F + L + C + T - U - S - P
    BY DEF RawScore
  <1>2. /\ D = 10 /\ E = 20
        /\ A = IF h.kind \in PositiveKinds THEN 30 ELSE 0
        /\ F = IF "FAILURE_SYMBOL_MATCH" \in missing THEN 0 ELSE 20
    BY DEF Marks, If, Weight
  <1>3. /\ L = IF "SOURCE_UNRESOLVED" \in missing THEN 0 ELSE 5
        /\ C \in {0, 5} /\ ("SOURCE_UNRESOLVED" \in missing => C = 0)
        /\ T = IF "DEPENDENCY_PATH_INCOMPLETE" \in missing THEN 0 ELSE 10
    BY DEF Marks, If, Weight
  <1>4. /\ U = IF h.kind = "API_INSPECTION_UNAVAILABLE" THEN 35 ELSE 0
        /\ S = IF "SOURCE_UNRESOLVED" \in missing THEN 10 ELSE 0
        /\ P = IF "DEPENDENCY_PATH_INCOMPLETE" \in missing THEN 10 ELSE 0
    BY DEF Marks, If, Penalty
  <1>5. /\ h.score = LET bounded == IF raw < 0 THEN 0 ELSE IF raw > 100 THEN 100 ELSE raw
                     IN  IF h.contradictory # {} /\ bounded > 20 THEN 20 ELSE bounded
        /\ h.status = HypothesisStatus(h.kind, h.contradictory, missing)
    BY DEF Marks, Score, HardContradictionScoreCap
  <1> HIDE DEF D, E, A, F, L, C, T, U, S, P, raw
  <1>6. raw \in Int /\ raw <= 100
    BY <1>1, <1>2, <1>3, <1>4
  <1>7. CASE h.contradictory # {}
    <2>1. h.status = "CONTRADICTED"
      BY <1>5, <1>7 DEF HypothesisStatus
    <2>2. h.score \in 0..100 /\ h.score <= 20
      BY <1>5, <1>6, <1>7
    <2>3. QED
      BY <2>1, <2>2
  <1>8. CASE h.contradictory = {} /\ h.kind \notin PositiveKinds
    <2>1. h.status = "INSUFFICIENT_EVIDENCE"
      BY <1>5, <1>8 DEF HypothesisStatus
    <2>2. h.kind = "API_INSPECTION_UNAVAILABLE"
      BY <1>8 DEF Marks, HypothesisKinds
    <2>3. raw <= 35
      BY <1>1, <1>2, <1>3, <1>4, <1>8, <2>2
    <2>4. h.score \in 0..100 /\ h.score <= 35
      BY <1>5, <1>6, <1>8, <2>3
    <2>5. QED
      BY <2>1, <2>4
  <1>9. CASE h.contradictory = {} /\ h.kind \in PositiveKinds
    <2>1. h.kind # "API_INSPECTION_UNAVAILABLE"
      BY <1>9 DEF PositiveKinds
    <2>2. CASE missing = {}
      <3>1. h.status = "SUPPORTED"
        BY <1>5, <1>9, <2>2 DEF HypothesisStatus
      <3>2. raw >= 95
        BY <1>1, <1>2, <1>3, <1>4, <1>9, <2>1, <2>2
      <3>3. h.score \in 0..100 /\ h.score >= 95
        BY <1>5, <1>6, <1>9, <3>2
      <3>4. QED
        BY <3>1, <3>3
    <2>3. CASE missing # {}
      <3>1. h.status = "PARTIALLY_SUPPORTED"
        BY <1>5, <1>9, <2>3 DEF HypothesisStatus
      <3>2. \/ "SOURCE_UNRESOLVED" \in missing
            \/ "DEPENDENCY_PATH_INCOMPLETE" \in missing
            \/ "FAILURE_SYMBOL_MATCH" \in missing
        BY <2>1, <2>3 DEF Marks, Gaps
      <3>3. 40 <= raw /\ raw <= 80
        BY <1>1, <1>2, <1>3, <1>4, <1>9, <2>1, <3>2
      <3>4. h.score \in 0..100 /\ h.score >= 40 /\ h.score <= 80
        BY <1>5, <1>6, <1>9, <3>3
      <3>5. QED
        BY <3>1, <3>4
    <2>4. QED
      BY <2>2, <2>3
  <1>10. QED
    BY <1>7, <1>8, <1>9

\* What the situations looked at have in common.
LEMMA WorldFacts ==
    ASSUME WorldIsKnown
    PROVE  /\ world.base \in Seq(Node) /\ world.updated \in Seq(Node)
           /\ world.source.localized \in BOOLEAN
           /\ world.checkout \subseteq Sources /\ IsFiniteSet(world.checkout)
  BY WorldsAssumption DEF WorldIsKnown

\* The hypothesis is about an attribution to one dependency.
IsAbout(h, a, candidate) ==
    /\ a \in Attributed /\ a = Attribute(world, candidate) /\ a.ownership = "EXACT_SINGLE_MATCH"
    /\ a.api.kind \in HypothesisKinds
    /\ h = ApiHypothesis(world, a)

\* A hypothesis is one of shared ownership, or about one dependency and scored
\* and judged by what speaks for it.
LEMMA EveryHypothesis ==
    ASSUME DiagnosisInv, NEW h \in KnownHypotheses
    PROVE  \/ h.status = "AMBIGUOUS" /\ h.score = 0 /\ h.contradictory = {} /\ h.chain = <<>>
           \/ \E a, candidate :
                 /\ IsAbout(h, a, candidate)
                 /\ Marks(h, Supporting(world, a), Missing(world, a))
                 /\ h.contradictory = IF a.api.kind = "RELEVANT_MEMBER_UNCHANGED"
                                      THEN {"RELEVANT_MEMBER_UNCHANGED"} ELSE {}
  <1>1. CASE \E a \in Attributed : h = AmbiguousHypothesis(a)
    BY <1>1 DEF AmbiguousHypothesis
  <1>2. CASE \E a \in Attributed : /\ a.ownership = "EXACT_SINGLE_MATCH" /\ a.api.kind \in HypothesisKinds
                                   /\ h = ApiHypothesis(world, a)
    <2>1. PICK a \in Attributed : /\ a.ownership = "EXACT_SINGLE_MATCH" /\ a.api.kind \in HypothesisKinds
                                  /\ h = ApiHypothesis(world, a)
      BY <1>2
    <2>2. a \in AttributionsOf(world)
      BY AttributedIsFinite DEF DiagnosisInv
    <2>3. PICK candidate : a = Attribute(world, candidate)
      BY <2>2 DEF AttributionsOf
    <2>4. IsAbout(h, a, candidate)
      BY <2>1, <2>3 DEF IsAbout
    <2>5. /\ world.base \in Seq(Node) /\ world.updated \in Seq(Node)
          /\ world.source.localized \in BOOLEAN
      BY WorldFacts DEF DiagnosisInv
    <2>6. /\ Marks(h, Supporting(world, a), Missing(world, a))
          /\ h.contradictory = IF a.api.kind = "RELEVANT_MEMBER_UNCHANGED"
                               THEN {"RELEVANT_MEMBER_UNCHANGED"} ELSE {}
      BY <2>1, <2>3, <2>5, HypothesisMarks
    <2>7. QED
      BY <2>4, <2>6
  <1>3. QED
    BY <1>1, <1>2 DEF KnownHypotheses, Hypotheses

\* The scores of all hypotheses keep their kinds apart.
LEMMA AllScoresSeparate ==
    ASSUME DiagnosisInv, NEW h \in KnownHypotheses
    PROVE  /\ h.score \in 0..100
           /\ h.status \in {"AMBIGUOUS", "SUPPORTED", "PARTIALLY_SUPPORTED", "CONTRADICTED",
                            "INSUFFICIENT_EVIDENCE"}
           /\ h.status = "SUPPORTED" => h.score >= 95
           /\ h.status # "SUPPORTED" => h.score <= 80
           /\ h.status = "PARTIALLY_SUPPORTED" => h.score >= 40
           /\ h.status \in {"CONTRADICTED", "INSUFFICIENT_EVIDENCE"} => h.score <= 35
  <1>1. CASE h.status = "AMBIGUOUS" /\ h.score = 0
    BY <1>1
  <1>2. CASE \E supporting, missing : Marks(h, supporting, missing)
    <2>1. PICK supporting, missing : Marks(h, supporting, missing)
      BY <1>2
    <2>2. QED
      BY <2>1, ScoresSeparate
  <1>3. QED
    BY <1>1, <1>2, EveryHypothesis

\* Nothing scores higher than the first of a ranking.
LEMMA FirstIsBest ==
    ASSUME NEW H, NEW order, IsRanking(order, H), \A h \in H : h.score \in Int, NEW k \in H
    PROVE  order # <<>> /\ order[1] \in H /\ k.score <= order[1].score
  <1>1. order \in Seq(H)
    BY DEF IsRanking
  <1>2. PICK i \in DOMAIN order : order[i] = k
    BY DEF IsRanking
  <1>3. 1 \in DOMAIN order /\ order # <<>> /\ order[1] \in H /\ i \in Nat \ {0}
    BY <1>1, <1>2
  <1>4. i # 1 => ~RanksBefore(order[i], order[1])
    BY <1>2, <1>3 DEF IsRanking
  <1>5. ~(k.score > order[1].score)
    BY <1>2, <1>3, <1>4 DEF RanksBefore
  <1>6. QED
    BY <1>3, <1>5

\* Where a diagnosis has a standing, its lead is a hypothesis of that standing.
LEMMA LeadHasStanding ==
    ASSUME DiagnosisInv
    PROVE  /\ status = "SUPPORTED_DIAGNOSIS" => Lead \in KnownHypotheses /\ Lead.status = "SUPPORTED"
           /\ status = "PARTIAL_DIAGNOSIS" => Lead \in KnownHypotheses /\ Lead.status = "PARTIALLY_SUPPORTED"
  <1>1. SUFFICES ASSUME status \in {"SUPPORTED_DIAGNOSIS", "PARTIAL_DIAGNOSIS"}
                 PROVE  /\ status = "SUPPORTED_DIAGNOSIS" =>
                              Lead \in KnownHypotheses /\ Lead.status = "SUPPORTED"
                        /\ status = "PARTIAL_DIAGNOSIS" =>
                              Lead \in KnownHypotheses /\ Lead.status = "PARTIALLY_SUPPORTED"
    OBVIOUS
  <1>2. IsRanking(ranking, KnownHypotheses) /\ status = DiagnosisStatus(KnownHypotheses)
    <2>1. status # None
      BY <1>1, OutcomeAssumption DEF DiagnosisStatuses
    <2>2. QED
      BY <2>1 DEF DiagnosisInv, PhasesAreInOrder
  <1>3. \A h \in KnownHypotheses : h.score \in Int
    BY AllScoresSeparate
  <1>4. ASSUME NEW k \in KnownHypotheses
        PROVE  Lead = ranking[1] /\ Lead \in KnownHypotheses /\ k.score <= Lead.score
    <2>1. ranking # <<>> /\ ranking[1] \in KnownHypotheses /\ k.score <= ranking[1].score
      BY <1>2, <1>3, FirstIsBest
    <2>2. Lead = ranking[1]
      BY <1>1, <2>1 DEF Lead, PrimaryHypothesis
    <2>3. QED
      BY <2>1, <2>2
  <1>5. CASE status = "SUPPORTED_DIAGNOSIS"
    <2>1. PICK k \in KnownHypotheses : k.status = "SUPPORTED"
      BY <1>2, <1>5 DEF DiagnosisStatus
    <2>2. Lead \in KnownHypotheses /\ k.score <= Lead.score
      BY <1>4
    <2>3. k.score >= 95 /\ k.score \in Int /\ Lead.score \in Int
          /\ (Lead.status # "SUPPORTED" => Lead.score <= 80)
      BY <2>1, <2>2, AllScoresSeparate
    <2>4. QED
      BY <1>5, <2>2, <2>3
  <1>6. CASE status = "PARTIAL_DIAGNOSIS"
    <2>1. PICK k \in KnownHypotheses : k.status = "PARTIALLY_SUPPORTED"
      BY <1>2, <1>6 DEF DiagnosisStatus
    <2>2. Lead \in KnownHypotheses /\ k.score <= Lead.score
      BY <1>4
    <2>3. k.score >= 40 /\ k.score \in Int /\ Lead.score \in Int
          /\ (Lead.status \in {"CONTRADICTED", "INSUFFICIENT_EVIDENCE"} => Lead.score <= 35)
      BY <2>1, <2>2, AllScoresSeparate
    <2>4. Lead.status \notin {"SUPPORTED", "AMBIGUOUS"}
      BY <1>2, <1>6, <2>2 DEF DiagnosisStatus
    <2>5. Lead.status \in {"AMBIGUOUS", "SUPPORTED", "PARTIALLY_SUPPORTED", "CONTRADICTED",
                           "INSUFFICIENT_EVIDENCE"}
      BY <2>2, AllScoresSeparate
    <2>6. QED
      BY <1>6, <2>2, <2>3, <2>4, <2>5
  <1>7. QED
    BY <1>1, <1>5, <1>6

\* Whatever the evidence is, no hypothesis of a weaker kind outranks the one that
\* decided the diagnosis: the weights and the cap see to it.
THEOREM TheLeadIsTheBest == Spec => []LeadIsBest
  <1>1. DiagnosisInv => LeadIsBest
    BY LeadHasStanding DEF LeadIsBest
  <1>2. QED
    BY <1>1, DiagnosisInit, DiagnosisStep, PTL DEF Spec

\* A supported hypothesis is about a change of an API, has all there is to have
\* and nothing against it.
LEMMA SupportedMeans ==
    ASSUME DiagnosisInv, NEW h \in KnownHypotheses, h.status = "SUPPORTED"
    PROVE  \E a, candidate :
              /\ IsAbout(h, a, candidate)
              /\ h.contradictory = {}
              /\ Missing(world, a) = {}
              /\ a.api.kind \in PositiveKinds /\ h.kind = a.api.kind /\ h.attribution = a
              /\ {"DEPENDENCY_UPDATE", "API_CHANGE", "FAILURE_SYMBOL_MATCH", "SOURCE_LOCALIZED",
                  "TARGET_DEPENDENCY_PATH"} \subseteq Supporting(world, a)
  <1>1. PICK a, candidate :
            IsAbout(h, a, candidate) /\ Marks(h, Supporting(world, a), Missing(world, a))
    BY EveryHypothesis
  <1>2. h.kind = a.api.kind /\ h.attribution = a
    BY <1>1 DEF IsAbout, ApiHypothesis
  <1>3. h.status = HypothesisStatus(h.kind, h.contradictory, Missing(world, a))
    BY <1>1 DEF Marks
  <1>4. h.contradictory = {} /\ h.kind \in PositiveKinds /\ Missing(world, a) = {}
    BY <1>3 DEF HypothesisStatus
  <1>5. {"DEPENDENCY_UPDATE", "API_CHANGE", "FAILURE_SYMBOL_MATCH", "SOURCE_LOCALIZED",
         "TARGET_DEPENDENCY_PATH"} \subseteq Supporting(world, a)
    BY <1>1, <1>4 DEF Marks
  <1>6. QED
    BY <1>1, <1>2, <1>4, <1>5

\* The links of a whole chain, in their order, and evidence for each.
IsCompleteChain(chain, direct) ==
    /\ [j \in DOMAIN chain |-> chain[j].kind] =
          <<"TARGET_UPGRADE">> \o (IF direct THEN <<>> ELSE <<"DEPENDENCY_RESOLUTION_CHANGE">>)
                             \o <<"API_CHANGE", "PROJECT_USAGE", "OBSERVED_FAILURE">>
    /\ \A j \in DOMAIN chain : chain[j].evidence # {}

\* The causal chain of an attribution that lacks nothing is whole.
LEMMA CompleteChain ==
    ASSUME NEW w, NEW a, NEW supporting, w.source.localized \in BOOLEAN, a.target_on_path \in BOOLEAN,
           Missing(w, a) = {}, a.api.kind \in PositiveKinds,
           {"DEPENDENCY_UPDATE", "API_CHANGE", "FAILURE_SYMBOL_MATCH", "SOURCE_LOCALIZED",
            "TARGET_DEPENDENCY_PATH"} \subseteq supporting
    PROVE  IsCompleteChain(CausalChain(w, a, supporting), ChangeOf(a).is_target)
  <1> DEFINE Link(kind, kinds) == [kind |-> kind, evidence |-> kinds \intersect supporting]
             chain == CausalChain(w, a, supporting)
             direct == ChangeOf(a).is_target
             target == Link("TARGET_UPGRADE", {"DEPENDENCY_UPDATE"})
             above == Link("TARGET_UPGRADE", {"TARGET_DEPENDENCY_PATH"})
             resolved == Link("DEPENDENCY_RESOLUTION_CHANGE", {"DEPENDENCY_UPDATE"})
             api == Link("API_CHANGE", {"API_CHANGE"})
             usage == Link("PROJECT_USAGE", {"SOURCE_CALL_SITE", "SOURCE_LOCALIZED"})
             failure == Link("OBSERVED_FAILURE", {"FAILURE_SYMBOL_MATCH"})
  <1>1. w.source.localized /\ a.target_on_path /\ w.failure # None
    BY DEF Missing
  <1>2. /\ target.evidence # {} /\ above.evidence # {} /\ resolved.evidence # {}
        /\ api.evidence # {} /\ usage.evidence # {} /\ failure.evidence # {}
    OBVIOUS
  <1>3. /\ target.kind = "TARGET_UPGRADE" /\ above.kind = "TARGET_UPGRADE"
        /\ resolved.kind = "DEPENDENCY_RESOLUTION_CHANGE" /\ api.kind = "API_CHANGE"
        /\ usage.kind = "PROJECT_USAGE" /\ failure.kind = "OBSERVED_FAILURE"
    OBVIOUS
  <1>4. chain = (((IF direct THEN <<target>> ELSE <<above>> \o <<resolved>>)
                    \o <<api>>) \o <<usage>>) \o <<failure>>
    BY <1>1 DEF CausalChain
  <1> HIDE DEF Link, chain, target, above, resolved, api, usage, failure
  <1>5. CASE direct
    <2>1. chain = <<target, api, usage, failure>>
      <3>1. <<target>> \o <<api>> = <<target, api>>
        BY Join1And1
      <3>2. <<target, api>> \o <<usage>> = <<target, api, usage>>
        BY Join2And1
      <3>3. <<target, api, usage>> \o <<failure>> = <<target, api, usage, failure>>
        BY Join3And1
      <3>4. chain = ((<<target>> \o <<api>>) \o <<usage>>) \o <<failure>>
        BY <1>4, <1>5
      <3>5. QED
        BY <3>1, <3>2, <3>3, <3>4, Zenon
    <2>2. [j \in DOMAIN chain |-> chain[j].kind] =
              <<"TARGET_UPGRADE", "API_CHANGE", "PROJECT_USAGE", "OBSERVED_FAILURE">>
      BY <1>3, <2>1
    <2>3. \A j \in DOMAIN chain : chain[j].evidence # {}
      BY <1>2, <2>1
    <2>4. (<<"TARGET_UPGRADE">> \o <<>>) \o <<"API_CHANGE", "PROJECT_USAGE", "OBSERVED_FAILURE">>
              = <<"TARGET_UPGRADE", "API_CHANGE", "PROJECT_USAGE", "OBSERVED_FAILURE">>
      BY JoinNothing, Join1And3
    <2>5. QED
      BY <1>5, <2>2, <2>3, <2>4 DEF IsCompleteChain, chain
  <1>6. CASE ~direct
    <2>1. chain = <<above, resolved, api, usage, failure>>
      <3>1. <<above>> \o <<resolved>> = <<above, resolved>>
        BY Join1And1
      <3>2. <<above, resolved>> \o <<api>> = <<above, resolved, api>>
        BY Join2And1
      <3>3. <<above, resolved, api>> \o <<usage>> = <<above, resolved, api, usage>>
        BY Join3And1
      <3>4. <<above, resolved, api, usage>> \o <<failure>> = <<above, resolved, api, usage, failure>>
        BY Join4And1
      <3>5. chain = (((<<above>> \o <<resolved>>) \o <<api>>) \o <<usage>>) \o <<failure>>
        BY <1>4, <1>6
      <3>6. QED
        BY <3>1, <3>2, <3>3, <3>4, <3>5, Zenon
    <2>2. [j \in DOMAIN chain |-> chain[j].kind] =
              <<"TARGET_UPGRADE", "DEPENDENCY_RESOLUTION_CHANGE", "API_CHANGE", "PROJECT_USAGE",
                "OBSERVED_FAILURE">>
      BY <1>3, <2>1
    <2>3. \A j \in DOMAIN chain : chain[j].evidence # {}
      BY <1>2, <2>1
    <2>4. (<<"TARGET_UPGRADE">> \o <<"DEPENDENCY_RESOLUTION_CHANGE">>)
                \o <<"API_CHANGE", "PROJECT_USAGE", "OBSERVED_FAILURE">>
              = <<"TARGET_UPGRADE", "DEPENDENCY_RESOLUTION_CHANGE", "API_CHANGE", "PROJECT_USAGE",
                  "OBSERVED_FAILURE">>
      <3>1. <<"TARGET_UPGRADE">> \o <<"DEPENDENCY_RESOLUTION_CHANGE">>
                = <<"TARGET_UPGRADE", "DEPENDENCY_RESOLUTION_CHANGE">>
        BY Join1And1
      <3>2. <<"TARGET_UPGRADE", "DEPENDENCY_RESOLUTION_CHANGE">>
                  \o <<"API_CHANGE", "PROJECT_USAGE", "OBSERVED_FAILURE">>
                = <<"TARGET_UPGRADE", "DEPENDENCY_RESOLUTION_CHANGE", "API_CHANGE", "PROJECT_USAGE",
                    "OBSERVED_FAILURE">>
        BY Join2And3
      <3>3. QED
        BY <3>1, <3>2, Zenon
    <2>5. QED
      BY <1>6, <2>2, <2>3, <2>4 DEF IsCompleteChain, chain
  <1>7. QED
    BY <1>5, <1>6

\* Every hypothesis that is ranked is one of those the attributions give.
LEMMA RankedAreKnown ==
    ASSUME DiagnosisInv, NEW i \in DOMAIN ranking
    PROVE  ranking[i] \in KnownHypotheses
  <1>1. ranking # <<>>
    OBVIOUS
  <1>2. IsRanking(ranking, KnownHypotheses)
    BY <1>1 DEF DiagnosisInv, PhasesAreInOrder
  <1>3. QED
    BY <1>2 DEF IsRanking

\* The facts of the phases fit together, and a supported hypothesis has the whole
\* chain from the upgrade to the failure, each link with its evidence.
THEOREM TheChainHolds == Spec => []SupportedChainHolds
  <1>1. ASSUME DiagnosisInv PROVE EvidenceIsConsistent
    <2>1. SUFFICES ASSUME NEW i \in DOMAIN ranking
                   PROVE  ranking[i].contradictory \subseteq {"RELEVANT_MEMBER_UNCHANGED"}
      BY DEF EvidenceIsConsistent
    <2>2. QED
      BY <1>1, RankedAreKnown, EveryHypothesis
  <1>2. ASSUME DiagnosisInv PROVE SupportedChainIsComplete
    <2> SUFFICES ASSUME NEW i \in DOMAIN ranking, ranking[i].status = "SUPPORTED"
                 PROVE  /\ [j \in DOMAIN ranking[i].chain |-> ranking[i].chain[j].kind] =
                              <<"TARGET_UPGRADE">>
                                \o (IF ChangeOf(ranking[i].attribution).is_target THEN <<>>
                                    ELSE <<"DEPENDENCY_RESOLUTION_CHANGE">>)
                                \o <<"API_CHANGE", "PROJECT_USAGE", "OBSERVED_FAILURE">>
                        /\ \A step \in StepsOf(ranking[i]) : step.evidence # {}
      BY DEF SupportedChainIsComplete
    <2> DEFINE h == ranking[i]
    <2>1. h \in KnownHypotheses
      BY <1>2, RankedAreKnown
    <2> HIDE DEF h
    <2>2. h.status = "SUPPORTED"
      BY DEF h
    <2>3. PICK a, candidate :
              /\ IsAbout(h, a, candidate)
              /\ Missing(world, a) = {} /\ a.api.kind \in PositiveKinds /\ h.attribution = a
              /\ {"DEPENDENCY_UPDATE", "API_CHANGE", "FAILURE_SYMBOL_MATCH", "SOURCE_LOCALIZED",
                  "TARGET_DEPENDENCY_PATH"} \subseteq Supporting(world, a)
      BY <1>2, <2>1, <2>2, SupportedMeans
    <2>4. h.chain = CausalChain(world, a, Supporting(world, a))
      BY <2>3 DEF IsAbout, ApiHypothesis
    <2>5. /\ world.base \in Seq(Node) /\ world.updated \in Seq(Node)
          /\ world.source.localized \in BOOLEAN
      BY <1>2, WorldFacts DEF DiagnosisInv
    <2>6. a.target_on_path \in BOOLEAN
      <3>1. a.target_on_path = TargetOnPath(a.path)
        BY <2>3, <2>5, ExactAttribution DEF IsAbout
      <3>2. QED
        BY <3>1 DEF TargetOnPath
    <2>7. IsCompleteChain(h.chain, ChangeOf(h.attribution).is_target)
      BY <2>3, <2>4, <2>5, <2>6, CompleteChain
    <2>8. QED
      BY <2>7 DEF h, StepsOf, IsCompleteChain
  <1>3. DiagnosisInv => SupportedChainHolds
    BY <1>1, <1>2 DEF SupportedChainHolds
  <1>4. QED
    BY <1>3, DiagnosisInit, DiagnosisStep, PTL DEF Spec

\* What the positive transitions say of the jars, as far as presence goes.
LEMMA TransitionMeans ==
    ASSUME NEW w, NEW candidate, NEW change \in Matches(w, candidate),
           NEW kind, kind = Transition(w, candidate, change)
    PROVE  /\ kind = "PACKAGE_REMOVED" =>
                 /\ candidate.is_package
                 /\ Before(w, change, candidate) = "present" /\ After(w, change, candidate) = "absent"
           /\ kind \in {"REMOVED_CLASS", "DEPENDENCY_REMOVED_WITH_CLASS"} =>
                 /\ ~candidate.is_package
                 /\ Before(w, change, candidate) = "present" /\ After(w, change, candidate) = "absent"
           /\ kind = "DEPENDENCY_REMOVED_WITH_CLASS" => change.kind = "REMOVED"
           /\ kind = "COMPARED" =>
                 /\ ~candidate.is_package /\ w.failure # None
                 /\ Before(w, change, candidate) = "present" /\ After(w, change, candidate) = "present"
           /\ kind \in {"API_INSPECTION_UNAVAILABLE", "PACKAGE_REMOVED", "NO_RELEVANT_API_CHANGE",
                        "DEPENDENCY_REMOVED_WITH_CLASS", "REMOVED_CLASS", "ADDED_CLASS", "COMPARED"}
  <1>1. "present" \in {Before(w, change, candidate), After(w, change, candidate)}
    BY DEF Matches
  <1>2. /\ Before(w, change, candidate) \in Presence
        /\ After(w, change, candidate) \in Presence
    BY DEF Before, After, Owns, Presence
  <1>3. QED
    BY <1>1, <1>2 DEF Transition, Presence

\* A jar that was read and has the candidate, or has it not, is what it says.
LEMMA PresenceIsReal ==
    ASSUME NEW jar, NEW version, NEW candidate,
           NEW classes, classes = IF version = None THEN {} ELSE jar.classes
    PROVE  /\ Owns(jar, version, candidate) = "present" =>
                 IF candidate.is_package THEN classes \intersect Under[candidate.name] # {}
                 ELSE candidate.name \in classes
           /\ Owns(jar, version, candidate) = "absent" =>
                 IF candidate.is_package THEN classes \intersect Under[candidate.name] = {}
                 ELSE candidate.name \notin classes
  BY DEF Owns, Holds

\* What a comparison of members reports, for the members with the name of the symbol.
ComparisonIsTrue(failure, old, new) ==
    LET kind     == CompareRelevantApi(failure, old, new).kind
        oldNamed == {m \in old : m.name = failure.symbol.name}
        newNamed == {m \in new : m.name = failure.symbol.name}
    IN  /\ kind = "REMOVED_MEMBER" => oldNamed # {} /\ newNamed = {}
        /\ kind = "CHANGED_MEMBER_SIGNATURE" => oldNamed # newNamed
        /\ kind \in {"CLASS_PRESENT_BOTH", "RELEVANT_MEMBER_UNCHANGED", "CHANGED_MEMBER_SIGNATURE",
                     "REMOVED_MEMBER", "ADDED_MEMBER", "NO_RELEVANT_API_CHANGE"}

\* Members reported removed or changed were, whichever of them were compared.
LEMMA ComparisonMeans ==
    ASSUME NEW failure, NEW old, NEW new
    PROVE  ComparisonIsTrue(failure, old, new)
  <1> DEFINE kind == CompareRelevantApi(failure, old, new).kind
             oldNamed == {m \in old : m.name = failure.symbol.name}
             newNamed == {m \in new : m.name = failure.symbol.name}
             expected == ExpectedParameters(failure)
             Exact(named) ==
                 IF expected = None THEN {} ELSE {m \in named : ParametersMatch(m.parameters, expected)}
             oldExact == Exact(oldNamed)
             newExact == Exact(newNamed)
  <1>1. CASE ~NamesMember(failure)
    BY <1>1 DEF CompareRelevantApi, ComparisonIsTrue
  <1>2. CASE NamesMember(failure)
    <2>1. kind = IF oldExact # {} /\ newExact # {} THEN CompareNamedSets(oldExact, newExact)
                 ELSE IF oldExact # {} THEN CompareNamedSets(oldExact, newNamed)
                 ELSE CompareNamedSets(oldNamed, newNamed)
      BY <1>2 DEF CompareRelevantApi
    <2>2. oldExact \subseteq oldNamed /\ newExact \subseteq newNamed
      OBVIOUS
    <2>3. oldNamed = newNamed => oldExact = newExact
      OBVIOUS
    <2>4. \A s, t : s = t => SameMembers(s, t)
      BY DEF SameMembers
    <2> HIDE DEF expected, Exact, oldExact, newExact, kind
    <2>5. QED
      BY <2>1, <2>2, <2>3, <2>4 DEF CompareNamedSets, ComparisonIsTrue, kind
  <1>3. QED
    BY <1>1, <1>2

\* What a supported hypothesis claims is so.
LEMMA ClaimIsTrue ==
    ASSUME DiagnosisInv, NEW h \in KnownHypotheses, h.status = "SUPPORTED"
    PROVE  Claim(h)
  <1>1. PICK a, candidate :
            IsAbout(h, a, candidate) /\ a.api.kind \in PositiveKinds
                /\ h.kind = a.api.kind /\ h.attribution = a
    BY SupportedMeans
  <1> DEFINE change == ChangeOf(a)
             name == candidate.name
             old == world.jars["base"][change.key].api[name]
             new == world.jars["updated"][change.key].api[name]
             kind == Transition(world, candidate, change)
  <1>2. world.base \in Seq(Node) /\ world.updated \in Seq(Node)
    BY WorldFacts DEF DiagnosisInv
  <1>3. /\ a.candidate = candidate
        /\ change \in Matches(world, candidate) /\ change \in Compare(world.base, world.updated)
        /\ a.api = ApiEvidenceFor(world, candidate, change)
    BY <1>1, <1>2, ExactAttribution DEF IsAbout
  <1> HIDE DEF change
  <1>4. a.api.kind = IF kind = "COMPARED" THEN CompareRelevantApi(world.failure, old, new).kind ELSE kind
    BY <1>3, EvidenceFields
  <1> HIDE DEF old, new, kind
  <1>5. /\ kind = "PACKAGE_REMOVED" =>
              /\ candidate.is_package
              /\ Before(world, change, candidate) = "present"
              /\ After(world, change, candidate) = "absent"
        /\ kind \in {"REMOVED_CLASS", "DEPENDENCY_REMOVED_WITH_CLASS"} =>
              /\ ~candidate.is_package
              /\ Before(world, change, candidate) = "present"
              /\ After(world, change, candidate) = "absent"
        /\ kind = "DEPENDENCY_REMOVED_WITH_CLASS" => change.kind = "REMOVED"
        /\ kind = "COMPARED" =>
              /\ ~candidate.is_package
              /\ Before(world, change, candidate) = "present"
              /\ After(world, change, candidate) = "present"
        /\ kind \in {"API_INSPECTION_UNAVAILABLE", "PACKAGE_REMOVED", "NO_RELEVANT_API_CHANGE",
                     "DEPENDENCY_REMOVED_WITH_CLASS", "REMOVED_CLASS", "ADDED_CLASS", "COMPARED"}
    BY <1>3, TransitionMeans DEF kind
  <1>6. /\ Before(world, change, candidate) = "present" =>
              IF candidate.is_package THEN Old(change) \intersect Under[name] # {}
              ELSE name \in Old(change)
        /\ After(world, change, candidate) = "present" =>
              IF candidate.is_package THEN New(change) \intersect Under[name] # {}
              ELSE name \in New(change)
        /\ After(world, change, candidate) = "absent" =>
              IF candidate.is_package THEN New(change) \intersect Under[name] = {}
              ELSE name \notin New(change)
    <2>1. /\ Old(change) = IF change.before = None THEN {} ELSE world.jars["base"][change.key].classes
          /\ New(change) = IF change.after = None THEN {} ELSE world.jars["updated"][change.key].classes
      BY DEF Old, New, Really
    <2> DEFINE jar == world.jars["base"][change.key]
               newJar == world.jars["updated"][change.key]
               oldClasses == Old(change)
               newClasses == New(change)
    <2>2. /\ Before(world, change, candidate) = Owns(jar, change.before, candidate)
          /\ After(world, change, candidate) = Owns(newJar, change.after, candidate)
      BY DEF Before, After
    <2> HIDE DEF jar, newJar, oldClasses, newClasses
    <2>3. /\ oldClasses = IF change.before = None THEN {} ELSE jar.classes
          /\ newClasses = IF change.after = None THEN {} ELSE newJar.classes
      BY <2>1 DEF jar, newJar, oldClasses, newClasses
    <2>4. Before(world, change, candidate) = "present" =>
              IF candidate.is_package THEN oldClasses \intersect Under[name] # {}
              ELSE name \in oldClasses
      BY <2>2, <2>3, PresenceIsReal
    <2>5. /\ After(world, change, candidate) = "present" =>
                IF candidate.is_package THEN newClasses \intersect Under[name] # {}
                ELSE name \in newClasses
          /\ After(world, change, candidate) = "absent" =>
                IF candidate.is_package THEN newClasses \intersect Under[name] = {}
                ELSE name \notin newClasses
      BY <2>2, <2>3, PresenceIsReal
    <2>6. QED
      BY <2>4, <2>5 DEF oldClasses, newClasses
  <1>7. change.kind = "REMOVED" => change.key \notin KeysOf(world.updated)
    BY <1>2, <1>3, ChangeFacts
  <1> DEFINE compared == CompareRelevantApi(world.failure, old, new).kind
  <1>8. /\ compared = "REMOVED_MEMBER" =>
              Named("base", change, name) # {} /\ Named("updated", change, name) = {}
        /\ compared = "CHANGED_MEMBER_SIGNATURE" =>
              Named("base", change, name) # Named("updated", change, name)
        /\ compared \in {"CLASS_PRESENT_BOTH", "RELEVANT_MEMBER_UNCHANGED", "CHANGED_MEMBER_SIGNATURE",
                         "REMOVED_MEMBER", "ADDED_MEMBER", "NO_RELEVANT_API_CHANGE"}
    <2>1. ComparisonIsTrue(world.failure, old, new)
      BY ComparisonMeans
    <2>2. /\ Named("base", change, name) = {m \in old : m.name = world.failure.symbol.name}
          /\ Named("updated", change, name) = {m \in new : m.name = world.failure.symbol.name}
      BY DEF Named, old, new
    <2>3. QED
      BY <2>1, <2>2 DEF ComparisonIsTrue
  <1> HIDE DEF compared
  <1>9. /\ ChangeOf(h.attribution) = change
        /\ h.attribution.candidate.name = name
        /\ h.kind \in PositiveKinds
        /\ h.kind = IF kind = "COMPARED" THEN compared ELSE kind
    BY <1>1, <1>3, <1>4 DEF change, compared
  <1>10. CASE kind = "COMPARED"
    <2>1. h.kind \in {"REMOVED_MEMBER", "CHANGED_MEMBER_SIGNATURE"}
      BY <1>8, <1>9, <1>10 DEF PositiveKinds
    <2>2. name \in Old(change) \intersect New(change)
      BY <1>5, <1>6, <1>10
    <2>3. QED
      BY <1>8, <1>9, <1>10, <2>1, <2>2 DEF Claim
  <1>11. CASE kind # "COMPARED"
    <2>1. h.kind = kind /\ kind \in {"PACKAGE_REMOVED", "REMOVED_CLASS", "DEPENDENCY_REMOVED_WITH_CLASS"}
      BY <1>5, <1>9, <1>11 DEF PositiveKinds
    <2>2. CASE kind = "PACKAGE_REMOVED"
      BY <1>5, <1>6, <1>9, <2>1, <2>2 DEF Claim
    <2>3. CASE kind = "REMOVED_CLASS"
      BY <1>5, <1>6, <1>9, <2>1, <2>3 DEF Claim
    <2>4. CASE kind = "DEPENDENCY_REMOVED_WITH_CLASS"
      BY <1>5, <1>6, <1>7, <1>9, <2>1, <2>4 DEF Claim
    <2>5. QED
      BY <2>1, <2>2, <2>3, <2>4
  <1>12. QED
    BY <1>10, <1>11

\* Every set that contains a key and, with each of its keys, the parent contains
\* the whole path down to that key.
LEMMA PathIsInEveryClosedSet ==
    ASSUME NEW tree \in Seq(Node), NEW key \in KeysOf(tree), NEW S,
           key \in S, \A k \in S : NodeAt(tree, k).parent \in S \union {None},
           NEW path, path = DependencyPath(tree, key), NEW i \in DOMAIN path
    PROVE  path[i] \in S
  <1> DEFINE N == Len(path)
             T == {d \in Nat : d < N => path[N - d] \in S}
  <1>1. /\ path \in Seq(KeysOf(tree)) /\ N \in Nat \ {0} /\ path[N] = key
        /\ \A j \in 2..N : NodeAt(tree, path[j]).parent = path[j - 1]
    <2>1. IsPathTo(tree, key, path)
      BY PathIsChain
    <2>2. QED
      BY <2>1 DEF IsPathTo
  <1> HIDE DEF N
  <1>2. 0 \in T
    <2>1. N - 0 = N
      BY <1>1
    <2>2. QED
      BY <1>1, <2>1
  <1>3. ASSUME NEW d \in T PROVE d + 1 \in T
    <2>1. SUFFICES ASSUME d + 1 < N PROVE path[N - (d + 1)] \in S
      OBVIOUS
    <2> DEFINE j == N - d
    <2>2. j \in 2..N /\ j - 1 = N - (d + 1) /\ j - 1 \in 1..N /\ path[j] \in S
      BY <1>1, <2>1
    <2>3. NodeAt(tree, path[j]).parent = path[j - 1]
      BY <1>1, <2>2
    <2>4. path[j - 1] \in KeysOf(tree)
      BY <1>1, <2>2 DEF N
    <2>5. path[j - 1] # None
      BY <2>4, KeysAreNotNone
    <2>6. QED
      BY <2>2, <2>3, <2>5
  <1>4. T = Nat
    <2>1. T \in SUBSET Nat
      OBVIOUS
    <2> HIDE DEF T
    <2>2. QED
      BY <1>2, <1>3, <2>1, SetInduction
  <1>5. i \in 1..N
    BY <1>1 DEF N
  <1>6. N - i \in Nat /\ N - i < N /\ N - (N - i) = i
    BY <1>1, <1>5
  <1>7. N - i \in T
    BY <1>4, <1>6
  <1>8. QED
    BY <1>6, <1>7

\* A diagnosis the tool calls supported is a true statement about the two builds:
\* what it says of the API is so, and the target of the upgrade brought it in.
THEOREM SupportedDiagnosesAreTrue == Spec => []SupportedDiagnosisIsTrue
  <1>1. ASSUME DiagnosisInv PROVE SupportedDiagnosisIsTrue
    <2>1. SUFFICES ASSUME status = "SUPPORTED_DIAGNOSIS"
                   PROVE  LET change == ChangeOf(Lead.attribution)
                          IN  /\ Claim(Lead)
                              /\ BroughtByTarget(IF change.after = None THEN world.base
                                                 ELSE world.updated, change.key)
                              /\ world.source.localized
      BY DEF SupportedDiagnosisIsTrue
    <2>2. Lead \in KnownHypotheses /\ Lead.status = "SUPPORTED"
      BY <1>1, <2>1, LeadHasStanding
    <2>3. Claim(Lead)
      BY <1>1, <2>2, ClaimIsTrue
    <2>4. PICK a, candidate :
              /\ IsAbout(Lead, a, candidate)
              /\ Missing(world, a) = {} /\ Lead.attribution = a
      BY <1>1, <2>2, SupportedMeans
    <2> DEFINE change == ChangeOf(a)
               tree == TreeOf(world, change)
    <2>5. world.source.localized /\ a.target_on_path
      BY <2>4 DEF Missing
    <2>6. world.base \in Seq(Node) /\ world.updated \in Seq(Node)
      BY <1>1, WorldFacts DEF DiagnosisInv
    <2>7. /\ change \in Compare(world.base, world.updated)
          /\ a.path = DependencyPath(tree, change.key)
          /\ a.target_on_path = TargetOnPath(a.path)
      BY <2>4, <2>6, ExactAttribution DEF IsAbout
    <2> HIDE DEF change
    <2>8. tree = (IF change.after = None THEN world.base ELSE world.updated)
          /\ change.key \in KeysOf(tree)
      BY <2>6, <2>7, ChangeFacts DEF TreeOf
    <2>9. tree \in Seq(Node)
      BY <2>6, <2>8
    <2> HIDE DEF tree
    <2>10. PICK i \in DOMAIN a.path : a.path[i] \in TargetKeys
      BY <2>5, <2>7 DEF TargetOnPath
    <2>11. BroughtByTarget(tree, change.key)
      <3>1. SUFFICES ASSUME NEW S \in SUBSET KeysOf(tree), change.key \in S,
                            \A k \in S : NodeAt(tree, k).parent \in S \union {None}
                     PROVE  S \intersect TargetKeys # {}
        BY DEF BroughtByTarget
      <3>2. a.path[i] \in S
        BY <2>7, <2>8, <2>9, <2>10, <3>1, PathIsInEveryClosedSet
      <3>3. QED
        BY <2>10, <3>2
    <2>12. QED
      BY <2>3, <2>4, <2>5, <2>8, <2>11 DEF change
  <1>2. DiagnosisInv => SupportedDiagnosisIsTrue
    BY <1>1
  <1>3. QED
    BY <1>2, DiagnosisInit, DiagnosisStep, PTL DEF Spec

\* Without an issue, whoever has a class of a candidate is among its owners.
THEOREM TheAnalysisLooksEverywhere == Spec => []AnalysisLookedEverywhere
  <1>1. ASSUME DiagnosisInv PROVE AnalysisLookedEverywhere
    <2>1. SUFFICES ASSUME analysis \in {"NO_CHANGED_DEPENDENCY_ATTRIBUTION", "API_EVIDENCE_FOUND"},
                          NEW a \in Attributed, NEW c \in Relevant(world),
                          ~a.candidate.project_owned, ~a.candidate.is_package,
                          a.candidate.name \in Old(c) \union New(c)
                   PROVE  /\ a.ownership \in {"EXACT_SINGLE_MATCH", "MULTIPLE_MATCHES"}
                          /\ c \in a.dependencies
      BY DEF AnalysisLookedEverywhere
    <2>2. analysis = ClassifyAnalysis(world.failure, Attributed, issues)
      <3>1. analysis # None
        BY <2>1, OutcomeAssumption DEF AnalysisStatuses
      <3>2. QED
        BY <1>1, <3>1 DEF DiagnosisInv, PhasesAreInOrder
    <2>3. ~issues
      BY <2>1, <2>2 DEF ClassifyAnalysis
    <2>4. PICK candidate : a = Attribute(world, candidate)
      <3>1. a \in AttributionsOf(world)
        BY <1>1, AttributedIsFinite DEF DiagnosisInv
      <3>2. QED
        BY <3>1 DEF AttributionsOf
    <2>5. a.candidate = candidate
      BY <2>4, AttributionOfCandidate
    <2>6. ~LeavesIssue(world, candidate)
      BY <1>1, <2>3, <2>5 DEF DiagnosisInv, AttributionsAreRight
    <2>7. Before(world, c, candidate) # "unknown" /\ After(world, c, candidate) # "unknown"
      BY <2>1, <2>5, <2>6 DEF LeavesIssue
    <2>8. /\ candidate.name \in Old(c) => Before(world, c, candidate) = "present"
          /\ candidate.name \in New(c) => After(world, c, candidate) = "present"
      BY <2>1, <2>5, <2>7 DEF Before, After, Owns, Holds, Old, New, Really
    <2>9. c \in Matches(world, candidate)
      BY <2>1, <2>5, <2>8 DEF Matches
    <2>10. QED
      <3> DEFINE matches == Matches(world, candidate)
      <3>1. matches # {} /\ ~candidate.project_owned
        BY <2>1, <2>5, <2>9
      <3>2. /\ a.dependencies = matches
            /\ a.ownership \in {"EXACT_SINGLE_MATCH", "MULTIPLE_MATCHES"}
        BY <2>4, <3>1 DEF Attribute, Unattributed
      <3>3. QED
        BY <2>9, <3>2
  <1>2. DiagnosisInv => AnalysisLookedEverywhere
    BY <1>1
  <1>3. QED
    BY <1>2, DiagnosisInit, DiagnosisStep, PTL DEF Spec

\* Who comes before f in the order by priority, then by number.
Preceding(files, priority, f) ==
    {g \in files : \/ priority[g] < priority[f]
                   \/ priority[g] = priority[f] /\ g < f}

\* Of those that fewer than so many precede there are no more than so many.
LEMMA FewComeFirst ==
    ASSUME NEW files \in SUBSET Nat, IsFiniteSet(files), NEW priority \in [files -> Int],
           NEW max \in Nat,
           NEW first, first = {f \in files : Cardinality(Preceding(files, priority, f)) < max}
    PROVE  IsFiniteSet(first) /\ Cardinality(first) <= max
  <1> DEFINE Pre(f) == Preceding(files, priority, f)
             rank == [f \in first |-> Cardinality(Pre(f))]
             T == 0..(max - 1)
  <1>1. ASSUME NEW f \in files
        PROVE  IsFiniteSet(Pre(f)) /\ Cardinality(Pre(f)) \in Nat
    <2>1. Pre(f) \in SUBSET files
      BY DEF Preceding
    <2>2. QED
      BY <2>1, FS_Subset, FS_CardinalityType
  <1>2. ASSUME NEW f \in files, NEW g \in files, f \in Pre(g)
        PROVE  Cardinality(Pre(f)) # Cardinality(Pre(g))
    <2>1. \A n \in files : n \in Nat /\ priority[n] \in Int
      OBVIOUS
    <2>2. Pre(f) \in SUBSET Pre(g)
      <3>1. SUFFICES ASSUME NEW n \in files, priority[n] < priority[f] \/ (priority[n] = priority[f] /\ n < f)
                     PROVE  priority[n] < priority[g] \/ (priority[n] = priority[g] /\ n < g)
        BY DEF Preceding
      <3>2. priority[f] < priority[g] \/ (priority[f] = priority[g] /\ f < g)
        BY <1>2 DEF Preceding
      <3>3. /\ n \in Nat /\ f \in Nat /\ g \in Nat
            /\ priority[n] \in Int /\ priority[f] \in Int /\ priority[g] \in Int
        BY <2>1
      <3>4. QED
        BY <3>1, <3>2, <3>3
    <2>3. f \notin Pre(f)
      BY <2>1 DEF Preceding
    <2>4. IsFiniteSet(Pre(g))
      BY <1>1
    <2> HIDE DEF Pre
    <2>5. Cardinality(Pre(g)) = Cardinality(Pre(f)) => Pre(g) = Pre(f)
      BY <2>2, <2>4, FS_Subset
    <2>6. QED
      BY <1>2, <2>3, <2>5
  <1>3. ASSUME NEW f \in files, NEW g \in files, f # g
        PROVE  f \in Pre(g) \/ g \in Pre(f)
    <2>1. f \in Nat /\ g \in Nat /\ priority[f] \in Int /\ priority[g] \in Int
      OBVIOUS
    <2>2. QED
      BY <1>3, <2>1 DEF Preceding
  <1>4. first \subseteq files
    OBVIOUS
  <1>5. rank \in [first -> T]
    <2>1. ASSUME NEW f \in first PROVE Cardinality(Pre(f)) \in T
      <3>1. Cardinality(Pre(f)) \in Nat /\ Cardinality(Pre(f)) < max
        BY <1>1
      <3> HIDE DEF Pre
      <3>2. QED
        BY <3>1
    <2> HIDE DEF Pre, T
    <2>2. QED
      BY <2>1
  <1>6. ASSUME NEW f \in first, NEW g \in first, f # g
        PROVE  rank[f] # rank[g]
    <2>1. Cardinality(Pre(f)) # Cardinality(Pre(g))
      BY <1>2, <1>3, <1>4, <1>6
    <2> HIDE DEF Pre
    <2>2. QED
      BY <2>1
  <1> HIDE DEF rank
  <1>7. rank \in Injection(first, T)
    BY <1>5, <1>6 DEF Injection, IsInjective
  <1>8. IsFiniteSet(T) /\ Cardinality(T) = max
    <2>1. 0 \in Int /\ max - 1 \in Int
      OBVIOUS
    <2>2. IsFiniteSet(T) /\ Cardinality(T) = IF 0 > max - 1 THEN 0 ELSE (max - 1) - 0 + 1
      BY <2>1, FS_Interval
    <2>3. QED
      BY <2>2
  <1> HIDE DEF T
  <1>9. QED
    BY <1>7, <1>8, FS_Injection

\* The files of the places that are not generated.
FilesOf(locations) == {l.file : l \in {m \in locations : SourceKind[m.file] # "GENERATED_SOURCE"}}

\* The kinds of places a search may find.
KindsOfPlaces == {"PRIMARY_FAILURE", "EXACT_IMPORT", "POTENTIAL_CALL_SITE", "POTENTIAL_TYPE_REFERENCE"}

\* Places that were found: one of the known kinds each, the failing one in one file only.
ArePlaces(locations, checkout, failing) ==
    \A l \in locations :
        /\ l.file \in checkout
        /\ l.kind \in KindsOfPlaces
        /\ l.kind = "PRIMARY_FAILURE" => l.file = failing

\* The priority of a file with a place is that of its best place.
LEMMA PriorityOfFile ==
    ASSUME NEW locations, NEW checkout, NEW failing, ArePlaces(locations, checkout, failing),
           NEW l \in locations
    PROVE  /\ FilePriority(locations, l.file) \in 0..3
           /\ FilePriority(locations, l.file) <= Priority(l.kind)
           /\ \E m \in locations : m.file = l.file /\ Priority(m.kind) = FilePriority(locations, l.file)
  <1> DEFINE kinds == {Priority(k.kind) : k \in {m \in locations : m.file = l.file}}
             best == FilePriority(locations, l.file)
  <1>1. \A kind \in KindsOfPlaces : Priority(kind) \in 0..3
    BY DEF KindsOfPlaces, Priority
  <1>2. kinds \in SUBSET (0..3)
    BY <1>1 DEF ArePlaces
  <1>3. Priority(l.kind) \in kinds
    OBVIOUS
  <1>4. best = CHOOSE p \in kinds : \A q \in kinds : p <= q
    BY DEF FilePriority
  <1>5. \A p \in kinds : \E m \in locations : m.file = l.file /\ Priority(m.kind) = p
    OBVIOUS
  <1> HIDE DEF kinds, best
  <1>6. \E p \in kinds : \A q \in kinds : p <= q
    <2>1. kinds \in SUBSET Nat /\ kinds # {}
      BY <1>2, <1>3
    <2>2. QED
      BY <2>1, LeastNumber
  <1>7. best \in kinds /\ \A q \in kinds : best <= q
    BY <1>4, <1>6
  <1>8. QED
    BY <1>2, <1>3, <1>5, <1>7 DEF best

\* The allowed files lie in the checkout, none is generated and there are not
\* more of them than the plan may have.
LEMMA AllowedFilesAreFew ==
    ASSUME NEW locations, NEW checkout \in SUBSET Sources, IsFiniteSet(checkout), NEW failing,
           ArePlaces(locations, checkout, failing)
    PROVE  /\ \A f \in AllowedFiles(locations) : SourceKind[f] # "GENERATED_SOURCE"
           /\ Cardinality(AllowedFiles(locations)) <= MaxAllowedFiles
  <1> DEFINE files == FilesOf(locations)
             priority == [f \in files |-> FilePriority(locations, f)]
             allowed == AllowedFiles(locations)
  <1>1. files \subseteq checkout /\ \A f \in files : SourceKind[f] # "GENERATED_SOURCE"
    BY DEF FilesOf, ArePlaces
  <1>2. files \in SUBSET Nat /\ IsFiniteSet(files)
    <2>1. files \in SUBSET checkout
      BY <1>1
    <2> HIDE DEF files
    <2>2. IsFiniteSet(files)
      BY <2>1, FS_Subset
    <2>3. QED
      BY <1>1, <2>2, PlanningAssumption
  <1>3. ASSUME NEW f \in files PROVE FilePriority(locations, f) \in Int
    <2>1. PICK l \in locations : l.file = f
      BY DEF FilesOf
    <2>2. FilePriority(locations, l.file) \in 0..3
      BY PriorityOfFile
    <2>3. QED
      BY <2>1, <2>2
  <1> HIDE DEF files
  <1>4. priority \in [files -> Int]
    BY <1>3
  <1>5. \A f \in files : priority[f] = FilePriority(locations, f)
    OBVIOUS
  <1>6. allowed = {f \in files : Cardinality({g \in files :
                     \/ FilePriority(locations, g) < FilePriority(locations, f)
                     \/ FilePriority(locations, g) = FilePriority(locations, f) /\ g < f}) < MaxAllowedFiles}
    BY DEF AllowedFiles, FilesOf, files
  <1> HIDE DEF priority, allowed
  <1>7. \A f \in files : Preceding(files, priority, f) =
            {g \in files : \/ FilePriority(locations, g) < FilePriority(locations, f)
                           \/ FilePriority(locations, g) = FilePriority(locations, f) /\ g < f}
    <2>1. SUFFICES ASSUME NEW f \in files
                   PROVE  Preceding(files, priority, f) =
                     {g \in files : \/ FilePriority(locations, g) < FilePriority(locations, f)
                                    \/ FilePriority(locations, g) = FilePriority(locations, f) /\ g < f}
      OBVIOUS
    <2>2. QED
      BY <1>5 DEF Preceding
  <1>8. allowed = {f \in files : Cardinality(Preceding(files, priority, f)) < MaxAllowedFiles}
    BY <1>6, <1>7
  <1>9. MaxAllowedFiles \in Nat
    BY PlanningAssumption
  <1>10. Cardinality(allowed) <= MaxAllowedFiles
    BY <1>2, <1>4, <1>8, <1>9, FewComeFirst
  <1>11. QED
    BY <1>1, <1>8, <1>10 DEF allowed

\* The first of all the files is the failing one, if it is a source of its own.
LEMMA FailingFileIsAllowed ==
    ASSUME NEW locations, NEW checkout \in SUBSET Sources, NEW failing,
           ArePlaces(locations, checkout, failing),
           NEW l \in locations, l.kind = "PRIMARY_FAILURE", SourceKind[l.file] # "GENERATED_SOURCE"
    PROVE  failing \in AllowedFiles(locations)
  <1> DEFINE files == FilesOf(locations)
             Before0 == {g \in files :
                            \/ FilePriority(locations, g) < FilePriority(locations, failing)
                            \/ FilePriority(locations, g) = FilePriority(locations, failing) /\ g < failing}
  <1>1. l.file = failing /\ failing \in checkout
    BY DEF ArePlaces
  <1>2. failing \in files
    BY <1>1 DEF FilesOf
  <1>3. FilePriority(locations, failing) = 0
    <2>1. Priority(l.kind) = 0
      BY DEF Priority
    <2>2. FilePriority(locations, l.file) \in 0..3 /\ FilePriority(locations, l.file) <= Priority(l.kind)
      BY PriorityOfFile
    <2>3. QED
      BY <1>1, <2>1, <2>2
  <1>4. Before0 = {}
    <2>1. SUFFICES ASSUME NEW g \in files,
                          \/ FilePriority(locations, g) < FilePriority(locations, failing)
                          \/ FilePriority(locations, g) = FilePriority(locations, failing) /\ g < failing
                   PROVE  FALSE
      OBVIOUS
    <2>2. PICK k \in locations : k.file = g
      BY DEF FilesOf
    <2>3. FilePriority(locations, k.file) \in 0..3
      BY PriorityOfFile
    <2>4. PICK m \in locations : m.file = k.file /\ Priority(m.kind) = FilePriority(locations, k.file)
      BY PriorityOfFile
    <2>5. Priority(m.kind) = 0 /\ g < failing
      BY <1>3, <2>1, <2>2, <2>3, <2>4
    <2>6. m.kind = "PRIMARY_FAILURE"
      BY <2>5 DEF ArePlaces, KindsOfPlaces, Priority
    <2>7. g = failing
      BY <2>2, <2>4, <2>6 DEF ArePlaces
    <2>8. failing \in Nat
      BY <1>1, PlanningAssumption
    <2>9. QED
      BY <2>5, <2>7, <2>8
  <1>5. Cardinality(Before0) < MaxAllowedFiles
    BY <1>4, FS_EmptySet, PlanningAssumption
  <1>6. QED
    BY <1>2, <1>5 DEF AllowedFiles, FilesOf

\* What the search finds are such places.
LEMMA FoundArePlaces ==
    ASSUME NEW w, NEW migration, NEW api
    PROVE  ArePlaces(FindUsages(w, migration, api), w.checkout, w.source.file)
  <1> DEFINE other == {k \in [file : {f \in w.checkout : SourceKind[f] # "GENERATED_SOURCE"},
                              kind : {"EXACT_IMPORT", "POTENTIAL_CALL_SITE", "POTENTIAL_TYPE_REFERENCE"}] :
                          \E u \in w.uses : /\ u.file = k.file
                                            /\ u.use = "call" \/ u.class = api.class_name
                                            /\ k.kind = LocationKind(u.use, migration, api.symbol)}
  <1>1. SUFFICES ASSUME NEW l \in FindUsages(w, migration, api)
                 PROVE  /\ l.file \in w.checkout /\ l.kind \in KindsOfPlaces
                        /\ l.kind = "PRIMARY_FAILURE" => l.file = w.source.file
    BY DEF ArePlaces
  <1>2. l \in PrimaryLocation(w) \/ l \in other
    BY DEF FindUsages
  <1>3. CASE l \in PrimaryLocation(w)
    BY <1>3 DEF PrimaryLocation, KindsOfPlaces
  <1>4. CASE l \in other
    <2>1. /\ l.file \in w.checkout
          /\ l.kind \in {"EXACT_IMPORT", "POTENTIAL_CALL_SITE", "POTENTIAL_TYPE_REFERENCE"}
      BY <1>4
    <2>2. QED
      BY <2>1 DEF KindsOfPlaces
  <1>5. QED
    BY <1>2, <1>3, <1>4

\* A plan that is ready is one for a true cause, and allows the file that fails;
\* no plan allows a generated file or more files than it may.
THEOREM ReadyPlansAllowTheFailingFile == Spec => []ReadyPlanAllowsTheFailingFile
  <1>1. ASSUME DiagnosisInv PROVE ReadyPlanAllowsTheFailingFile
    <2>1. SUFFICES ASSUME plan # None
                   PROVE  /\ plan.status = "PLAN_READY" =>
                                /\ status = "SUPPORTED_DIAGNOSIS" /\ Claim(Lead)
                                /\ world.source.file \in plan.allowed_files
                          /\ \A f \in plan.allowed_files : SourceKind[f] # "GENERATED_SOURCE"
                          /\ Cardinality(plan.allowed_files) <= MaxAllowedFiles
      BY DEF ReadyPlanAllowsTheFailingFile
    <2> DEFINE locations == LocationsFound
               api == ApiEvidenceOf(Attributed, Lead)
               result == PlanStatus(status, Lead, api, locations)
    <2>2. /\ stage = "done" /\ status = DiagnosisStatus(KnownHypotheses)
          /\ plan = PlanFor(status, Lead, Attributed, locations)
      BY <1>1, <2>1 DEF DiagnosisInv, PhasesAreInOrder
    <2>3. /\ plan.status = result
          /\ plan.allowed_files = IF Actionable(result) THEN AllowedFiles(locations) ELSE {}
      BY <2>2 DEF PlanFor
    <2>4. world.checkout \in SUBSET Sources /\ IsFiniteSet(world.checkout)
      BY <1>1, WorldFacts DEF DiagnosisInv
    <2>5. ArePlaces(locations, world.checkout, world.source.file)
      <3>1. locations = {} \/ \E migration, evidence : locations = FindUsages(world, migration, evidence)
        BY DEF LocationsFound
      <3> HIDE DEF locations
      <3>2. ArePlaces({}, world.checkout, world.source.file)
        BY DEF ArePlaces
      <3>3. QED
        BY <3>1, <3>2, FoundArePlaces
    <2> HIDE DEF locations, api, result
    <2>6. /\ \A f \in plan.allowed_files : SourceKind[f] # "GENERATED_SOURCE"
          /\ Cardinality(plan.allowed_files) <= MaxAllowedFiles
      <3>1. CASE Actionable(result)
        BY <2>3, <2>4, <2>5, <3>1, AllowedFilesAreFew
      <3>2. CASE ~Actionable(result)
        BY <2>3, <3>2, FS_EmptySet, PlanningAssumption
      <3>3. QED
        BY <3>1, <3>2
    <2>7. ASSUME plan.status = "PLAN_READY"
          PROVE  /\ status = "SUPPORTED_DIAGNOSIS" /\ Claim(Lead)
                 /\ world.source.file \in plan.allowed_files
      <3>1. /\ status \notin {"AMBIGUOUS_DIAGNOSIS", "PARTIAL_DIAGNOSIS", "INSUFFICIENT_EVIDENCE"}
            /\ \A l \in locations : l.kind = "PRIMARY_FAILURE" => SourceKind[l.file] # "GENERATED_SOURCE"
            /\ \E l \in locations : l.kind = "PRIMARY_FAILURE"
        BY <2>3, <2>7 DEF PlanStatus, result
      <3>2. status = "SUPPORTED_DIAGNOSIS"
        BY <2>2, <3>1 DEF DiagnosisStatus
      <3>3. Lead \in KnownHypotheses /\ Lead.status = "SUPPORTED"
        BY <1>1, <3>2, LeadHasStanding
      <3>4. Claim(Lead)
        BY <1>1, <3>3, ClaimIsTrue
      <3>5. world.source.file \in AllowedFiles(locations)
        BY <2>4, <2>5, <3>1, FailingFileIsAllowed
      <3>6. plan.allowed_files = AllowedFiles(locations)
        BY <2>3, <2>7 DEF Actionable
      <3>7. QED
        BY <3>2, <3>4, <3>5, <3>6
    <2>8. QED
      BY <2>6, <2>7
  <1>2. DiagnosisInv => ReadyPlanAllowsTheFailingFile
    BY <1>1
  <1>3. QED
    BY <1>2, DiagnosisInit, DiagnosisStep, PTL DEF Spec

\* The state has the types it is declared with; the scores stay between 0 and 100.
THEOREM TheDiagnosisIsWellTyped == Spec => []TypeOK
  <1>1. ASSUME DiagnosisInv PROVE TypeOK
    <2>1. stage \in {"attribute", "investigate", "plan", "done", "refused"} /\ issues \in BOOLEAN
      BY <1>1 DEF DiagnosisInv, PhasesAreInOrder, AttributionsAreRight
    <2>2. ASSUME NEW i \in DOMAIN attributions
          PROVE  attributions[i].ownership \in
                     {"PROJECT_OWNED", "NO_MATCH", "EXACT_SINGLE_MATCH", "MULTIPLE_MATCHES"}
      <3>1. attributions[i] \in AttributionsOf(world)
        BY <1>1 DEF DiagnosisInv, AttributionsAreRight
      <3>2. PICK candidate : attributions[i] = Attribute(world, candidate)
        BY <3>1 DEF AttributionsOf
      <3>3. QED
        BY <3>2 DEF Attribute, Unattributed
    <2>3. \A i \in DOMAIN ranking : ranking[i].score \in 0..100
      BY <1>1, RankedAreKnown, AllScoresSeparate
    <2>4. analysis \in AnalysisStatuses \union {None}
      BY <1>1 DEF DiagnosisInv, PhasesAreInOrder, ClassifyAnalysis, AnalysisStatuses
    <2>5. status \in DiagnosisStatuses \union {None}
      BY <1>1 DEF DiagnosisInv, PhasesAreInOrder, DiagnosisStatus, DiagnosisStatuses
    <2>6. QED
      BY <2>1, <2>2, <2>3, <2>4, <2>5 DEF TypeOK
  <1>2. DiagnosisInv => TypeOK
    BY <1>1
  <1>3. QED
    BY <1>2, DiagnosisInit, DiagnosisStep, PTL DEF Spec
=============================================================================
