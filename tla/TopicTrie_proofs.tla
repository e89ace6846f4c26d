------------------------- MODULE TopicTrie_proofs -------------------------
(***************************************************************************)
(* Proofs about TopicTrie.                                                 *)
(***************************************************************************)
EXTENDS TopicTrie, TLAPS, SequenceTheorems, NaturalsInduction, WellFoundedInduction,
        FiniteSetTheorems

-----------------------------------------------------------------------------
(* Numbers, and functions defined by recursion.                            *)

\* A set of natural numbers has a least one.
LEMMA LeastNatural ==
    ASSUME NEW T, T \subseteq Nat, T # {} PROVE \E n \in T : \A m \in T : n <= m
<1> DEFINE Less == {pair \in Nat \X Nat : pair[1] < pair[2]}
<1>1. IsWellFoundedOn(Less, Nat)
  BY NatLessThanWellFounded DEF OpToRel
<1>2. PICK n \in T : \A m \in T : ~(<<m, n>> \in Less)
  <2> HIDE DEF Less
  <2> QED
    BY <1>1, WFMin
<1>3. \A m \in T : ~(m < n)
  BY <1>2
<1> QED
  BY <1>2, <1>3

\* A statement that holds of 0, and of a number if it does of the one before, holds of all.
LEMMA Climb ==
    ASSUME NEW n \in Nat, NEW T \in SUBSET (0..n), 0 \in T,
           \A j \in 0..n - 1 : j \in T => j + 1 \in T
    PROVE  T = 0..n
<1> DEFINE Missing == (0..n) \ T
<1> SUFFICES ASSUME Missing # {} PROVE FALSE
  OBVIOUS
<1>1. PICK m \in Missing : \A k \in Missing : m <= k
  <2>1. Missing \subseteq Nat
    OBVIOUS
  <2> HIDE DEF Missing
  <2> QED
    BY <2>1, LeastNatural
<1>2. m - 1 \in 0..n - 1 /\ m - 1 < m
  OBVIOUS
<1>3. m - 1 \in T
  BY <1>1, <1>2
<1> QED
  BY <1>2, <1>3

\* A set of elements with a rank has one of the lowest rank.
LEMMA LowestRank ==
    ASSUME NEW D, NEW rank \in [D -> Nat], NEW T \in SUBSET D, T # {}
    PROVE  \E x \in T : \A y \in T : rank[x] <= rank[y]
<1> DEFINE R == {rank[x] : x \in T}
<1>1. R \subseteq Nat /\ R # {}
  OBVIOUS
<1>2. PICK r \in R : \A q \in R : r <= q
  <2> HIDE DEF R
  <2> QED
    BY <1>1, LeastNatural
<1> QED
  BY <1>2

\* With bounded ranks, one of the highest rank.
LEMMA HighestRank ==
    ASSUME NEW D, NEW K \in Nat, NEW rank \in [D -> 0..K], NEW T \in SUBSET D, T # {}
    PROVE  \E x \in T : \A y \in T : rank[y] <= rank[x]
<1> DEFINE down == [x \in D |-> K - rank[x]]
<1>1. down \in [D -> Nat]
  OBVIOUS
<1>2. PICK x \in T : \A y \in T : down[x] <= down[y]
  <2> HIDE DEF down
  <2> QED
    BY <1>1, LowestRank
<1>3. ASSUME NEW y \in T PROVE rank[y] <= rank[x]
  <2>1. K - rank[x] <= K - rank[y]
    BY <1>2
  <2> QED
    BY <2>1
<1> QED
  BY <1>3

\* A sequence with one more element says which these were.
LEMMA LastAdded ==
    ASSUME NEW u \in Seq(Nat), NEW v \in Seq(Nat), NEW a \in Nat, NEW b \in Nat,
           Append(u, a) = Append(v, b)
    PROVE  u = v /\ a = b
<1>1. /\ Len(Append(u, a)) = Len(u) + 1 /\ Append(u, a)[Len(u) + 1] = a
      /\ Len(Append(v, b)) = Len(v) + 1 /\ Append(v, b)[Len(v) + 1] = b
      /\ \A i \in 1..Len(u) : Append(u, a)[i] = u[i]
      /\ \A i \in 1..Len(v) : Append(v, b)[i] = v[i]
      /\ Len(u) \in Nat /\ Len(v) \in Nat
  OBVIOUS
<1>2. Len(u) = Len(v)
  BY <1>1
<1>3. u = v
  BY <1>1, <1>2, SeqEqual
<1> QED
  BY <1>1, <1>2, <1>3

\* The recursion that gives d the value step[d][f] has a solution.
Solvable(D, X, step) == \E f \in [D -> X] : \A d \in D : f[d] = step[d][f]

\* Each value depends on those of lower ranks only.
LooksDown(D, X, rank, step) ==
    \A d \in D : \A f, g \in [D -> X] :
        (\A e \in D : rank[e] < rank[d] => f[e] = g[e]) => step[d][f] = step[d][g]

\* A recursion that only looks down has a solution.
LEMMA RecursionSolved ==
    ASSUME NEW D, NEW X, NEW K \in Nat, NEW rank \in [D -> 0..K], X # {},
           NEW step \in [D -> [[D -> X] -> X]], LooksDown(D, X, rank, step)
    PROVE  Solvable(D, X, step)
<1> DEFINE Solves(f, k) == \A d \in D : rank[d] < k => f[d] = step[d][f]
           T == {k \in 0..K + 1 : \E f \in [D -> X] : Solves(f, k)}
<1>1. 0 \in T
  <2>1. PICK x \in X : TRUE
    OBVIOUS
  <2> DEFINE g == [d \in D |-> x]
  <2>2. g \in [D -> X] /\ Solves(g, 0)
    OBVIOUS
  <2> HIDE DEF g
  <2> QED
    BY <2>2
<1>2. ASSUME NEW k \in 0..(K + 1) - 1, k \in T PROVE k + 1 \in T
  <2>1. PICK f \in [D -> X] : Solves(f, k)
    BY <1>2
  <2> DEFINE g == [d \in D |-> IF rank[d] = k THEN step[d][f] ELSE f[d]]
  <2>2. g \in [D -> X]
    <3>1. ASSUME NEW d \in D PROVE step[d][f] \in X
      OBVIOUS
    <3> QED
      BY <3>1
  <2>3. \A d \in D : rank[d] # k => g[d] = f[d]
    OBVIOUS
  <2>4. \A d \in D : rank[d] = k => g[d] = step[d][f]
    OBVIOUS
  <2> HIDE DEF g
  <2>5. ASSUME NEW d \in D, rank[d] < k + 1 PROVE g[d] = step[d][g]
    <3>1. \A e \in D : rank[e] < rank[d] => f[e] = g[e]
      BY <2>3, <2>5
    <3>2. step[d][f] = step[d][g]
      BY <2>2, <3>1 DEF LooksDown
    <3>3. CASE rank[d] = k
      BY <2>4, <3>2, <3>3
    <3>4. CASE rank[d] # k
      <4>3. rank[d] \in 0..K /\ k \in 0..(K + 1) - 1
        BY <1>2
      <4>1. rank[d] < k
        <5>1. \A r, q \in Nat : r < q + 1 /\ r # q => r < q
          OBVIOUS
        <5>2. rank[d] \in Nat /\ k \in Nat
          BY <4>3
        <5> QED
          BY <2>5, <3>4, <5>1, <5>2
      <4>2. f[d] = step[d][f] /\ g[d] = f[d]
        BY <2>1, <2>3, <3>4, <4>1
      <4> QED
        BY <3>2, <4>2, Zenon
    <3> QED
      BY <3>3, <3>4
  <2> QED
    BY <2>2, <2>5
<1>3. T = 0..K + 1
  <2>1. T \in SUBSET (0..K + 1) /\ K + 1 \in Nat
    OBVIOUS
  <2> HIDE DEF T
  <2> QED
    BY <1>1, <1>2, <2>1, Climb
<1>4. K + 1 \in T
  <2> HIDE DEF T
  <2> QED
    BY <1>3
<1>5. PICK f \in [D -> X] : Solves(f, K + 1)
  BY <1>4
<1>6. ASSUME NEW d \in D PROVE f[d] = step[d][f]
  <2>1. rank[d] < K + 1
    OBVIOUS
  <2> QED
    BY <1>5, <2>1
<1> QED
  BY <1>6 DEF Solvable

-----------------------------------------------------------------------------
(* The tree.  level of a head is the characters on the way to it from the  *)
(* root; that of a brother is the level of the list it is in.  rank falls  *)
(* along all pointers.                                                     *)

Node == [character : Nat, bro : Nat, son : Nat, subscribedClients : SUBSET Clients]

Heads(h) == {n \in DOMAIN h : h[n].character \in {0, EndMark}}

Brothers(h) == DOMAIN h \ Heads(h)

ListInv(h, level, rank) ==
    \A n \in DOMAIN h : h[n].bro # NULL =>
        /\ h[n].bro \in Brothers(h)
        /\ level[h[n].bro] = level[n] /\ rank[h[n].bro] < rank[n]
        /\ n \in Brothers(h) => h[n].character < h[h[n].bro].character

SonInv(h, level, rank) ==
    /\ \A n \in Heads(h) : h[n].son = IF h[n].character = EndMark THEN n ELSE NULL
    /\ \A n \in Brothers(h) :
        /\ h[n].son \in Heads(h) /\ rank[h[n].son] < rank[n]
        /\ level[h[n].son] = Append(level[n], h[n].character)

ParentInv(h) ==
    /\ \A n \in Brothers(h) : \E m \in DOMAIN h : h[m].bro = n
    /\ \A n \in Heads(h) \ {Root} : \E m \in Brothers(h) : h[m].son = n
    /\ \A m, n \in DOMAIN h : h[m].bro = h[n].bro /\ h[m].bro # NULL => m = n

PlaceInv(h, level) ==
    /\ \A m, n \in Heads(h) : level[m] = level[n] => m = n
    /\ \A m, n \in Brothers(h) :
        level[m] = level[n] /\ h[m].character = h[n].character => m = n

Lists(h, level, rank, K) ==
    /\ h \in Seq(Node) /\ Root \in DOMAIN h /\ level \in [DOMAIN h -> Seq(Nat)]
    /\ K \in Nat /\ rank \in [DOMAIN h -> 0..K]
    /\ ListInv(h, level, rank)

Tree(h, level, rank, K) ==
    /\ Lists(h, level, rank, K)
    /\ Root \in Heads(h) /\ level[Root] = <<>>
    /\ SonInv(h, level, rank) /\ ParentInv(h) /\ PlaceInv(h, level)

\* The characters of a name, a wildcard or a /.
Characters == Nat \ {0, EndMark}

\* The nodes of a tree are what they should be.
LEMMA NodeTyped ==
    ASSUME NEW h \in Seq(Node), NEW n \in DOMAIN h
    PROVE  /\ h[n] \in Node /\ n \in Nat \ {NULL} /\ n \in 1..Len(h)
           /\ h[n].character \in Nat /\ h[n].bro \in Nat /\ h[n].son \in Nat
           /\ h[n].subscribedClients \subseteq Clients
<1>1. h[n] \in Node /\ DOMAIN h = 1..Len(h) /\ Len(h) \in Nat
  OBVIOUS
<1> QED
  BY <1>1 DEF Node, NULL

\* Types of all that belongs to a node.
LEMMA ListsTyped ==
    ASSUME NEW h, NEW level, NEW rank, NEW K, Lists(h, level, rank, K)
    PROVE  /\ \A n \in DOMAIN h : /\ rank[n] \in Nat /\ level[n] \in Seq(Nat) /\ n # NULL
                                  /\ h[n].character \in Nat /\ n \in 1..Len(h)
           /\ Heads(h) \subseteq DOMAIN h /\ Brothers(h) \subseteq DOMAIN h
           /\ \A n \in DOMAIN h : n \in Brothers(h) <=> n \notin Heads(h)
           /\ \A n \in Brothers(h) : h[n].character \in Characters
           /\ h \in Seq(Node) /\ NULL \notin DOMAIN h
<1>1. /\ h \in Seq(Node) /\ level \in [DOMAIN h -> Seq(Nat)]
      /\ rank \in [DOMAIN h -> 0..K] /\ K \in Nat
  BY DEF Lists
<1>2. ASSUME NEW n \in DOMAIN h
      PROVE  /\ rank[n] \in Nat /\ level[n] \in Seq(Nat) /\ n # NULL
             /\ h[n].character \in Nat /\ n \in 1..Len(h)
  <2>1. rank[n] \in 0..K /\ level[n] \in Seq(Nat)
    BY <1>1
  <2>2. n # NULL /\ h[n].character \in Nat /\ n \in 1..Len(h)
    BY <1>1, NodeTyped
  <2> QED
    BY <1>1, <2>1, <2>2
<1>3. Heads(h) \subseteq DOMAIN h /\ Brothers(h) \subseteq DOMAIN h
  BY DEF Heads, Brothers
<1>4. \A n \in DOMAIN h : n \in Brothers(h) <=> n \notin Heads(h)
  BY DEF Brothers
<1>5. \A n \in Brothers(h) : h[n].character \in Characters
  BY <1>2 DEF Brothers, Heads, Characters
<1> QED
  BY <1>1, <1>2, <1>3, <1>4, <1>5

\* The solution of Before.
Walk(h, char) ==
    CHOOSE f : f = [n \in DOMAIN h |-> IF h[n].bro # NULL /\ h[h[n].bro].character < char
                                       THEN f[h[n].bro] ELSE n]

\* The recursive function of Before has a solution.
LEMMA WalkDefined ==
    ASSUME NEW h, NEW level, NEW rank, NEW K, Lists(h, level, rank, K), NEW char \in Nat
    PROVE  \A n \in DOMAIN h :
              /\ Before(h, n, char) \in DOMAIN h
              /\ Before(h, n, char) = IF h[n].bro # NULL /\ h[h[n].bro].character < char
                                      THEN Before(h, h[n].bro, char) ELSE n
<1> DEFINE D == DOMAIN h
           Goes(n) == h[n].bro # NULL /\ h[h[n].bro].character < char
           step == [n \in D |-> [f \in [D -> D] |-> IF Goes(n) THEN f[h[n].bro] ELSE n]]
<1>1. \A n \in D : Goes(n) => h[n].bro \in D /\ rank[h[n].bro] < rank[n]
  BY DEF Lists, ListInv, Brothers
<1>2. step \in [D -> [[D -> D] -> D]]
  <2> HIDE DEF Goes
  <2> QED
    BY <1>1
<1>3. ASSUME NEW n \in D, NEW f \in [D -> D]
      PROVE  step[n][f] = IF Goes(n) THEN f[h[n].bro] ELSE n
  <2> HIDE DEF Goes
  <2> QED
    OBVIOUS
<1>4. ASSUME NEW n \in D, NEW f \in [D -> D], NEW g \in [D -> D],
             \A e \in D : rank[e] < rank[n] => f[e] = g[e]
      PROVE  step[n][f] = step[n][g]
  <2> HIDE DEF Goes, step
  <2> QED
    BY <1>1, <1>3, <1>4
<1>5. PICK f \in [D -> D] : \A n \in D : f[n] = step[n][f]
  <2>1. K \in Nat /\ rank \in [D -> 0..K] /\ D # {}
    BY DEF Lists
  <2> HIDE DEF step, D
  <2>2. LooksDown(D, D, rank, step)
    BY <1>4 DEF LooksDown
  <2>3. Solvable(D, D, step)
    BY <1>2, <2>1, <2>2, RecursionSolved, Zenon
  <2> QED
    BY <2>3 DEF Solvable
<1>6. f = [n \in D |-> IF Goes(n) THEN f[h[n].bro] ELSE n]
  <2>1. ASSUME NEW n \in D PROVE f[n] = IF Goes(n) THEN f[h[n].bro] ELSE n
    <3>1. f[n] = step[n][f]
      <4> HIDE DEF step
      <4> QED
        BY <1>5
    <3> HIDE DEF Goes, step
    <3> QED
      BY <1>3, <3>1
  <2>2. f = [n \in D |-> f[n]]
    OBVIOUS
  <2> HIDE DEF Goes
  <2> QED
    BY <2>1, <2>2, Zenon
<1>7. Walk(h, char) = [n \in D |-> IF Goes(n) THEN Walk(h, char)[h[n].bro] ELSE n]
  BY <1>6 DEF Walk
<1>8. \A n : Before(h, n, char) = Walk(h, char)[n]
  BY DEF Before, Walk
<1> DEFINE g == Walk(h, char)
<1>9. g = [n \in D |-> IF Goes(n) THEN g[h[n].bro] ELSE n]
  BY <1>7
<1> HIDE DEF g
<1>10. ASSUME NEW n \in D PROVE g[n] = IF Goes(n) THEN g[h[n].bro] ELSE n
  <2> HIDE DEF Goes
  <2> QED
    BY <1>9
<1>11. ASSUME NEW n \in D PROVE g[n] \in D
  <2> DEFINE Bad == {x \in D : g[x] \notin D}
  <2> SUFFICES ASSUME Bad # {} PROVE FALSE
    OBVIOUS
  <2>1. PICK x \in Bad : \A y \in Bad : rank[x] <= rank[y]
    <3>1. rank \in [D -> Nat] /\ Bad \in SUBSET D
      BY DEF Lists
    <3> HIDE DEF Bad, D
    <3> QED
      BY <3>1, LowestRank
  <2>2. \A y \in D : rank[y] \in Nat
    BY DEF Lists
  <2> QED
    BY <1>1, <1>10, <2>1, <2>2
<1> QED
  BY <1>8, <1>10, <1>11 DEF g

\* Before stays in the list, and stops at the last node whose character is smaller.
LEMMA BeforeTyped ==
    ASSUME NEW h, NEW level, NEW rank, NEW K, Lists(h, level, rank, K), NEW char \in Nat,
           NEW n \in DOMAIN h
    PROVE  LET e == Before(h, n, char) IN
           /\ e \in DOMAIN h /\ level[e] = level[n] /\ rank[e] <= rank[n]
           /\ e = n \/ (e \in Brothers(h) /\ h[e].character < char)
           /\ h[e].bro # NULL => h[h[e].bro].character >= char
<1> DEFINE D == DOMAIN h
           Right(x, e) == /\ e \in D /\ level[e] = level[x] /\ rank[e] <= rank[x]
                          /\ e = x \/ (e \in Brothers(h) /\ h[e].character < char)
                          /\ h[e].bro # NULL => h[h[e].bro].character >= char
           Bad == {x \in D : ~Right(x, Before(h, x, char))}
<1> SUFFICES ASSUME Bad # {} PROVE FALSE
  OBVIOUS
<1>1. PICK x \in Bad : \A y \in Bad : rank[x] <= rank[y]
  <2>1. rank \in [D -> Nat] /\ Bad \in SUBSET D
    BY DEF Lists
  <2> HIDE DEF Bad, D
  <2> QED
    BY <2>1, LowestRank
<1>2. \A y \in D : rank[y] \in Nat
  BY DEF Lists
<1>3. x \in D /\ ~Right(x, Before(h, x, char))
  BY <1>1
<1> DEFINE b == h[x].bro
<1>4. CASE b # NULL /\ h[b].character < char
  <2>1. Before(h, x, char) = Before(h, b, char)
    BY <1>3, <1>4, WalkDefined
  <2>2. b \in D /\ b \in Brothers(h) /\ level[b] = level[x] /\ rank[b] < rank[x]
    BY <1>3, <1>4 DEF Lists, ListInv, Brothers
  <2>3. Right(b, Before(h, b, char))
    <3> HIDE DEF Right, b
    <3> QED
      BY <1>1, <1>2, <1>3, <2>2
  <2>4. Before(h, b, char) \in D
    BY <2>3
  <2> QED
    BY <1>2, <1>3, <1>4, <2>1, <2>2, <2>3, <2>4
<1>5. CASE ~(b # NULL /\ h[b].character < char)
  <2>1. Before(h, x, char) = x
    BY <1>3, <1>5, WalkDefined
  <2>2. b # NULL => h[b].character \in Nat
    BY <1>3, NodeTyped DEF Lists, ListInv, Brothers
  <2> QED
    BY <1>2, <1>3, <1>5, <2>1, <2>2
<1> QED
  BY <1>4, <1>5

\* A brother is found from the head of its list.
LEMMA BrotherFound ==
    ASSUME NEW h, NEW level, NEW rank, NEW K, Tree(h, level, rank, K),
           NEW n \in Heads(h), NEW b \in Brothers(h), level[b] = level[n]
    PROVE  h[Before(h, n, h[b].character)].bro = b
<1> DEFINE D == DOMAIN h
           char == h[b].character
<1>0. Lists(h, level, rank, K)
  BY DEF Tree
<1>1. /\ \A x \in D : rank[x] \in Nat /\ h[x].character \in Nat
      /\ Heads(h) \subseteq D /\ Brothers(h) \subseteq D
      /\ \A x \in D : x \notin Brothers(h) => x \in Heads(h)
  BY <1>0, ListsTyped
<1>2. char \in Nat
  BY <1>1
<1>3. PICK m \in D : h[m].bro = b
  BY DEF Tree, ParentInv
<1>4. b # NULL
  BY NodeTyped DEF Tree, Lists, Brothers
<1>5. level[m] = level[n] /\ (m \in Brothers(h) => h[m].character < char)
  BY <1>3, <1>4 DEF Tree, Lists, ListInv
<1>6. Before(h, m, char) = m
  BY <1>0, <1>2, <1>3, WalkDefined
<1> DEFINE U == {x \in D : /\ level[x] = level[n] /\ Before(h, x, char) = m
                           /\ x \in Brothers(h) => h[x].character < char}
<1>7. PICK x \in U : \A y \in U : rank[y] <= rank[x]
  <2>1. K \in Nat /\ rank \in [D -> 0..K] /\ U \in SUBSET D /\ U # {}
    BY <1>0, <1>3, <1>5, <1>6 DEF Lists
  <2> HIDE DEF U, D
  <2> QED
    BY <2>1, HighestRank
<1>8. x \in D /\ level[x] = level[n] /\ Before(h, x, char) = m
  BY <1>7
<1>9. x \notin Brothers(h)
  <2> SUFFICES ASSUME x \in Brothers(h) PROVE FALSE
    OBVIOUS
  <2>1. PICK y \in D : h[y].bro = x
    BY DEF Tree, ParentInv
  <2>2. x # NULL
    BY <1>8, NodeTyped DEF Tree, Lists
  <2>3. /\ level[y] = level[x] /\ rank[x] < rank[y]
        /\ y \in Brothers(h) => h[y].character < h[x].character
    BY <2>1, <2>2 DEF Tree, Lists, ListInv
  <2>4. h[x].character < char
    BY <1>7
  <2>5. Before(h, y, char) = m
    BY <1>2, <1>8, <2>1, <2>2, <2>4, <1>0, WalkDefined
  <2>6. y \in Brothers(h) => h[y].character < char
    BY <1>1, <1>2, <1>8, <2>3, <2>4
  <2>7. y \in U
    BY <1>8, <2>3, <2>5, <2>6
  <2> HIDE DEF U
  <2> QED
    BY <1>1, <1>7, <1>8, <2>3, <2>7
<1>10. x = n
  BY <1>1, <1>8, <1>9 DEF Tree, PlaceInv
<1> QED
  BY <1>3, <1>8, <1>10

\* Find leads from a head to the head with one more character, if and only if there is one.
LEMMA FindHead ==
    ASSUME NEW h, NEW level, NEW rank, NEW K, Tree(h, level, rank, K),
           NEW n \in Heads(h), NEW char \in Characters
    PROVE  LET found == Find(h, n, char) IN
           /\ found # NULL => /\ found \in Heads(h) /\ rank[found] < rank[n]
                              /\ level[found] = Append(level[n], char)
           /\ \A s \in Heads(h) : level[s] = Append(level[n], char) => found = s
<1> DEFINE D == DOMAIN h
           e == Before(h, n, char)
           b == h[e].bro
           found == Find(h, n, char)
<1>0. Lists(h, level, rank, K)
  BY DEF Tree
<1>1. /\ n \in D /\ \A x \in D : rank[x] \in Nat /\ h[x].character \in Nat
      /\ Brothers(h) \subseteq D /\ h[n].character # char
      /\ char \in Nat /\ char # EndMark
  BY <1>0, ListsTyped DEF Heads, Characters
<1>2. /\ e \in D /\ level[e] = level[n] /\ rank[e] <= rank[n]
      /\ b # NULL => h[b].character >= char
  BY <1>0, <1>1, BeforeTyped
<1>3. found = IF b # NULL /\ h[b].character = char THEN h[b].son ELSE NULL
  <2>1. NULL \notin D /\ (b # NULL => b \in D)
    BY <1>2, NodeTyped DEF Tree, Lists, ListInv, Brothers
  <2> QED
    BY <1>1, <2>1 DEF Find, Brother
<1>4. ASSUME found # NULL
      PROVE  /\ found \in Heads(h) /\ rank[found] < rank[n]
             /\ level[found] = Append(level[n], char)
  <2>1. b # NULL /\ h[b].character = char /\ found = h[b].son
    BY <1>3, <1>4
  <2>2. b \in Brothers(h) /\ level[b] = level[n] /\ rank[b] < rank[e]
    BY <1>2, <2>1 DEF Tree, Lists, ListInv
  <2>3. /\ h[b].son \in Heads(h) /\ rank[h[b].son] < rank[b]
        /\ level[h[b].son] = Append(level[n], char)
    BY <2>1, <2>2 DEF Tree, SonInv
  <2>4. rank[found] \in Nat
    BY <1>1, <2>1, <2>3 DEF Heads
  <2> QED
    BY <1>1, <1>2, <2>1, <2>2, <2>3, <2>4
<1>5. ASSUME NEW s \in Heads(h), level[s] = Append(level[n], char) PROVE found = s
  <2>1. level[n] \in Seq(Nat) /\ level[s] # <<>>
    <3> DEFINE v == level[n]
    <3>1. v \in Seq(Nat)
      BY <1>0, <1>1, ListsTyped
    <3>2. level[s] = Append(v, char)
      BY <1>5
    <3> HIDE DEF v
    <3>3. level[s] # <<>>
      BY <1>1, <3>1, <3>2
    <3> QED
      BY <3>1, <3>3 DEF v
  <2>2. PICK y \in Brothers(h) : h[y].son = s
    BY <2>1 DEF Tree, ParentInv
  <2>3. level[s] = Append(level[y], h[y].character)
    BY <2>2 DEF Tree, SonInv
  <2>4. level[y] \in Seq(Nat) /\ h[y].character \in Nat
    BY <1>0, ListsTyped
  <2>5. level[y] = level[n] /\ h[y].character = char
    <3> DEFINE u == level[y]
               v == level[n]
               x == h[y].character
    <3>1. Append(u, x) = Append(v, char)
      BY <1>5, <2>3
    <3>2. u \in Seq(Nat) /\ v \in Seq(Nat) /\ x \in Nat /\ char \in Nat
      BY <1>1, <2>1, <2>4
    <3> HIDE DEF u, v, x
    <3>3. u = v /\ x = char
      BY <3>1, <3>2, LastAdded
    <3> QED
      BY <3>3 DEF u, v, x
  <2>6. b = y
    BY <2>5, BrotherFound
  <2>7. y # NULL
    BY NodeTyped DEF Tree, Lists, Brothers
  <2> QED
    BY <1>3, <2>2, <2>5, <2>6, <2>7
<1> QED
  BY <1>4, <1>5

\* Find with the end mark tells whether a head is marked.
LEMMA FindEnd ==
    ASSUME NEW h, NEW level, NEW rank, NEW K, Tree(h, level, rank, K), NEW n \in Heads(h)
    PROVE  Find(h, n, EndMark) = IF h[n].character = EndMark THEN n ELSE NULL
BY DEF Find, Tree, SonInv

-----------------------------------------------------------------------------
(* Growing the tree.                                                       *)

\* What takeNew makes of a heap: the new head, the new brother between e and what followed e.
Spliced(h, g, e, char) ==
    /\ g \in Seq(Node) /\ Len(g) = Len(h) + 2
    /\ g[Len(h) + 1] = NewNode
    /\ g[Len(h) + 2] = [NewNode EXCEPT !.character = char, !.son = Len(h) + 1, !.bro = h[e].bro]
    /\ g[e] = [h[e] EXCEPT !.bro = Len(h) + 2]
    /\ \A n \in DOMAIN h \ {e} : g[n] = h[n]

\* A node keeps its type with other pointers.
LEMMA NodeChanged ==
    ASSUME NEW r \in Node, NEW x \in Nat
    PROVE  /\ [r EXCEPT !.bro = x] \in Node /\ [r EXCEPT !.son = x] \in Node
           /\ [r EXCEPT !.character = x] \in Node
BY DEF Node

\* A new brother goes between the smaller and the larger ones of its list.
LEMMA NewNodes ==
    ASSUME NEW h, NEW level, NEW rank, NEW K, Tree(h, level, rank, K),
           NEW node \in Heads(h), NEW char \in Characters, Find(h, node, char) = NULL
    PROVE  \E e \in DOMAIN h :
              /\ level[e] = level[node] /\ (e = node \/ h[e].character < char)
              /\ e \in Brothers(h) => h[e].character < char
              /\ h[e].bro # NULL => char < h[h[e].bro].character
              /\ Spliced(h, TakeNew(h, node, char), e, char)
<1> DEFINE N == Len(h)
           h1 == Append(h, NewNode)
           level1 == [n \in 1..N + 1 |-> IF n \in DOMAIN h THEN level[n] ELSE <<>>]
           rank1 == [n \in 1..N + 1 |-> IF n \in DOMAIN h THEN rank[n] ELSE 0]
           e == Before(h1, node, char)
           b == h1[e].bro
<1>0. Lists(h, level, rank, K)
  BY DEF Tree
<1>1. /\ h \in Seq(Node) /\ N \in Nat /\ DOMAIN h = 1..N /\ N + 1 \notin DOMAIN h
      /\ node \in DOMAIN h /\ char \in Nat /\ char # EndMark
      /\ \A x \in DOMAIN h : rank[x] \in 0..K /\ level[x] \in Seq(Nat)
  <2>1. h \in Seq(Node) /\ \A x \in DOMAIN h : rank[x] \in 0..K /\ level[x] \in Seq(Nat)
    BY <1>0 DEF Lists
  <2>2. N \in Nat /\ DOMAIN h = 1..N /\ N + 1 \notin DOMAIN h
    BY <2>1
  <2>3. node \in DOMAIN h /\ char \in Nat /\ char # EndMark
    BY DEF Heads, Characters
  <2> QED
    BY <2>1, <2>2, <2>3
<1>2. NewNode \in Node
  BY DEF NewNode, Node, NULL
<1>3. /\ h1 \in Seq(Node) /\ DOMAIN h1 = 1..N + 1 /\ Len(h1) = N + 1
      /\ h1[N + 1] = NewNode /\ \A n \in DOMAIN h : h1[n] = h[n]
  BY <1>1, <1>2
<1> HIDE DEF h1
<1>4. Brothers(h1) = Brothers(h) /\ N + 1 \in Heads(h1)
  <2>1. N + 1 \in Heads(h1) /\ \A n \in DOMAIN h : n \in Heads(h1) <=> n \in Heads(h)
    BY <1>1, <1>3 DEF Heads, NewNode
  <2>2. DOMAIN h1 = DOMAIN h \cup {N + 1}
    BY <1>1, <1>3
  <2> QED
    BY <2>1, <2>2 DEF Brothers
<1>5. Lists(h1, level1, rank1, K)
  <2>1. Root \in DOMAIN h1
    BY <1>0, <1>1, <1>3 DEF Lists
  <2>2. level1 \in [DOMAIN h1 -> Seq(Nat)]
    BY <1>1, <1>3
  <2>3. K \in Nat /\ rank1 \in [DOMAIN h1 -> 0..K]
    BY <1>0, <1>1, <1>3 DEF Lists
  <2>4. ASSUME NEW n \in DOMAIN h1, h1[n].bro # NULL
        PROVE  /\ h1[n].bro \in Brothers(h1)
               /\ level1[h1[n].bro] = level1[n] /\ rank1[h1[n].bro] < rank1[n]
               /\ n \in Brothers(h1) => h1[n].character < h1[h1[n].bro].character
    <3>1. n \in DOMAIN h
      BY <1>1, <1>3, <2>4 DEF NewNode
    <3>2. /\ h[n].bro \in Brothers(h) /\ h[n].bro \in DOMAIN h
          /\ level[h[n].bro] = level[n] /\ rank[h[n].bro] < rank[n]
          /\ n \in Brothers(h) => h[n].character < h[h[n].bro].character
      BY <1>0, <1>3, <2>4, <3>1 DEF Lists, ListInv, Brothers
    <3> QED
      BY <1>1, <1>3, <1>4, <3>1, <3>2
  <2> QED
    BY <1>3, <2>1, <2>2, <2>3, <2>4 DEF Lists, ListInv
<1>6. /\ e \in DOMAIN h1 /\ level1[e] = level1[node]
      /\ e = node \/ (e \in Brothers(h1) /\ h1[e].character < char)
      /\ b # NULL => h1[b].character >= char
  <2>1. node \in DOMAIN h1 /\ char \in Nat
    BY <1>1, <1>3
  <2> HIDE DEF level1, rank1
  <2>2. LET x == Before(h1, node, char) IN
        /\ x \in DOMAIN h1 /\ level1[x] = level1[node] /\ rank1[x] <= rank1[node]
        /\ x = node \/ (x \in Brothers(h1) /\ h1[x].character < char)
        /\ h1[x].bro # NULL => h1[h1[x].bro].character >= char
    BY <1>5, <2>1, BeforeTyped, Zenon
  <2> QED
    BY <2>2
<1>7. e \in DOMAIN h /\ h1[e] = h[e] /\ b = h[e].bro
  BY <1>1, <1>3, <1>4, <1>6 DEF Brothers
<1>8. level[e] = level[node]
  BY <1>1, <1>6, <1>7
<1>9. ASSUME b # NULL
      PROVE  /\ h1[b] = h[b] /\ h[b].character # char /\ char < h[b].character
  <2>1. b \in Brothers(h) /\ b \in DOMAIN h /\ level[b] = level[node]
    BY <1>0, <1>7, <1>8, <1>9 DEF Lists, ListInv, Brothers
  <2>2. h1[b] = h[b] /\ h[b].character \in Nat
    BY <1>0, <1>3, <2>1, ListsTyped
  <2>3. h[b].character # char
    <3> SUFFICES ASSUME h[b].character = char PROVE FALSE
      OBVIOUS
    <3>1. h[b].son \in Heads(h) /\ level[h[b].son] = Append(level[node], char)
      BY <2>1 DEF Tree, SonInv
    <3>2. Find(h, node, char) = h[b].son
      <4> HIDE DEF b
      <4> QED
        BY <3>1, FindHead
    <3>3. NULL \notin Heads(h)
      BY <1>1 DEF Heads, NULL
    <3> QED
      BY <3>1, <3>2, <3>3
  <2> QED
    BY <1>1, <1>6, <1>9, <2>2, <2>3
<1>10. Brother(h1, node, char) = NULL
  BY <1>9 DEF Brother
<1> DEFINE new == [NewNode EXCEPT !.character = char, !.son = N + 1, !.bro = b]
<1>11. TakeNew(h, node, char) = [Append(h1, new) EXCEPT ![e].bro = (N + 1) + 1]
  BY <1>1, <1>3, <1>10 DEF TakeNew, Insert, h1
<1>12. new \in Node /\ h[e] \in Node
  <2>1. h[e] \in Node /\ b \in Nat /\ N + 1 \in Nat
    BY <1>1, <1>7, NodeTyped
  <2>2. new = [[[NewNode EXCEPT !.character = char] EXCEPT !.son = N + 1] EXCEPT !.bro = b]
    BY DEF NewNode
  <2> HIDE DEF b, e
  <2>3. new \in Node
    BY <1>1, <1>2, <2>1, <2>2, NodeChanged
  <2> QED
    BY <2>1, <2>3
<1> DEFINE g == [Append(h1, new) EXCEPT ![e].bro = (N + 1) + 1]
           h2 == Append(h1, new)
<1>13. /\ h2 \in Seq(Node) /\ DOMAIN h2 = 1..N + 2 /\ Len(h2) = N + 2 /\ h2[N + 2] = new
       /\ \A n \in DOMAIN h1 : h2[n] = h1[n]
  <2> HIDE DEF new
  <2> QED
    BY <1>1, <1>3, <1>12
<1>14. g = [h2 EXCEPT ![e] = [h[e] EXCEPT !.bro = N + 2]]
  <2>1. h2[e] = h[e] /\ (N + 1) + 1 = N + 2
    BY <1>1, <1>3, <1>7, <1>13
  <2> HIDE DEF new, e
  <2> QED
    BY <1>13, <2>1
<1>15. [h[e] EXCEPT !.bro = N + 2] \in Node
  <2>1. N + 2 \in Nat
    BY <1>1
  <2> HIDE DEF e
  <2> QED
    BY <1>12, <2>1, NodeChanged
<1> DEFINE changed == [h[e] EXCEPT !.bro = N + 2]
<1>16. /\ g \in Seq(Node) /\ Len(g) = N + 2 /\ g[e] = changed
       /\ \A n \in 1..N + 2 : n # e => g[n] = h2[n]
  <2> HIDE DEF changed, h2, e, g
  <2>1. e \in 1..N + 2
    BY <1>1, <1>7
  <2>2. g = [h2 EXCEPT ![e] = changed]
    BY <1>14 DEF changed
  <2> QED
    BY <1>1, <1>13, <1>15, <2>1, <2>2 DEF changed
<1>17. Spliced(h, g, e, char)
  <2>1. /\ g[N + 1] = NewNode
        /\ g[N + 2] = [NewNode EXCEPT !.character = char, !.son = N + 1, !.bro = h[e].bro]
    <3>1. N + 1 # e /\ N + 2 # e /\ N + 1 \in 1..N + 2 /\ N + 2 \in 1..N + 2 /\ N + 1 \in DOMAIN h1
      BY <1>1, <1>3, <1>7
    <3>2. h2[N + 1] = NewNode /\ h2[N + 2] = new
      BY <1>3, <1>13, <3>1
    <3>3. new = [NewNode EXCEPT !.character = char, !.son = N + 1, !.bro = h[e].bro]
      BY <1>7
    <3> HIDE DEF g, h2, e, new
    <3> QED
      BY <1>16, <3>1, <3>2, <3>3
  <2>2. \A n \in DOMAIN h \ {e} : g[n] = h[n]
    <3>1. \A n \in DOMAIN h : n \in 1..N + 2 /\ n \in DOMAIN h1 /\ h2[n] = h[n]
      BY <1>1, <1>3, <1>13
    <3> HIDE DEF g, h2, e
    <3> QED
      BY <1>16, <3>1
  <2> HIDE DEF g, h2, e
  <2> QED
    BY <1>16, <2>1, <2>2 DEF Spliced
<1>18. e \in Brothers(h) => h[e].character < char
  <2>1. e = node => e \notin Brothers(h)
    BY DEF Brothers
  <2> QED
    BY <1>4, <1>6, <1>7, <2>1
<1> HIDE DEF g, e
<1>19. TakeNew(h, node, char) = g
  BY <1>11 DEF g
<1> QED
  BY <1>6, <1>7, <1>8, <1>9, <1>17, <1>18, <1>19

\* The nodes of h are still those of g, and the new ones are no ends.
Grows(h, level, g, level2) ==
    /\ DOMAIN h \subseteq DOMAIN g
    /\ \A n \in DOMAIN h : /\ level2[n] = level[n] /\ g[n].character = h[n].character
                           /\ g[n].subscribedClients = h[n].subscribedClients
    /\ \A n \in DOMAIN g \ DOMAIN h : g[n].character # EndMark /\ g[n].subscribedClients = {}

\* A tree with a new level in it is a tree.
LEMMA TreeGrows ==
    ASSUME NEW h, NEW level, NEW rank, NEW K, Tree(h, level, rank, K),
           NEW node \in Heads(h), NEW char \in Characters, Find(h, node, char) = NULL
    PROVE  LET g == TakeNew(h, node, char) IN
           \E level2, rank2, K2 :
              /\ Tree(g, level2, rank2, K2) /\ Grows(h, level, g, level2)
              /\ \E s \in Heads(g) : level2[s] = Append(level[node], char)
<1> DEFINE a == Len(h) + 1
           x == Len(h) + 2
           g == TakeNew(h, node, char)
<1>1. PICK e \in DOMAIN h : /\ level[e] = level[node] /\ (e = node \/ h[e].character < char)
                            /\ e \in Brothers(h) => h[e].character < char
                            /\ h[e].bro # NULL => char < h[h[e].bro].character
                            /\ Spliced(h, g, e, char)
  BY NewNodes
<1> DEFINE lv == level[node]
           level2 == [n \in DOMAIN g |-> IF n = a THEN Append(lv, char)
                                         ELSE IF n = x THEN lv ELSE level[n]]
           rank2 == [n \in DOMAIN g |-> IF n = a THEN 0
                                        ELSE IF n = x THEN 3 * rank[e] + 2 ELSE 3 * rank[n] + 3]
           K2 == 3 * K + 3
<1>0. Lists(h, level, rank, K) /\ h \in Seq(Node) /\ K \in Nat /\ rank \in [DOMAIN h -> 0..K]
  BY DEF Tree, Lists
<1>2. /\ a \notin DOMAIN h /\ x \notin DOMAIN h /\ a # x /\ a \in Nat \ {NULL} /\ x \in Nat \ {NULL}
      /\ g \in Seq(Node) /\ DOMAIN g = DOMAIN h \cup {a, x}
      /\ g[a] = NewNode
      /\ g[x] = [NewNode EXCEPT !.character = char, !.son = a, !.bro = h[e].bro]
      /\ g[e] = [h[e] EXCEPT !.bro = x] /\ \A n \in DOMAIN h \ {e} : g[n] = h[n]
  <2>1. /\ g \in Seq(Node) /\ Len(g) = Len(h) + 2
        /\ g[a] = NewNode
        /\ g[x] = [NewNode EXCEPT !.character = char, !.son = a, !.bro = h[e].bro]
        /\ g[e] = [h[e] EXCEPT !.bro = x] /\ \A n \in DOMAIN h \ {e} : g[n] = h[n]
    BY <1>1 DEF Spliced
  <2>2. Len(h) \in Nat /\ DOMAIN h = 1..Len(h) /\ DOMAIN g = 1..Len(g)
    BY <1>0, <2>1
  <2>3. /\ a \notin DOMAIN h /\ x \notin DOMAIN h /\ a # x /\ a \in Nat \ {NULL}
        /\ x \in Nat \ {NULL} /\ DOMAIN g = DOMAIN h \cup {a, x}
    <3> HIDE DEF g
    <3> QED
      BY <2>1, <2>2 DEF NULL
  <2> QED
    BY <2>1, <2>3
<1> HIDE DEF g, a, x
<1>3. /\ \A n \in DOMAIN h : /\ g[n].character = h[n].character /\ g[n].son = h[n].son
                             /\ g[n].subscribedClients = h[n].subscribedClients
                             /\ n # e => g[n].bro = h[n].bro
      /\ g[e].bro = x
      /\ g[a].character = 0 /\ g[a].bro = NULL /\ g[a].son = NULL
      /\ g[x].character = char /\ g[x].son = a /\ g[x].bro = h[e].bro
      /\ g[a].subscribedClients = {} /\ g[x].subscribedClients = {}
  <2>1. h[e] \in Node
    BY <1>0
  <2>2. /\ g[e].bro = x /\ g[e].character = h[e].character /\ g[e].son = h[e].son
        /\ g[e].subscribedClients = h[e].subscribedClients
    BY <1>2, <2>1 DEF Node
  <2>3. /\ g[x].character = char /\ g[x].son = a /\ g[x].bro = h[e].bro
        /\ g[x].subscribedClients = {}
    BY <1>2 DEF NewNode
  <2>4. g[a].character = 0 /\ g[a].bro = NULL /\ g[a].son = NULL /\ g[a].subscribedClients = {}
    BY <1>2 DEF NewNode
  <2> QED
    BY <1>2, <2>2, <2>3, <2>4
<1>4. /\ \A n \in DOMAIN h : /\ rank[n] \in Nat /\ level[n] \in Seq(Nat) /\ n # NULL
                             /\ h[n].character \in Nat
      /\ Heads(h) \subseteq DOMAIN h /\ Brothers(h) \subseteq DOMAIN h
      /\ \A n \in DOMAIN h : n \in Brothers(h) <=> n \notin Heads(h)
      /\ \A n \in Brothers(h) : h[n].character \in Characters
      /\ NULL \notin DOMAIN h
  BY <1>0, ListsTyped, Zenon
<1>5. char \in Nat /\ char \notin {0, EndMark}
  BY DEF Characters
<1>6. Heads(g) = Heads(h) \cup {a} /\ Brothers(g) = Brothers(h) \cup {x}
  <2>1. a \in Heads(g) /\ x \notin Heads(g)
    BY <1>2, <1>3, <1>5 DEF Heads
  <2>2. \A n \in DOMAIN h : n \in Heads(g) <=> n \in Heads(h)
    BY <1>2, <1>3 DEF Heads
  <2>3. Heads(g) \subseteq DOMAIN g
    BY DEF Heads
  <2>4. Heads(g) = Heads(h) \cup {a}
    BY <1>2, <1>4, <2>1, <2>2, <2>3
  <2> QED
    BY <1>2, <1>4, <2>4 DEF Brothers
<1>7. lv \in Seq(Nat) /\ Append(lv, char) \in Seq(Nat)
  <2>1. lv \in Seq(Nat)
    BY <1>4
  <2> HIDE DEF lv
  <2> QED
    BY <1>5, <2>1
<1>8. /\ level2 \in [DOMAIN g -> Seq(Nat)]
      /\ level2[a] = Append(lv, char) /\ level2[x] = lv /\ \A n \in DOMAIN h : level2[n] = level[n]
  <2> HIDE DEF lv
  <2> QED
    BY <1>2, <1>4, <1>7
<1>9. /\ K2 \in Nat /\ rank2 \in [DOMAIN g -> 0..K2]
      /\ rank2[a] = 0 /\ rank2[x] = 3 * rank[e] + 2
      /\ \A n \in DOMAIN h : rank2[n] = 3 * rank[n] + 3
  <2>1. \A n \in DOMAIN h : rank[n] \in 0..K
    BY <1>0
  <2>2. \A r \in 0..K : 3 * r + 2 \in 0..K2 /\ 3 * r + 3 \in 0..K2 /\ 0 \in 0..K2
    BY <1>0
  <2>3. K2 \in Nat
    BY <1>0
  <2>4. \A n \in DOMAIN h : 3 * rank[n] + 2 \in 0..K2 /\ 3 * rank[n] + 3 \in 0..K2 /\ 0 \in 0..K2
    BY <2>1, <2>2
  <2> HIDE DEF K2
  <2> QED
    BY <1>1, <1>2, <2>3, <2>4
<1>10. \A q, r \in Nat : q < r => 3 * q + 3 < 3 * r + 3 /\ 3 * q + 3 < 3 * r + 2
  OBVIOUS
<1>11. \A r \in Nat : 3 * r + 2 < 3 * r + 3 /\ 0 < 3 * r + 2
  OBVIOUS
<1> HIDE DEF level2, rank2, K2, lv
<1>12. \A n \in DOMAIN h : h[n].bro # NULL =>
          /\ h[n].bro \in Brothers(h) /\ level[h[n].bro] = level[n] /\ rank[h[n].bro] < rank[n]
          /\ n \in Brothers(h) => h[n].character < h[h[n].bro].character
  BY <1>0 DEF Lists, ListInv
<1>13. e \in DOMAIN h /\ level[e] = lv
  BY <1>1 DEF lv
<1>14. ListInv(g, level2, rank2)
  <2> SUFFICES ASSUME NEW n \in DOMAIN g, g[n].bro # NULL
               PROVE  /\ g[n].bro \in Brothers(g)
                      /\ level2[g[n].bro] = level2[n] /\ rank2[g[n].bro] < rank2[n]
                      /\ n \in Brothers(g) => g[n].character < g[g[n].bro].character
    BY DEF ListInv
  <2>1. CASE n \in DOMAIN h /\ n # e
    <3> DEFINE b == h[n].bro
    <3>1. g[n].bro = b /\ b # NULL
      BY <1>3, <2>1
    <3>2. /\ b \in Brothers(h) /\ b \in DOMAIN h /\ level[b] = level[n] /\ rank[b] < rank[n]
          /\ n \in Brothers(h) => h[n].character < h[b].character
      BY <1>4, <1>12, <2>1, <3>1
    <3>3. n \in Brothers(g) => n \in Brothers(h)
      BY <1>2, <1>6, <2>1
    <3>4. rank2[b] < rank2[n]
      <4>1. /\ rank[b] \in Nat /\ rank[n] \in Nat
            /\ rank2[b] = 3 * rank[b] + 3 /\ rank2[n] = 3 * rank[n] + 3
        BY <1>4, <1>9, <2>1, <3>2
      <4> HIDE DEF b
      <4> QED
        BY <3>2, <4>1
    <3> HIDE DEF b
    <3> QED
      BY <1>3, <1>6, <1>8, <2>1, <3>1, <3>2, <3>3, <3>4
  <2>2. CASE n = e
    <3>1. g[n].bro = x /\ x \in Brothers(g) /\ level2[x] = level2[n]
      BY <1>3, <1>6, <1>8, <1>13, <2>2
    <3>2. rank2[x] < rank2[n]
      BY <1>4, <1>9, <1>11, <1>13, <2>2
    <3>3. n \in Brothers(g) => g[n].character < g[x].character
      BY <1>1, <1>2, <1>3, <1>6, <2>2
    <3> QED
      BY <3>1, <3>2, <3>3
  <2>3. CASE n = x
    <3> DEFINE b == h[e].bro
    <3>1. g[n].bro = b /\ b # NULL
      BY <1>3, <2>3
    <3>2. b \in Brothers(h) /\ b \in DOMAIN h /\ level[b] = lv /\ rank[b] < rank[e]
      BY <1>4, <1>12, <1>13, <3>1
    <3>3. rank2[b] < rank2[n]
      BY <1>4, <1>9, <1>10, <1>13, <2>3, <3>2
    <3>4. char < h[b].character
      BY <1>1, <3>1
    <3> HIDE DEF b
    <3> QED
      BY <1>3, <1>6, <1>8, <2>3, <3>1, <3>2, <3>3, <3>4
  <2> QED
    BY <1>2, <1>3, <2>1, <2>2, <2>3
<1>15. /\ \A n \in Heads(h) : h[n].son = IF h[n].character = EndMark THEN n ELSE NULL
       /\ \A n \in Brothers(h) :
            /\ h[n].son \in Heads(h) /\ rank[h[n].son] < rank[n]
            /\ level[h[n].son] = Append(level[n], h[n].character)
  BY DEF Tree, SonInv
<1>16. SonInv(g, level2, rank2)
  <2>1. ASSUME NEW n \in Heads(g) PROVE g[n].son = IF g[n].character = EndMark THEN n ELSE NULL
    <3>1. CASE n = a
      BY <1>3, <3>1 DEF EndMark
    <3>2. CASE n \in Heads(h)
      <4>1. h[n].son = IF h[n].character = EndMark THEN n ELSE NULL
        BY <1>15, <3>2
      <4>2. g[n].son = h[n].son /\ g[n].character = h[n].character
        BY <1>3, <1>4, <3>2
      <4> QED
        BY <4>1, <4>2, Zenon
    <3> QED
      BY <1>6, <3>1, <3>2
  <2>2. ASSUME NEW n \in Brothers(g)
        PROVE  /\ g[n].son \in Heads(g) /\ rank2[g[n].son] < rank2[n]
               /\ level2[g[n].son] = Append(level2[n], g[n].character)
    <3>1. CASE n = x
      <4>1. rank2[a] < rank2[x]
        BY <1>4, <1>9, <1>11, <1>13
      <4> QED
        BY <1>3, <1>6, <1>8, <3>1, <4>1
    <3>2. CASE n \in Brothers(h)
      <4> DEFINE s == h[n].son
      <4>1. /\ s \in Heads(h) /\ s \in DOMAIN h /\ n \in DOMAIN h /\ rank[s] < rank[n]
            /\ level[s] = Append(level[n], h[n].character) /\ g[n].son = s
        BY <1>3, <1>4, <1>15, <3>2
      <4>2. rank2[s] < rank2[n]
        <5>1. /\ rank[s] \in Nat /\ rank[n] \in Nat
              /\ rank2[s] = 3 * rank[s] + 3 /\ rank2[n] = 3 * rank[n] + 3
          BY <1>4, <1>9, <4>1
        <5> HIDE DEF s
        <5> QED
          BY <4>1, <5>1
      <4> HIDE DEF s
      <4> QED
        BY <1>3, <1>6, <1>8, <4>1, <4>2
    <3> QED
      BY <1>6, <3>1, <3>2
  <2> QED
    BY <2>1, <2>2 DEF SonInv
<1>17. /\ \A n \in Brothers(h) : \E m \in DOMAIN h : h[m].bro = n
       /\ \A n \in Heads(h) \ {Root} : \E m \in Brothers(h) : h[m].son = n
       /\ \A m, n \in DOMAIN h : h[m].bro = h[n].bro /\ h[m].bro # NULL => m = n
  BY DEF Tree, ParentInv
<1>18. ParentInv(g)
  <2>1. ASSUME NEW n \in Brothers(g) PROVE \E m \in DOMAIN g : g[m].bro = n
    <3>1. CASE n = x
      BY <1>2, <1>3, <1>13, <3>1
    <3>2. CASE n \in Brothers(h)
      <4>1. PICK m \in DOMAIN h : h[m].bro = n
        BY <1>17, <3>2
      <4>2. m = e => g[x].bro = n
        BY <1>3, <4>1
      <4>3. m # e => g[m].bro = n
        BY <1>3, <4>1
      <4> QED
        BY <1>2, <4>2, <4>3
    <3> QED
      BY <1>6, <3>1, <3>2
  <2>2. ASSUME NEW n \in Heads(g) \ {Root} PROVE \E m \in Brothers(g) : g[m].son = n
    <3>1. CASE n = a
      BY <1>3, <1>6, <3>1
    <3>2. CASE n \in Heads(h)
      BY <1>3, <1>4, <1>6, <1>17, <3>2
    <3> QED
      BY <1>6, <3>1, <3>2
  <2>3. \A m \in DOMAIN h : h[m].bro # x
    BY <1>2, <1>4, <1>12
  <2>4. ASSUME NEW m \in DOMAIN g, NEW n \in DOMAIN g, g[m].bro = g[n].bro, g[m].bro # NULL,
               n = e \/ (n = x /\ m # e)
        PROVE  m = n
    <3>1. m # a /\ n # a
      BY <1>3, <2>4
    <3>2. CASE n = e
      <4> SUFFICES ASSUME m # e PROVE FALSE
        BY <3>2
      <4>1. g[m].bro = x
        BY <1>3, <2>4, <3>2
      <4>2. m = x => g[m].bro = h[e].bro
        BY <1>3
      <4>3. m # x => m \in DOMAIN h /\ g[m].bro = h[m].bro
        BY <1>2, <1>3, <3>1
      <4> QED
        BY <1>13, <2>3, <4>1, <4>2, <4>3
    <3>3. CASE n = x /\ m # e
      <4> SUFFICES ASSUME m # x PROVE FALSE
        BY <3>3
      <4>1. m \in DOMAIN h /\ g[m].bro = h[m].bro /\ g[n].bro = h[e].bro
        BY <1>2, <1>3, <3>1, <3>3
      <4> QED
        BY <1>13, <1>17, <2>4, <3>3, <4>1
    <3> QED
      BY <2>4, <3>2, <3>3
  <2>5. ASSUME NEW m \in DOMAIN g, NEW n \in DOMAIN g, g[m].bro = g[n].bro, g[m].bro # NULL
        PROVE  m = n
    <3>1. m # a /\ n # a
      BY <1>3, <2>5
    <3>2. CASE n = e \/ n = x
      BY <2>4, <2>5, <3>2
    <3>3. CASE m = e \/ m = x
      BY <2>4, <2>5, <3>3
    <3>4. CASE n \notin {e, x} /\ m \notin {e, x}
      BY <1>2, <1>3, <1>17, <2>5, <3>1, <3>4
    <3> QED
      BY <3>2, <3>3, <3>4
  <2> QED
    BY <2>1, <2>2, <2>5 DEF ParentInv
<1>19. \A s \in Heads(h) : level[s] # Append(lv, char)
  <2> SUFFICES ASSUME NEW s \in Heads(h), level[s] = Append(level[node], char) PROVE FALSE
    BY DEF lv
  <2>1. Find(h, node, char) = s
    BY FindHead
  <2> QED
    BY <1>4, <2>1
<1>20. \A m \in Brothers(h) : level[m] = lv => h[m].character # char
  BY <1>15, <1>19
<1>21. /\ \A m, n \in Heads(h) : level[m] = level[n] => m = n
       /\ \A m, n \in Brothers(h) :
            level[m] = level[n] /\ h[m].character = h[n].character => m = n
  BY DEF Tree, PlaceInv
<1>22. PlaceInv(g, level2)
  <2>1. ASSUME NEW m \in Heads(g), NEW n \in Heads(g), level2[m] = level2[n] PROVE m = n
    <3>1. CASE m = a \/ n = a
      BY <1>4, <1>6, <1>8, <1>19, <2>1, <3>1
    <3>2. CASE m \in Heads(h) /\ n \in Heads(h)
      BY <1>4, <1>8, <1>21, <2>1, <3>2
    <3> QED
      BY <1>6, <3>1, <3>2
  <2>2. ASSUME NEW m \in Brothers(g), NEW n \in Brothers(g), level2[m] = level2[n],
               g[m].character = g[n].character
        PROVE  m = n
    <3>1. CASE m = x \/ n = x
      BY <1>3, <1>4, <1>6, <1>8, <1>20, <2>2, <3>1
    <3>2. CASE m \in Brothers(h) /\ n \in Brothers(h)
      BY <1>3, <1>4, <1>8, <1>21, <2>2, <3>2
    <3> QED
      BY <1>6, <3>1, <3>2
  <2> QED
    BY <2>1, <2>2 DEF PlaceInv
<1>23. Lists(g, level2, rank2, K2)
  BY <1>0, <1>2, <1>8, <1>9, <1>14 DEF Lists
<1>24. Root \in Heads(g) /\ level2[Root] = <<>>
  BY <1>4, <1>6, <1>8 DEF Tree
<1>25. Tree(g, level2, rank2, K2)
  BY <1>16, <1>18, <1>22, <1>23, <1>24 DEF Tree
<1>26. Grows(h, level, g, level2)
  <2>1. EndMark # 0
    BY DEF EndMark
  <2> QED
    BY <1>2, <1>3, <1>5, <1>8, <2>1 DEF Grows
<1>27. level2[a] = Append(level[node], char) /\ a \in Heads(g)
  BY <1>6, <1>8 DEF lv
<1> QED
  BY <1>25, <1>26, <1>27 DEF g

\* A heap that differs in clients and end marks only is a tree as well.
LEMMA SameShape ==
    ASSUME NEW h, NEW level, NEW rank, NEW K, Tree(h, level, rank, K),
           NEW g \in Seq(Node), DOMAIN g = DOMAIN h,
           \A n \in DOMAIN h :
              /\ g[n].bro = h[n].bro
              /\ \/ g[n].character = h[n].character /\ g[n].son = h[n].son
                 \/ n \in Heads(h) /\ g[n].character = EndMark /\ g[n].son = n
    PROVE  Tree(g, level, rank, K) /\ Heads(g) = Heads(h)
<1>1. Heads(g) = Heads(h) /\ Brothers(g) = Brothers(h)
  BY DEF Heads, Brothers
<1>2. \A n \in Brothers(h) : /\ g[n].character = h[n].character /\ g[n].son = h[n].son
                             /\ n \in DOMAIN h
  BY DEF Brothers
<1>3. Lists(g, level, rank, K)
  <2>1. Lists(h, level, rank, K)
    BY DEF Tree
  <2>2. ListInv(g, level, rank)
    <3> SUFFICES ASSUME NEW n \in DOMAIN h, h[n].bro # NULL
                 PROVE  /\ h[n].bro \in Brothers(h)
                        /\ level[h[n].bro] = level[n] /\ rank[h[n].bro] < rank[n]
                        /\ n \in Brothers(h) => g[n].character < g[h[n].bro].character
      BY <1>1 DEF ListInv
    <3> QED
      BY <1>2, <2>1 DEF Lists, ListInv
  <2> QED
    BY <2>1, <2>2 DEF Lists
<1>4. SonInv(g, level, rank)
  <2>1. ASSUME NEW n \in Heads(h) PROVE g[n].son = IF g[n].character = EndMark THEN n ELSE NULL
    BY DEF Tree, SonInv, Heads
  <2>2. ASSUME NEW n \in Brothers(h)
        PROVE  /\ g[n].son \in Heads(h) /\ rank[g[n].son] < rank[n]
               /\ level[g[n].son] = Append(level[n], g[n].character)
    BY <1>2 DEF Tree, SonInv
  <2> QED
    BY <1>1, <2>1, <2>2 DEF SonInv
<1>5. ParentInv(g)
  <2>1. ParentInv(h)
    BY DEF Tree
  <2> QED
    BY <1>1, <1>2, <2>1 DEF ParentInv
<1>6. PlaceInv(g, level)
  <2>1. PlaceInv(h, level)
    BY DEF Tree
  <2> QED
    BY <1>1, <1>2, <2>1 DEF PlaceInv
<1> QED
  BY <1>1, <1>3, <1>4, <1>5, <1>6 DEF Tree

\* What grew twice has grown.
LEMMA GrowsOn ==
    ASSUME NEW h, NEW level, NEW g, NEW level2, NEW f, NEW level3,
           Grows(h, level, g, level2), Grows(g, level2, f, level3)
    PROVE  Grows(h, level, f, level3)
BY DEF Grows

\* One character down from a head: a head with this character more, in a tree that grew.
LEMMA DownTree ==
    ASSUME NEW h, NEW level, NEW rank, NEW K, Tree(h, level, rank, K),
           NEW node \in Heads(h), NEW char \in Characters,
           NEW at, at.heap = h, at.node = node
    PROVE  LET to == Down(at, char) IN
           \E level2, rank2, K2 :
              /\ Tree(to.heap, level2, rank2, K2) /\ Grows(h, level, to.heap, level2)
              /\ to.node \in Heads(to.heap) /\ level2[to.node] = Append(level[node], char)
<1>0. NULL \notin Heads(h)
  BY ListsTyped DEF Tree
<1>1. CASE Find(h, node, char) # NULL
  <2>1. Down(at, char).heap = h /\ Down(at, char).node = Find(h, node, char)
    BY <1>1 DEF Down
  <2>2. /\ Find(h, node, char) \in Heads(h)
        /\ level[Find(h, node, char)] = Append(level[node], char)
    BY <1>1, FindHead
  <2>3. Grows(h, level, h, level)
    BY DEF Grows
  <2> QED
    BY <2>1, <2>2, <2>3
<1>2. CASE Find(h, node, char) = NULL
  <2> DEFINE g == TakeNew(h, node, char)
  <2>1. Down(at, char).heap = g /\ Down(at, char).node = Find(g, node, char)
    BY <1>2 DEF Down
  <2>2. PICK level2, rank2, K2 :
              /\ Tree(g, level2, rank2, K2) /\ Grows(h, level, g, level2)
              /\ \E s \in Heads(g) : level2[s] = Append(level[node], char)
    BY <1>2, TreeGrows
  <2>3. PICK s \in Heads(g) : level2[s] = Append(level[node], char)
    BY <2>2
  <2> HIDE DEF g
  <2>4. /\ node \in DOMAIN h /\ node \in DOMAIN g /\ g[node].character = h[node].character
        /\ level2[node] = level[node]
    BY <2>2 DEF Grows, Heads
  <2>5. node \in Heads(g)
    BY <2>4 DEF Heads
  <2>6. level2[s] = Append(level2[node], char)
    BY <2>3, <2>4
  <2>7. Find(g, node, char) = s
    BY <2>2, <2>3, <2>5, <2>6, FindHead
  <2> QED
    BY <2>1, <2>2, <2>3, <2>7
<1> QED
  BY <1>1, <1>2

\* The way down a filter.
WayDown(filter) ==
    CHOOSE f : f = [i \in 0..Len(filter) |->
        IF i = 0 THEN [heap |-> heap, node |-> Root] ELSE Down(f[i - 1], filter[i])]

\* The recursive function of InsertFilter has a solution.
LEMMA WayDownDefined ==
    ASSUME NEW filter, Len(filter) \in Nat
    PROVE  /\ WayDown(filter)[0] = [heap |-> heap, node |-> Root]
           /\ \A i \in 1..Len(filter) :
                WayDown(filter)[i] = Down(WayDown(filter)[i - 1], filter[i])
<1> DEFINE L == Len(filter)
           start == [heap |-> heap, node |-> Root]
           Step(f, i) == IF i = 0 THEN start ELSE Down(f[i - 1], filter[i])
           T == {m \in 0..L : \E f : f = [i \in 0..m |-> Step(f, i)]}
<1>1. 0 \in T
  <2> DEFINE f == [i \in 0..0 |-> start]
  <2>1. f = [i \in 0..0 |-> Step(f, i)]
    OBVIOUS
  <2> HIDE DEF f, Step
  <2> QED
    BY <2>1
<1>2. ASSUME NEW m \in 0..L - 1, m \in T PROVE m + 1 \in T
  <2>1. PICK f : f = [i \in 0..m |-> Step(f, i)]
    BY <1>2
  <2> DEFINE g == [i \in 0..m + 1 |-> IF i <= m THEN f[i] ELSE Down(f[m], filter[m + 1])]
  <2>2. \A i \in 0..m : g[i] = f[i] /\ i \in 0..m + 1
    BY <1>2
  <2>3. g[m + 1] = Down(f[m], filter[m + 1])
    BY <1>2
  <2>4. \A i \in 0..m : f[i] = Step(f, i)
    <3> HIDE DEF Step
    <3> QED
      BY <2>1
  <2>9. \A i \in 0..m : i # 0 => i - 1 \in 0..m
    BY <1>2
  <2>10. g = [i \in 0..m + 1 |-> g[i]]
    OBVIOUS
  <2> HIDE DEF g
  <2>5. ASSUME NEW i \in 0..m PROVE g[i] = Step(g, i)
    BY <2>2, <2>4, <2>9
  <2>6. g[m + 1] = Step(g, m + 1)
    BY <1>2, <2>2, <2>3
  <2>7. ASSUME NEW i \in 0..m + 1 PROVE g[i] = Step(g, i)
    <3>1. i \in 0..m \/ i = m + 1
      BY <1>2
    <3> QED
      BY <2>5, <2>6, <3>1
  <2>8. g = [i \in 0..m + 1 |-> Step(g, i)]
    <3> HIDE DEF Step
    <3> QED
      BY <2>7, <2>10
  <2> HIDE DEF Step
  <2>11. m + 1 \in 0..L
    BY <1>2
  <2> QED
    BY <2>8, <2>11
<1>3. T = 0..L
  <2>1. T \in SUBSET (0..L)
    OBVIOUS
  <2> HIDE DEF T
  <2> QED
    BY <1>1, <1>2, <2>1, Climb
<1>4. PICK f : f = [i \in 0..L |-> Step(f, i)]
  <2>1. L \in T
    BY <1>3
  <2> QED
    BY <2>1
<1>5. WayDown(filter) = [i \in 0..L |-> Step(WayDown(filter), i)]
  BY <1>4 DEF WayDown
<1> DEFINE g == WayDown(filter)
<1>6. g = [i \in 0..L |-> Step(g, i)]
  BY <1>5
<1> HIDE DEF g
<1>7. \A i \in 0..L : g[i] = Step(g, i)
  <2> HIDE DEF Step
  <2> QED
    BY <1>6
<1>8. g[0] = start /\ \A i \in 1..L : g[i] = Down(g[i - 1], filter[i])
  BY <1>7
<1> QED
  BY <1>8 DEF g

\* Each step down a filter reaches a head, with the characters so far as its level.
LEMMA WayDownTree ==
    ASSUME NEW level, NEW rank, NEW K, Tree(heap, level, rank, K), NEW filter \in Seq(Characters)
    PROVE  LET end == WayDown(filter)[Len(filter)] IN
           \E level2, rank2, K2 :
              /\ Tree(end.heap, level2, rank2, K2) /\ Grows(heap, level, end.heap, level2)
              /\ end.node \in Heads(end.heap) /\ level2[end.node] = filter
<1> DEFINE L == Len(filter)
           f == WayDown(filter)
           Reached(at, m) == \E level2, rank2, K2 :
              /\ Tree(at.heap, level2, rank2, K2) /\ Grows(heap, level, at.heap, level2)
              /\ at.node \in Heads(at.heap) /\ level2[at.node] = SubSeq(filter, 1, m)
           T == {m \in 0..L : Reached(f[m], m)}
<1>1. L \in Nat /\ \A m \in 1..L : filter[m] \in Characters
  OBVIOUS
<1>2. /\ f[0].heap = heap /\ f[0].node = Root
      /\ \A i \in 1..L : f[i] = Down(f[i - 1], filter[i])
  BY <1>1, WayDownDefined
<1> HIDE DEF f
<1>3. 0 \in T
  <2>1. SubSeq(filter, 1, 0) = <<>>
    OBVIOUS
  <2>2. Root \in Heads(heap) /\ level[Root] = <<>> /\ Grows(heap, level, heap, level)
    BY DEF Tree, Grows
  <2>3. Reached(f[0], 0)
    BY <1>2, <2>1, <2>2
  <2> HIDE DEF Reached
  <2> QED
    BY <1>1, <2>3
<1>4. ASSUME NEW m \in 0..L - 1, m \in T PROVE m + 1 \in T
  <2>1. PICK level2, rank2, K2 :
              /\ Tree(f[m].heap, level2, rank2, K2) /\ Grows(heap, level, f[m].heap, level2)
              /\ f[m].node \in Heads(f[m].heap) /\ level2[f[m].node] = SubSeq(filter, 1, m)
    BY <1>4
  <2>2. m + 1 \in 1..L /\ f[m + 1] = Down(f[m], filter[m + 1]) /\ filter[m + 1] \in Characters
    <3>1. m + 1 \in 1..L /\ (m + 1) - 1 = m
      BY <1>1
    <3> QED
      BY <1>1, <1>2, <3>1
  <2> DEFINE to == f[m + 1]
             char == filter[m + 1]
             h2 == f[m].heap
             n2 == f[m].node
  <2>3. PICK level3, rank3, K3 :
              /\ Tree(to.heap, level3, rank3, K3) /\ Grows(h2, level2, to.heap, level3)
              /\ to.node \in Heads(to.heap) /\ level3[to.node] = Append(level2[n2], char)
    <3>1. to = Down(f[m], char) /\ char \in Characters
      BY <2>2
    <3>2. h2 = f[m].heap /\ n2 = f[m].node /\ Tree(h2, level2, rank2, K2) /\ n2 \in Heads(h2)
      BY <2>1
    <3> DEFINE at == f[m]
               down == Down(at, char)
    <3> HIDE DEF to, char, h2, n2, at
    <3>3. \E level3, rank3, K3 :
              /\ Tree(down.heap, level3, rank3, K3) /\ Grows(h2, level2, down.heap, level3)
              /\ down.node \in Heads(down.heap) /\ level3[down.node] = Append(level2[n2], char)
      <4>1. at.heap = h2 /\ at.node = n2
        BY <3>2 DEF at
      <4> QED
        BY <3>1, <3>2, <4>1, DownTree
    <3>4. down = to
      BY <3>1 DEF at
    <3> QED
      BY <3>3, <3>4, Zenon
  <2>4. Append(SubSeq(filter, 1, m), filter[m + 1]) = SubSeq(filter, 1, m + 1)
    <3>1. m \in Nat /\ m + 1 <= Len(filter)
      BY <1>1
    <3> QED
      BY <3>1, <1>1
  <2>5. Grows(heap, level, to.heap, level3)
    BY <2>1, <2>3, GrowsOn
  <2>6. Reached(to, m + 1)
    BY <2>1, <2>3, <2>4, <2>5
  <2> HIDE DEF Reached, to
  <2>7. m + 1 \in 0..L
    BY <2>2
  <2> QED
    BY <2>6, <2>7 DEF to
<1>5. T = 0..L
  <2>1. T \in SUBSET (0..L)
    OBVIOUS
  <2> HIDE DEF T
  <2> QED
    BY <1>1, <1>3, <1>4, <2>1, Climb
<1>6. Reached(f[L], L)
  <2>1. L \in T
    BY <1>1, <1>5
  <2> QED
    BY <2>1
<1>7. SubSeq(filter, 1, L) = filter
  OBVIOUS
<1> QED
  BY <1>6, <1>7 DEF f

\* What inserting a filter leaves as it was, node being the end of the filter.
Inserted(h, level, g, level2, node) ==
    /\ DOMAIN h \subseteq DOMAIN g
    /\ \A n \in DOMAIN h : /\ level2[n] = level[n]
                           /\ g[n].subscribedClients = h[n].subscribedClients
    /\ \A n \in DOMAIN h \ {node} : g[n].character = h[n].character
    /\ \A n \in DOMAIN g \ DOMAIN h : g[n].subscribedClients = {}
    /\ \A n \in DOMAIN g \ (DOMAIN h \cup {node}) : g[n].character # EndMark
    /\ node \in Heads(g) /\ g[node].character = EndMark

\* Inserting a filter marks the end of the filter, in a tree.
LEMMA InsertFilterTree ==
    ASSUME NEW level, NEW rank, NEW K, Tree(heap, level, rank, K), NEW filter \in Seq(Characters)
    PROVE  LET at == InsertFilter(filter) IN
           \E level2, rank2, K2 :
              /\ Tree(at.heap, level2, rank2, K2)
              /\ Inserted(heap, level, at.heap, level2, at.node) /\ level2[at.node] = filter
<1> DEFINE end == WayDown(filter)[Len(filter)]
           h == end.heap
           n == end.node
           g == [h EXCEPT ![n].character = EndMark, ![n].son = n]
           at == InsertFilter(filter)
<1>1. at = IF Find(h, n, EndMark) # NULL THEN end
           ELSE [end EXCEPT !.heap = Insert(h, n, EndMark, n)]
  BY DEF InsertFilter, WayDown
<1>2. PICK level2, rank2, K2 :
              /\ Tree(h, level2, rank2, K2) /\ Grows(heap, level, h, level2)
              /\ n \in Heads(h) /\ level2[n] = filter
  BY WayDownTree
<1>3. end = [heap |-> h, node |-> n]
  <2>1. Len(filter) \in Nat
    OBVIOUS
  <2>2. CASE Len(filter) = 0
    BY <2>1, <2>2, WayDownDefined
  <2>3. CASE Len(filter) # 0
    <3>1. Len(filter) \in 1..Len(filter)
      BY <2>1, <2>3
    <3>2. end = Down(WayDown(filter)[Len(filter) - 1], filter[Len(filter)])
      BY <2>1, <3>1, WayDownDefined
    <3> QED
      BY <3>2 DEF Down
  <2> QED
    BY <2>2, <2>3
<1> HIDE DEF end, at
<1>4. n \in DOMAIN h /\ h \in Seq(Node)
  BY <1>2 DEF Heads, Tree, Lists
<1>5. CASE h[n].character = EndMark
  <2>1. Find(h, n, EndMark) # NULL
    <3>1. n # NULL
      BY <1>4, NodeTyped
    <3> QED
      BY <1>2, <1>5, <3>1, FindEnd
  <2>2. at.heap = h /\ at.node = n
    BY <1>1, <1>3, <2>1
  <2>3. Inserted(heap, level, h, level2, n)
    BY <1>2, <1>5 DEF Grows, Inserted
  <2>4. /\ Tree(at.heap, level2, rank2, K2)
        /\ Inserted(heap, level, at.heap, level2, at.node) /\ level2[at.node] = filter
    BY <1>2, <2>2, <2>3
  <2> QED
    BY <2>4 DEF at
<1>6. CASE h[n].character # EndMark
  <2>1. Find(h, n, EndMark) = NULL
    BY <1>2, <1>6, FindEnd
  <2>2. at = [end EXCEPT !.heap = g]
    BY <1>1, <2>1 DEF Insert
  <2>3. at.heap = g /\ at.node = n
    BY <1>3, <2>2
  <2>4. g = [h EXCEPT ![n] = [h[n] EXCEPT !.character = EndMark, !.son = n]]
    <3> HIDE DEF h, n
    <3> QED
      BY <1>4
  <2>5. h[n] \in Node /\ [h[n] EXCEPT !.character = EndMark, !.son = n] \in Node
    <3>1. h[n] \in Node /\ n \in Nat /\ EndMark \in Nat
      BY <1>4, NodeTyped DEF EndMark
    <3>2. \A r \in Node, i \in Nat : [r EXCEPT !.character = EndMark, !.son = i] \in Node
      BY <3>1 DEF Node
    <3> QED
      BY <3>1, <3>2
  <2>6. /\ g \in Seq(Node) /\ DOMAIN g = DOMAIN h
        /\ g[n] = [h[n] EXCEPT !.character = EndMark, !.son = n]
        /\ \A m \in DOMAIN h : m # n => g[m] = h[m]
    <3> DEFINE marked == [h[n] EXCEPT !.character = EndMark, !.son = n]
    <3>1. g = [h EXCEPT ![n] = marked] /\ marked \in Node
      BY <2>4, <2>5
    <3> HIDE DEF marked, g, h, n
    <3>2. /\ g \in Seq(Node) /\ DOMAIN g = DOMAIN h /\ g[n] = marked
          /\ \A m \in DOMAIN h : m # n => g[m] = h[m]
      BY <1>4, <3>1
    <3> QED
      BY <3>2 DEF marked
  <2>7. /\ g[n].character = EndMark /\ g[n].son = n /\ g[n].bro = h[n].bro
        /\ g[n].subscribedClients = h[n].subscribedClients
    <3> HIDE DEF g, h, n
    <3> QED
      BY <2>5, <2>6 DEF Node
  <2> HIDE DEF g
  <2>8. \A m \in DOMAIN h :
              /\ g[m].bro = h[m].bro
              /\ \/ g[m].character = h[m].character /\ g[m].son = h[m].son
                 \/ m \in Heads(h) /\ g[m].character = EndMark /\ g[m].son = m
    BY <1>2, <2>6, <2>7
  <2>9. Tree(g, level2, rank2, K2) /\ Heads(g) = Heads(h)
    <3> HIDE DEF h
    <3> QED
      BY <1>2, <2>6, <2>8, SameShape
  <2>10. Inserted(heap, level, g, level2, n)
    <3>1. /\ DOMAIN heap \subseteq DOMAIN g /\ n \in Heads(g)
          /\ \A m \in DOMAIN heap : level2[m] = level[m]
      BY <1>2, <2>6, <2>9 DEF Grows
    <3> HIDE DEF h, n
    <3>2. ASSUME NEW m \in DOMAIN heap
          PROVE  /\ g[m].subscribedClients = heap[m].subscribedClients
                 /\ m # n => g[m].character = heap[m].character
      BY <1>2, <2>6, <2>7 DEF Grows
    <3>3. ASSUME NEW m \in DOMAIN g \ DOMAIN heap
          PROVE  /\ g[m].subscribedClients = {}
                 /\ m # n => g[m].character # EndMark
      BY <1>2, <2>6, <2>7 DEF Grows
    <3> QED
      BY <2>7, <3>1, <3>2, <3>3 DEF Inserted
  <2>11. /\ Tree(at.heap, level2, rank2, K2)
         /\ Inserted(heap, level, at.heap, level2, at.node) /\ level2[at.node] = filter
    BY <1>2, <2>3, <2>9, <2>10
  <2> QED
    BY <2>11 DEF at
<1> QED
  BY <1>5, <1>6 DEF at

-----------------------------------------------------------------------------
(* Filters and topics.                                                     *)

\* Each level is a sequence of characters.
LEMMA LevelsTyped ==
    ASSUME NEW wildCards \in SUBSET WildCards, NEW levels \in LevelsOver(wildCards)
    PROVE  levels \in Seq(Seq(Characters)) /\ Len(levels) \in 1..MaxLevels
<1>1. PICK n \in 1..MaxLevels : levels \in [1..n -> FirstNames \cup LaterNames \cup wildCards]
  BY DEF LevelsOver
<1>2. \A name \in FirstNames \cup LaterNames \cup wildCards : name \in Seq(Characters)
  <2>1. \A name \in FirstNames \cup LaterNames : name \in Seq(Characters)
    <3>1. \A name \in Seq(Nat \ {0, NumberSign, EndMark, Plus, Slash}) : name \in Seq(Characters)
      BY DEF Characters
    <3> QED
      BY <3>1, TrieAssumption
  <2>2. \A name \in WildCards : name \in Seq(Characters)
    <3>1. Plus \in Characters /\ NumberSign \in Characters
      BY DEF Characters, Plus, NumberSign, EndMark
    <3>2. <<Plus>> \in Seq(Characters) /\ <<NumberSign>> \in Seq(Characters)
      BY <3>1
    <3> QED
      BY <3>2 DEF WildCards
  <2> QED
    BY <2>1, <2>2
<1>3. levels \in [1..n -> Seq(Characters)]
  BY <1>1, <1>2
<1>4. n \in Nat /\ MaxLevels \in Nat
  BY TrieAssumption
<1> QED
  BY <1>3, <1>4

\* The characters up to each level.
Upto(levels) ==
    CHOOSE f : f = [i \in 1..Len(levels) |->
        IF i = 1 THEN levels[1] ELSE f[i - 1] \o <<Slash>> \o levels[i]]

\* The recursive function of Chars has a solution.
LEMMA UptoDefined ==
    ASSUME NEW C, Slash \in C, NEW levels \in Seq(Seq(C)), levels # <<>>
    PROVE  /\ Upto(levels)[1] = levels[1]
           /\ \A i \in 2..Len(levels) :
                Upto(levels)[i] = Upto(levels)[i - 1] \o <<Slash>> \o levels[i]
           /\ \A i \in 1..Len(levels) : Upto(levels)[i] \in Seq(C)
           /\ Chars(levels) = Upto(levels)[Len(levels)]
<1> DEFINE L == Len(levels)
           D == 1..L
           X == Seq(C)
           rank == [i \in D |-> i]
           step == [i \in D |-> [f \in [D -> X] |->
                      IF i = 1 THEN levels[1] ELSE f[i - 1] \o <<Slash>> \o levels[i]]]
<1>1. L \in Nat \ {0} /\ \A i \in D : levels[i] \in X
  OBVIOUS
<1>2. \A i \in D : i # 1 => i - 1 \in D
  BY <1>1
<1>3. <<Slash>> \in X
  OBVIOUS
<1>4. step \in [D -> [[D -> X] -> X]]
  <2>1. ASSUME NEW i \in D, NEW f \in [D -> X]
        PROVE (IF i = 1 THEN levels[1] ELSE f[i - 1] \o <<Slash>> \o levels[i]) \in X
    <3>1. i # 1 => f[i - 1] \in X
      BY <1>2
    <3>2. \A u, v, w \in X : u \o v \o w \in X
      OBVIOUS
    <3> HIDE DEF X
    <3> QED
      BY <1>1, <1>3, <3>1, <3>2
  <2> HIDE DEF X, D
  <2> QED
    BY <2>1
<1>5. \A i \in D, f \in [D -> X] :
          step[i][f] = IF i = 1 THEN levels[1] ELSE f[i - 1] \o <<Slash>> \o levels[i]
  <2> HIDE DEF X, D
  <2> QED
    OBVIOUS
<1>6. rank \in [D -> 0..L] /\ \A i \in D : i # 1 => rank[i - 1] < rank[i]
  BY <1>1, <1>2
<1>7. X # {}
  BY <1>3
<1>8. LooksDown(D, X, rank, step)
  <2> SUFFICES ASSUME NEW i \in D, NEW f \in [D -> X], NEW g \in [D -> X],
                      \A e \in D : rank[e] < rank[i] => f[e] = g[e]
               PROVE  step[i][f] = step[i][g]
    BY DEF LooksDown
  <2>1. i # 1 => f[i - 1] = g[i - 1]
    BY <1>2, <1>6
  <2> HIDE DEF X, D, step
  <2> QED
    BY <1>5, <2>1
<1>9. PICK f \in [D -> X] : \A i \in D : f[i] = step[i][f]
  <2>0. L \in Nat /\ rank \in [D -> 0..L]
    BY <1>1, <1>6
  <2> HIDE DEF X, D, step, rank, L
  <2>1. Solvable(D, X, step)
    BY <1>4, <1>7, <1>8, <2>0, RecursionSolved, Zenon
  <2> QED
    BY <2>1 DEF Solvable
<1> DEFINE Step(g, i) == IF i = 1 THEN levels[1] ELSE g[i - 1] \o <<Slash>> \o levels[i]
<1>10. f = [i \in D |-> Step(f, i)]
  <2>1. \A i \in D : f[i] = Step(f, i)
    <3> HIDE DEF X, D, step
    <3> QED
      BY <1>5, <1>9
  <2>2. f = [i \in D |-> f[i]]
    OBVIOUS
  <2> HIDE DEF Step, X, D
  <2> QED
    BY <2>1, <2>2, Zenon
<1> DEFINE g == Upto(levels)
<1>11. g = [i \in D |-> Step(g, i)]
  BY <1>10 DEF Upto
<1>12. Chars(levels) = g[L]
  BY DEF Chars, Upto
<1> HIDE DEF g
<1>13. \A i \in D : g[i] = Step(g, i)
  <2> HIDE DEF Step, D
  <2> QED
    BY <1>11
<1>14. 1 \in D /\ L \in D /\ \A i \in 2..L : i \in D /\ i # 1
  BY <1>1
<1>15. \A i \in D : g[i] \in X
  <2> DEFINE Bad == {i \in D : g[i] \notin X}
  <2> SUFFICES ASSUME Bad # {} PROVE FALSE
    OBVIOUS
  <2>1. PICK i \in Bad : \A j \in Bad : i <= j
    <3>1. Bad \subseteq Nat
      BY <1>1
    <3> HIDE DEF Bad
    <3> QED
      BY <3>1, LeastNatural
  <2>2. i # 1
    BY <1>1, <1>13, <1>14, <2>1
  <2>3. i - 1 \in D /\ i - 1 < i
    BY <1>2, <2>1, <2>2
  <2>4. g[i - 1] \in X
    BY <2>1, <2>3
  <2>5. g[i] = g[i - 1] \o <<Slash>> \o levels[i]
    BY <1>13, <2>1, <2>2
  <2>6. levels[i] \in X
    BY <1>1, <2>1
  <2>7. \A u, v, w \in X : u \o v \o w \in X
    OBVIOUS
  <2> HIDE DEF X
  <2>8. g[i] \in X
    BY <1>3, <2>4, <2>5, <2>6, <2>7
  <2> QED
    BY <2>1, <2>8
<1> QED
  BY <1>12, <1>13, <1>14, <1>15 DEF g

-----------------------------------------------------------------------------
(* The invariant.                                                          *)

\* The marked heads hold the clients that have subscribed to their levels.
Routes(h, level, subs) ==
    /\ \A n \in DOMAIN h : h[n].subscribedClients =
          IF h[n].character = EndMark
          THEN {s[1] : s \in {p \in subs : Chars(p[2]) = level[n]}} ELSE {}
    /\ \A p \in subs : \E n \in Heads(h) :
          h[n].character = EndMark /\ level[n] = Chars(p[2])

TrieInv ==
    /\ subscriptions \subseteq Clients \X Filters
    /\ \E level, rank, K : Tree(heap, level, rank, K) /\ Routes(heap, level, subscriptions)

\* A tree has the types and the lists that TypeOK says.
LEMMA TreeTypeOK == TrieInv => TypeOK
<1> SUFFICES ASSUME TrieInv PROVE TypeOK
  OBVIOUS
<1>1. PICK level, rank, K : Tree(heap, level, rank, K) /\ Routes(heap, level, subscriptions)
  BY DEF TrieInv
<1>2. /\ \A n \in DOMAIN heap : n # NULL /\ heap[n].character \in Nat /\ n \in 1..Len(heap)
      /\ Heads(heap) \subseteq DOMAIN heap /\ Brothers(heap) \subseteq DOMAIN heap
      /\ \A n \in DOMAIN heap : n \in Brothers(heap) <=> n \notin Heads(heap)
      /\ \A n \in Brothers(heap) : heap[n].character \in Characters
      /\ heap \in Seq(Node)
  <2>1. Lists(heap, level, rank, K)
    BY <1>1 DEF Tree
  <2> QED
    BY <2>1, ListsTyped, Zenon
<1>3. \A n \in DOMAIN heap : heap[n].bro # NULL =>
        /\ heap[n].bro \in Brothers(heap)
        /\ n \in Brothers(heap) => heap[n].character < heap[heap[n].bro].character
  BY <1>1 DEF Tree, Lists, ListInv
<1>4. /\ \A n \in Heads(heap) : heap[n].son = IF heap[n].character = EndMark THEN n ELSE NULL
      /\ \A n \in Brothers(heap) : heap[n].son \in Heads(heap) /\ heap[n].son # n
  <2>1. \A n \in Brothers(heap) : heap[n].son \in Heads(heap) /\ rank[heap[n].son] < rank[n]
    BY <1>1 DEF Tree, SonInv
  <2>2. \A n \in Brothers(heap) : rank[n] \in Nat
    BY <1>1, <1>2 DEF Tree, Lists
  <2>3. \A n \in Brothers(heap) : heap[n].son # n
    BY <2>1, <2>2
  <2> QED
    BY <1>1, <2>1, <2>3 DEF Tree, SonInv
<1>5. \A n \in DOMAIN heap : n \in Heads(heap) <=> heap[n].character \in {0, EndMark}
  BY DEF Heads
<1>6. heap \in Seq([character : Nat, bro : 0..Len(heap), son : 0..Len(heap),
                    subscribedClients : SUBSET Clients])
  <2> DEFINE Typed == [character : Nat, bro : 0..Len(heap), son : 0..Len(heap),
                       subscribedClients : SUBSET Clients]
  <2>1. ASSUME NEW n \in 1..Len(heap) PROVE heap[n] \in Typed
    <3>1. n \in DOMAIN heap /\ heap[n] \in Node /\ Len(heap) \in Nat
      BY <1>2, <2>1
    <3>2. heap[n].bro = NULL \/ heap[n].bro \in 1..Len(heap)
      BY <1>2, <1>3, <3>1
    <3>3. heap[n].son = NULL \/ heap[n].son \in 1..Len(heap)
      BY <1>2, <1>4, <3>1
    <3>4. heap[n].bro \in 0..Len(heap) /\ heap[n].son \in 0..Len(heap)
      BY <3>1, <3>2, <3>3 DEF NULL
    <3> QED
      BY <3>1, <3>4 DEF Node
  <2>2. heap \in [1..Len(heap) -> Typed] /\ Len(heap) \in Nat
    <3>1. heap = [n \in 1..Len(heap) |-> heap[n]] /\ Len(heap) \in Nat
      BY <1>2
    <3> HIDE DEF Typed
    <3> QED
      BY <2>1, <3>1
  <2> HIDE DEF Typed
  <2>3. heap \in Seq(Typed)
    BY <2>2
  <2> QED
    BY <2>3 DEF Typed
<1>7. ASSUME NEW n \in DOMAIN heap
      PROVE  /\ heap[n].bro # NULL =>
                  /\ heap[heap[n].bro].character \notin {0, EndMark}
                  /\ heap[n].character = EndMark
                     \/ heap[n].character < heap[heap[n].bro].character
             /\ heap[n].character = EndMark <=> heap[n].son = n
             /\ heap[n].character \notin {0, EndMark} => heap[n].son # NULL
             /\ heap[n].character # EndMark => heap[n].subscribedClients = {}
  <2>1. heap[n].bro # NULL =>
                  /\ heap[heap[n].bro].character \notin {0, EndMark}
                  /\ heap[n].character = EndMark
                     \/ heap[n].character < heap[heap[n].bro].character
    <3> SUFFICES ASSUME heap[n].bro # NULL
                 PROVE  /\ heap[heap[n].bro].character \notin {0, EndMark}
                        /\ heap[n].character = EndMark
                           \/ heap[n].character < heap[heap[n].bro].character
      OBVIOUS
    <3> DEFINE c == heap[heap[n].bro].character
               d == heap[n].character
    <3>1. /\ c \in Nat \ {0, EndMark} /\ (n \in Brothers(heap) => d < c)
          /\ (n \notin Brothers(heap) => d \in {0, EndMark})
      BY <1>2, <1>3, <1>5 DEF Characters
    <3> HIDE DEF c, d
    <3>2. c \notin {0, EndMark} /\ (d = EndMark \/ d < c)
      BY <3>1
    <3> QED
      BY <3>2 DEF c, d
  <2>2. heap[n].character = EndMark <=> heap[n].son = n
    <3>1. CASE n \in Heads(heap)
      BY <1>2, <1>4, <3>1
    <3>2. CASE n \in Brothers(heap)
      BY <1>2, <1>4, <1>5, <3>2
    <3> QED
      BY <1>2, <3>1, <3>2
  <2>3. heap[n].character \notin {0, EndMark} => heap[n].son # NULL
    BY <1>2, <1>4, <1>5
  <2>4. heap[n].character # EndMark => heap[n].subscribedClients = {}
    BY <1>1 DEF Routes
  <2> QED
    BY <2>1, <2>2, <2>3, <2>4
<1>8. subscriptions \subseteq Clients \X Filters
  BY DEF TrieInv
<1> QED
  BY <1>6, <1>7, <1>8 DEF TypeOK

\* The root alone is a tree.
LEMMA InitTree == Init => TrieInv
<1> SUFFICES ASSUME Init PROVE TrieInv
  OBVIOUS
<1> DEFINE level == [n \in {1} |-> <<>>]
           rank == [n \in {1} |-> 0]
<1>1. /\ heap \in Seq(Node) /\ DOMAIN heap = {1} /\ heap[1] = NewNode
  <2>1. NewNode \in Node
    BY DEF NewNode, Node, NULL
  <2> QED
    BY <2>1 DEF Init
<1>2. /\ heap[1].character = 0 /\ heap[1].bro = NULL /\ heap[1].son = NULL
      /\ heap[1].subscribedClients = {}
  BY <1>1 DEF NewNode
<1>3. Heads(heap) = {1} /\ Brothers(heap) = {}
  BY <1>1, <1>2 DEF Heads, Brothers
<1>4. Lists(heap, level, rank, 0)
  <2>1. level \in [DOMAIN heap -> Seq(Nat)] /\ rank \in [DOMAIN heap -> 0..0]
    <3>1. <<>> \in Seq(Nat)
      OBVIOUS
    <3> QED
      BY <1>1, <3>1
  <2>2. ListInv(heap, level, rank)
    BY <1>1, <1>2 DEF ListInv
  <2> QED
    BY <1>1, <2>1, <2>2 DEF Lists, Root
<1>5. Tree(heap, level, rank, 0)
  <2>1. Root \in Heads(heap) /\ level[Root] = <<>>
    BY <1>3 DEF Root
  <2>2. SonInv(heap, level, rank)
    BY <1>2, <1>3 DEF SonInv, EndMark
  <2>3. ParentInv(heap)
    BY <1>1, <1>3 DEF ParentInv, Root
  <2>4. PlaceInv(heap, level)
    BY <1>3 DEF PlaceInv
  <2> QED
    BY <1>4, <2>1, <2>2, <2>3, <2>4 DEF Tree
<1>6. Routes(heap, level, subscriptions)
  BY <1>1, <1>2 DEF Routes, Init, EndMark
<1> HIDE DEF level, rank
<1> QED
  BY <1>5, <1>6 DEF TrieInv, Init

\* Clients come and go without changing the tree.
LEMMA ClientsChanged ==
    ASSUME NEW h, NEW level, NEW rank, NEW K, Tree(h, level, rank, K),
           NEW clients \in [DOMAIN h -> SUBSET Clients]
    PROVE  LET g == [n \in DOMAIN h |-> [h[n] EXCEPT !.subscribedClients = clients[n]]] IN
           /\ Tree(g, level, rank, K) /\ Heads(g) = Heads(h)
           /\ \A n \in DOMAIN h : /\ g[n].character = h[n].character
                                  /\ g[n].subscribedClients = clients[n]
<1> DEFINE g == [n \in DOMAIN h |-> [h[n] EXCEPT !.subscribedClients = clients[n]]]
<1>1. h \in Seq(Node)
  BY DEF Tree, Lists
<1>2. ASSUME NEW n \in DOMAIN h
      PROVE  /\ g[n] \in Node /\ g[n].character = h[n].character /\ g[n].bro = h[n].bro
             /\ g[n].son = h[n].son /\ g[n].subscribedClients = clients[n]
  <2>1. h[n] \in Node /\ clients[n] \in SUBSET Clients
    BY <1>1
  <2>2. g[n] = [h[n] EXCEPT !.subscribedClients = clients[n]]
    OBVIOUS
  <2> HIDE DEF g
  <2> QED
    BY <2>1, <2>2 DEF Node
<1>3. DOMAIN h = 1..Len(h) /\ Len(h) \in Nat
  BY <1>1
<1>4. g \in Seq(Node) /\ DOMAIN g = DOMAIN h
  <2>1. DOMAIN g = DOMAIN h /\ g = [n \in DOMAIN h |-> g[n]]
    OBVIOUS
  <2> HIDE DEF g
  <2>2. g \in [1..Len(h) -> Node]
    BY <1>2, <1>3, <2>1
  <2> QED
    BY <1>3, <2>1, <2>2
<1> HIDE DEF g
<1>5. Tree(g, level, rank, K) /\ Heads(g) = Heads(h)
  BY <1>2, <1>4, SameShape
<1> QED
  BY <1>2, <1>5 DEF g

\* The invariant outlasts a subscription.
LEMMA SubscribeTree ==
    ASSUME TrieInv, NEW client \in Clients, NEW levels \in Filters, Subscribe(client, levels)
    PROVE  TrieInv'
<1> DEFINE filter == Chars(levels)
           at == InsertFilter(filter)
           h == at.heap
           n == at.node
<1>1. PICK level, rank, K : Tree(heap, level, rank, K) /\ Routes(heap, level, subscriptions)
  BY DEF TrieInv
<1>2. filter \in Seq(Characters)
  <2>1. levels \in LevelsOver(WildCards)
    BY DEF Filters
  <2>2. levels \in Seq(Seq(Characters)) /\ Len(levels) \in 1..MaxLevels
    BY <2>1, LevelsTyped
  <2>3. levels # <<>> /\ Len(levels) \in 1..Len(levels)
    BY <2>2
  <2>4. Slash \in Characters
    BY DEF Slash, Characters, EndMark
  <2> QED
    BY <2>2, <2>3, <2>4, UptoDefined
<1>3. PICK level2, rank2, K2 :
              /\ Tree(h, level2, rank2, K2)
              /\ Inserted(heap, level, h, level2, n) /\ level2[n] = filter
  <2> HIDE DEF filter
  <2> QED
    BY <1>1, <1>2, InsertFilterTree
<1>4. /\ heap' = [h EXCEPT ![n].subscribedClients = @ \cup {client}]
      /\ subscriptions' = subscriptions \cup {<<client, levels>>}
  BY DEF Subscribe
<1> HIDE DEF at
<1>5. n \in DOMAIN h /\ h \in Seq(Node)
  BY <1>3 DEF Inserted, Heads, Tree, Lists
<1> DEFINE clients == [m \in DOMAIN h |-> IF m = n THEN h[m].subscribedClients \cup {client}
                                          ELSE h[m].subscribedClients]
<1>6. clients \in [DOMAIN h -> SUBSET Clients]
  <2>1. \A m \in DOMAIN h : h[m].subscribedClients \subseteq Clients
    BY <1>5, NodeTyped
  <2> QED
    BY <2>1
<1>7. heap' = [m \in DOMAIN h |-> [h[m] EXCEPT !.subscribedClients = clients[m]]]
  <2>1. ASSUME NEW m \in DOMAIN h
        PROVE  heap'[m] = [h[m] EXCEPT !.subscribedClients = clients[m]]
    <3>1. CASE m = n
      BY <1>4, <3>1
    <3>2. CASE m # n
      <4>1. heap'[m] = h[m] /\ clients[m] = h[m].subscribedClients /\ h[m] \in Node
        BY <1>4, <1>5, <3>2
      <4>2. \A r \in Node : [r EXCEPT !.subscribedClients = r.subscribedClients] = r
        BY DEF Node
      <4> QED
        BY <4>1, <4>2
    <3> QED
      BY <3>1, <3>2
  <2>2. heap' = [m \in DOMAIN h |-> heap'[m]]
    BY <1>4
  <2> HIDE DEF clients, h
  <2> QED
    BY <2>1, <2>2
<1>8. /\ Tree(heap', level2, rank2, K2) /\ Heads(heap') = Heads(h) /\ DOMAIN heap' = DOMAIN h
      /\ \A m \in DOMAIN h : /\ heap'[m].character = h[m].character
                             /\ heap'[m].subscribedClients = clients[m]
  <2> HIDE DEF clients, h
  <2>1. LET g == [m \in DOMAIN h |-> [h[m] EXCEPT !.subscribedClients = clients[m]]] IN
        /\ Tree(g, level2, rank2, K2) /\ Heads(g) = Heads(h)
        /\ \A m \in DOMAIN h : /\ g[m].character = h[m].character
                               /\ g[m].subscribedClients = clients[m]
    BY <1>3, <1>6, ClientsChanged
  <2> QED
    BY <1>7, <2>1
<1>9. /\ \A m \in DOMAIN h : clients[m] = IF m = n THEN h[m].subscribedClients \cup {client}
                                          ELSE h[m].subscribedClients
  OBVIOUS
<1> HIDE DEF clients
<1> DEFINE Asked(subs, chars) == {s[1] : s \in {p \in subs : Chars(p[2]) = chars}}
<1>10. \A chars : Asked(subscriptions', chars)
                  = Asked(subscriptions, chars) \cup (IF chars = filter THEN {client} ELSE {})
  <2> SUFFICES ASSUME NEW chars
               PROVE  Asked(subscriptions', chars)
                         = Asked(subscriptions, chars)
                           \cup (IF chars = filter THEN {client} ELSE {})
    OBVIOUS
  <2> DEFINE new == <<client, levels>>
  <2>1. new[1] = client /\ Chars(new[2]) = filter /\ subscriptions' = subscriptions \cup {new}
    BY <1>4
  <2> HIDE DEF new, filter
  <2>2. CASE chars = filter
    <3>1. {p \in subscriptions' : Chars(p[2]) = chars}
             = {p \in subscriptions : Chars(p[2]) = chars} \cup {new}
      BY <2>1, <2>2
    <3> QED
      BY <2>1, <2>2, <3>1
  <2>3. CASE chars # filter
    <3>1. {p \in subscriptions' : Chars(p[2]) = chars}
             = {p \in subscriptions : Chars(p[2]) = chars}
      BY <2>1, <2>3
    <3> QED
      BY <2>3, <3>1
  <2> QED
    BY <2>2, <2>3
<1>11. \A m \in DOMAIN heap : m \in DOMAIN h /\ level2[m] = level[m]
  BY <1>3 DEF Inserted
<1>12. \A p \in subscriptions : \E m \in Heads(heap) :
          /\ heap[m].character = EndMark /\ level[m] = Chars(p[2])
          /\ h[m].character = EndMark /\ level2[m] = level[m] /\ m \in Heads(h)
  <2> SUFFICES ASSUME NEW p \in subscriptions
               PROVE  \E m \in Heads(heap) :
                  /\ heap[m].character = EndMark /\ level[m] = Chars(p[2])
                  /\ h[m].character = EndMark /\ level2[m] = level[m] /\ m \in Heads(h)
    OBVIOUS
  <2>1. PICK m \in Heads(heap) : heap[m].character = EndMark /\ level[m] = Chars(p[2])
    BY <1>1 DEF Routes
  <2>2. m \in DOMAIN heap /\ m \in DOMAIN h /\ level2[m] = level[m]
    BY <1>11 DEF Heads
  <2>3. h[m].character = EndMark
    BY <1>3, <2>1, <2>2 DEF Inserted
  <2> QED
    BY <2>1, <2>2, <2>3 DEF Heads
<1>13. \A m \in Heads(h) : level2[m] = filter => m = n
  BY <1>3 DEF Tree, PlaceInv, Inserted
<1>14. ASSUME NEW m \in DOMAIN h
       PROVE  clients[m] = IF h[m].character = EndMark
                           THEN Asked(subscriptions', level2[m]) ELSE {}
  <2>1. CASE m \in DOMAIN heap /\ m # n
    <3>1. /\ h[m].subscribedClients = heap[m].subscribedClients
          /\ h[m].character = heap[m].character /\ level2[m] = level[m]
      BY <1>3, <2>1 DEF Inserted
    <3>2. h[m].character = EndMark => level2[m] # filter
      <4>1. h[m].character = EndMark => m \in Heads(h)
        BY DEF Heads
      <4> QED
        BY <1>13, <2>1, <4>1
    <3>3. heap[m].subscribedClients =
              IF heap[m].character = EndMark THEN Asked(subscriptions, level[m]) ELSE {}
      BY <1>1, <2>1 DEF Routes
    <3>4. level2[m] # filter => Asked(subscriptions', level2[m]) = Asked(subscriptions, level2[m])
      <4> HIDE DEF Asked, filter
      <4> QED
        BY <1>10
    <3> HIDE DEF Asked, filter
    <3>5. clients[m] = h[m].subscribedClients
      BY <1>9, <2>1
    <3> QED
      BY <3>1, <3>2, <3>3, <3>4, <3>5
  <2>2. CASE m \notin DOMAIN heap /\ m # n
    <3>1. h[m].subscribedClients = {} /\ h[m].character # EndMark
      BY <1>3, <2>2 DEF Inserted
    <3> QED
      BY <1>9, <2>2, <3>1
  <2>3. CASE m = n
    <3>1. h[m].character = EndMark /\ level2[m] = filter
      BY <1>3, <2>3 DEF Inserted
    <3>2. h[m].subscribedClients = Asked(subscriptions, filter)
      <4>1. CASE m \in DOMAIN heap /\ heap[m].character = EndMark
        <5>1. h[m].subscribedClients = heap[m].subscribedClients /\ level2[m] = level[m]
          BY <1>3, <4>1 DEF Inserted
        <5>2. heap[m].subscribedClients = Asked(subscriptions, level[m])
          BY <1>1, <4>1 DEF Routes
        <5> QED
          BY <3>1, <5>1, <5>2
      <4>2. CASE ~(m \in DOMAIN heap /\ heap[m].character = EndMark)
        <5>1. h[m].subscribedClients = {}
          <6>1. CASE m \in DOMAIN heap
            BY <1>1, <1>3, <4>2, <6>1 DEF Inserted, Routes
          <6>2. CASE m \notin DOMAIN heap
            BY <1>3, <6>2 DEF Inserted
          <6> QED
            BY <6>1, <6>2
        <5>2. ASSUME NEW p \in subscriptions, Chars(p[2]) = filter PROVE FALSE
          <6>1. PICK x \in Heads(heap) :
                  /\ heap[x].character = EndMark /\ level[x] = Chars(p[2])
                  /\ h[x].character = EndMark /\ level2[x] = level[x] /\ x \in Heads(h)
            BY <1>12
          <6>2. x = n
            BY <1>13, <5>2, <6>1
          <6>3. x \in DOMAIN heap
            BY DEF Heads
          <6> QED
            BY <2>3, <4>2, <6>1, <6>2, <6>3
        <5>3. Asked(subscriptions, filter) = {}
          BY <5>2
        <5> HIDE DEF Asked
        <5> QED
          BY <5>1, <5>3
      <4> QED
        BY <4>1, <4>2
    <3> HIDE DEF Asked
    <3> QED
      BY <1>9, <1>10, <2>3, <3>1, <3>2
  <2> QED
    BY <2>1, <2>2, <2>3
<1>15. Routes(heap', level2, subscriptions')
  <2>1. \A m \in DOMAIN heap' : heap'[m].subscribedClients =
          IF heap'[m].character = EndMark THEN Asked(subscriptions', level2[m]) ELSE {}
    <3> HIDE DEF Asked
    <3> QED
      BY <1>8, <1>14
  <2>2. ASSUME NEW p \in subscriptions'
        PROVE  \E m \in Heads(heap') : heap'[m].character = EndMark /\ level2[m] = Chars(p[2])
    <3>1. CASE p \in subscriptions
      <4>1. PICK x \in Heads(heap) :
              /\ heap[x].character = EndMark /\ level[x] = Chars(p[2])
              /\ h[x].character = EndMark /\ level2[x] = level[x] /\ x \in Heads(h)
        BY <1>12, <3>1
      <4>2. x \in Heads(heap') /\ heap'[x].character = h[x].character
        BY <1>8, <4>1 DEF Heads
      <4> QED
        BY <4>1, <4>2
    <3>2. CASE p = <<client, levels>>
      <4>1. n \in Heads(heap') /\ heap'[n].character = EndMark
        BY <1>3, <1>5, <1>8 DEF Inserted
      <4>2. Chars(p[2]) = filter
        BY <3>2
      <4> HIDE DEF filter, n
      <4> QED
        BY <1>3, <4>1, <4>2
    <3> QED
      BY <1>4, <3>1, <3>2
  <2> QED
    BY <2>1, <2>2 DEF Routes
<1>16. (subscriptions \subseteq Clients \X Filters)'
  BY <1>4 DEF TrieInv
<1> QED
  BY <1>8, <1>15, <1>16 DEF TrieInv

\* The invariant outlasts the end of a client.
LEMMA UnsubscribeTree ==
    ASSUME TrieInv, NEW client \in Clients, Unsubscribe(client)
    PROVE  TrieInv'
<1>1. PICK level, rank, K : Tree(heap, level, rank, K) /\ Routes(heap, level, subscriptions)
  BY DEF TrieInv
<1> DEFINE clients == [n \in DOMAIN heap |-> heap[n].subscribedClients \ {client}]
<1>2. clients \in [DOMAIN heap -> SUBSET Clients]
  <2>1. \A n \in DOMAIN heap : heap[n].subscribedClients \subseteq Clients
    BY <1>1, NodeTyped DEF Tree, Lists
  <2> QED
    BY <2>1
<1>3. heap' = [n \in DOMAIN heap |-> [heap[n] EXCEPT !.subscribedClients = clients[n]]]
  BY DEF Unsubscribe
<1>4. /\ Tree(heap', level, rank, K) /\ Heads(heap') = Heads(heap) /\ DOMAIN heap' = DOMAIN heap
      /\ \A n \in DOMAIN heap : /\ heap'[n].character = heap[n].character
                                /\ heap'[n].subscribedClients = clients[n]
  <2> HIDE DEF clients
  <2>1. LET g == [m \in DOMAIN heap |-> [heap[m] EXCEPT !.subscribedClients = clients[m]]] IN
        /\ Tree(g, level, rank, K) /\ Heads(g) = Heads(heap)
        /\ \A m \in DOMAIN heap : /\ g[m].character = heap[m].character
                                  /\ g[m].subscribedClients = clients[m]
    BY <1>1, <1>2, ClientsChanged
  <2> QED
    BY <1>3, <2>1
<1>5. \A n \in DOMAIN heap : clients[n] = heap[n].subscribedClients \ {client}
  OBVIOUS
<1> HIDE DEF clients
<1> DEFINE Asked(subs, chars) == {s[1] : s \in {p \in subs : Chars(p[2]) = chars}}
<1>6. subscriptions' = {s \in subscriptions : s[1] # client}
  BY DEF Unsubscribe
<1>7. \A chars : Asked(subscriptions', chars) = Asked(subscriptions, chars) \ {client}
  BY <1>6
<1>8. Routes(heap', level, subscriptions')
  <2>1. ASSUME NEW n \in DOMAIN heap'
        PROVE  heap'[n].subscribedClients =
                 IF heap'[n].character = EndMark THEN Asked(subscriptions', level[n]) ELSE {}
    <3>1. heap[n].subscribedClients =
              IF heap[n].character = EndMark THEN Asked(subscriptions, level[n]) ELSE {}
      BY <1>1, <1>4 DEF Routes
    <3> HIDE DEF Asked
    <3> QED
      BY <1>4, <1>5, <1>7, <3>1
  <2>2. \A p \in subscriptions' :
            \E n \in Heads(heap') : heap'[n].character = EndMark /\ level[n] = Chars(p[2])
    BY <1>1, <1>4, <1>6 DEF Routes, Heads
  <2> QED
    BY <2>1, <2>2 DEF Routes
<1>9. (subscriptions \subseteq Clients \X Filters)'
  BY <1>6 DEF TrieInv
<1> QED
  BY <1>4, <1>8, <1>9 DEF TrieInv

\* The tree is a tree, and holds the subscriptions, in every reachable state.
THEOREM TrieCorrect == Spec => []TrieInv
<1>1. TrieInv /\ [Next]_vars => TrieInv'
  <2> SUFFICES ASSUME TrieInv, [Next]_vars PROVE TrieInv'
    OBVIOUS
  <2>1. CASE \E client \in Clients, levels \in Filters : Subscribe(client, levels)
    BY <2>1, SubscribeTree
  <2>2. CASE \E client \in Clients : Unsubscribe(client)
    BY <2>2, UnsubscribeTree
  <2>3. CASE UNCHANGED vars
    BY <2>3 DEF TrieInv, vars
  <2> QED
    BY <2>1, <2>2, <2>3 DEF Next
<1> QED
  BY InitTree, <1>1, PTL DEF Spec

\* Whatever is subscribed to in whichever order, every level stays an ordered list without
\* repetitions, and the marks are where the filters end.
THEOREM TypeCorrect == Spec => []TypeOK
BY TrieCorrect, TreeTypeOK, PTL

-----------------------------------------------------------------------------
(* Deleting the tree.                                                      *)

\* The range of a concatenation, and when it has no repetition.
LEMMA Joined ==
    ASSUME NEW S, NEW u \in Seq(S), NEW v \in Seq(S)
    PROVE  /\ u \o v \in Seq(S) /\ Range(u \o v) = Range(u) \cup Range(v)
           /\ Range(u) \subseteq S
           /\ IsInjective(u) /\ IsInjective(v) /\ Range(u) \cap Range(v) = {}
                => IsInjective(u \o v)
<1>1. /\ u \o v \in Seq(S) /\ Len(u \o v) = Len(u) + Len(v)
      /\ \A i \in 1..Len(u) : (u \o v)[i] = u[i]
      /\ \A i \in 1..Len(u) + Len(v) : i > Len(u) => (u \o v)[i] = v[i - Len(u)]
      /\ \A i \in 1..Len(v) : (u \o v)[Len(u) + i] = v[i]
      /\ Len(u) \in Nat /\ Len(v) \in Nat
      /\ DOMAIN u = 1..Len(u) /\ DOMAIN v = 1..Len(v) /\ DOMAIN (u \o v) = 1..Len(u) + Len(v)
  OBVIOUS
<1>2. Range(u) \subseteq S
  BY DEF Range
<1> DEFINE w == u \o v
<1> HIDE DEF w
<1>3. Range(w) = Range(u) \cup Range(v)
  <2>1. ASSUME NEW x \in Range(u) PROVE x \in Range(w)
    <3>1. PICK i \in 1..Len(u) : x = u[i]
      BY <1>1 DEF Range
    <3>2. i \in DOMAIN w /\ w[i] = u[i]
      BY <1>1 DEF w
    <3> QED
      BY <3>1, <3>2 DEF Range
  <2>2. ASSUME NEW x \in Range(v) PROVE x \in Range(w)
    <3>1. PICK i \in 1..Len(v) : x = v[i]
      BY <1>1 DEF Range
    <3>2. Len(u) + i \in DOMAIN w /\ w[Len(u) + i] = v[i]
      BY <1>1 DEF w
    <3> QED
      BY <3>1, <3>2 DEF Range
  <2>3. ASSUME NEW x \in Range(w) PROVE x \in Range(u) \cup Range(v)
    <3>1. PICK i \in 1..Len(u) + Len(v) : x = w[i]
      BY <1>1 DEF Range, w
    <3>2. CASE i <= Len(u)
      <4>1. i \in DOMAIN u /\ w[i] = u[i]
        BY <1>1, <3>2 DEF w
      <4> QED
        BY <3>1, <4>1 DEF Range
    <3>3. CASE i > Len(u)
      <4>1. i - Len(u) \in DOMAIN v /\ w[i] = v[i - Len(u)]
        BY <1>1, <3>3 DEF w
      <4> QED
        BY <3>1, <4>1 DEF Range
    <3> QED
      BY <1>1, <3>2, <3>3
  <2> QED
    BY <2>1, <2>2, <2>3
<1>4. ASSUME IsInjective(u), IsInjective(v), Range(u) \cap Range(v) = {} PROVE IsInjective(w)
  <2>1. \A i \in DOMAIN w : \/ i \in DOMAIN u /\ w[i] = u[i]
                            \/ i - Len(u) \in DOMAIN v /\ w[i] = v[i - Len(u)] /\ i > Len(u)
    BY <1>1 DEF w
  <2>2. \A i \in DOMAIN w : i \in Nat
    BY <1>1 DEF w
  <2> SUFFICES ASSUME NEW i \in DOMAIN w, NEW j \in DOMAIN w, w[i] = w[j] PROVE i = j
    BY DEF IsInjective
  <2>3. CASE i \in DOMAIN u /\ w[i] = u[i] /\ j \in DOMAIN u /\ w[j] = u[j]
    BY <1>4, <2>3 DEF IsInjective
  <2>4. CASE i - Len(u) \in DOMAIN v /\ w[i] = v[i - Len(u)]
             /\ j - Len(u) \in DOMAIN v /\ w[j] = v[j - Len(u)]
    <3>1. i - Len(u) = j - Len(u)
      BY <1>4, <2>4 DEF IsInjective
    <3> QED
      BY <1>1, <2>2, <3>1
  <2>5. CASE i \in DOMAIN u /\ w[i] = u[i] /\ j - Len(u) \in DOMAIN v /\ w[j] = v[j - Len(u)]
    <3>1. u[i] \in Range(u) /\ v[j - Len(u)] \in Range(v)
      BY <2>5 DEF Range
    <3> QED
      BY <1>4, <2>5, <3>1
  <2>6. CASE j \in DOMAIN u /\ w[j] = u[j] /\ i - Len(u) \in DOMAIN v /\ w[i] = v[i - Len(u)]
    <3>1. u[j] \in Range(u) /\ v[i - Len(u)] \in Range(v)
      BY <2>6 DEF Range
    <3> QED
      BY <1>4, <2>6, <3>1
  <2> QED
    BY <2>1, <2>3, <2>4, <2>5, <2>6
<1> QED
  BY <1>1, <1>2, <1>3, <1>4 DEF w

\* The nodes of one visit are all there is.
LEMMA Alone ==
    ASSUME NEW S, NEW x \in S
    PROVE  /\ <<x>> \in Seq(S) /\ Range(<<x>>) = {x} /\ IsInjective(<<x>>)
           /\ <<>> \in Seq(S) /\ Range(<<>>) = {} /\ IsInjective(<<>>)
BY DEF Range, IsInjective

\* The solution of Deleted.
Deletes(h) ==
    CHOOSE f : f = [n \in 0..Len(h) |->
        IF n = NULL THEN <<>>
        ELSE <<n>> \o f[h[n].bro] \o (IF h[n].son = n THEN <<>> ELSE f[h[n].son])]

\* The recursive function of Deleted has a solution.
LEMMA DeletesDefined ==
    ASSUME NEW h, NEW level, NEW rank, NEW K, Tree(h, level, rank, K)
    PROVE  /\ \A n : Deleted(h, n) = Deletes(h)[n]
           /\ Deletes(h)[NULL] = <<>>
           /\ \A n \in DOMAIN h :
                Deletes(h)[n] = <<n>> \o Deletes(h)[h[n].bro]
                                \o (IF h[n].son = n THEN <<>> ELSE Deletes(h)[h[n].son])
           /\ \A n \in 0..Len(h) : Deletes(h)[n] \in Seq(DOMAIN h)
<1> DEFINE D == 0..Len(h)
           X == Seq(DOMAIN h)
           over == [n \in D |-> IF n = NULL THEN 0 ELSE rank[n] + 1]
           Step(f, n) == IF n = NULL THEN <<>>
                         ELSE <<n>> \o f[h[n].bro] \o (IF h[n].son = n THEN <<>> ELSE f[h[n].son])
           step == [n \in D |-> [f \in [D -> X] |-> Step(f, n)]]
<1>1. /\ h \in Seq(Node) /\ K \in Nat /\ rank \in [DOMAIN h -> 0..K] /\ Lists(h, level, rank, K)
      /\ DOMAIN h = 1..Len(h) /\ Len(h) \in Nat
  <2>1. h \in Seq(Node) /\ K \in Nat /\ rank \in [DOMAIN h -> 0..K] /\ Lists(h, level, rank, K)
    BY DEF Tree, Lists
  <2>2. DOMAIN h = 1..Len(h) /\ Len(h) \in Nat
    BY <2>1
  <2> QED
    BY <2>1, <2>2
<1>2. ASSUME NEW n \in DOMAIN h
      PROVE  /\ h[n].bro \in D /\ h[n].son \in D
             /\ h[n].bro # NULL => h[n].bro \in DOMAIN h /\ rank[h[n].bro] < rank[n]
             /\ h[n].son # NULL /\ h[n].son # n => h[n].son \in DOMAIN h /\ rank[h[n].son] < rank[n]
  <2>1. h[n].bro # NULL => h[n].bro \in DOMAIN h /\ rank[h[n].bro] < rank[n]
    BY <1>1 DEF Lists, ListInv, Brothers
  <2>2. h[n].son # NULL /\ h[n].son # n => h[n].son \in DOMAIN h /\ rank[h[n].son] < rank[n]
    BY DEF Tree, SonInv, Brothers, Heads
  <2>3. h[n].son = n => h[n].son \in DOMAIN h
    OBVIOUS
  <2>4. DOMAIN h \subseteq D /\ NULL \in D
    BY <1>1 DEF NULL
  <2> QED
    BY <2>1, <2>2, <2>3, <2>4
<1>3. \A n \in D : n # NULL => n \in DOMAIN h
  BY <1>1 DEF NULL
<1>4. /\ K + 1 \in Nat /\ over \in [D -> 0..K + 1]
      /\ \A n \in DOMAIN h : /\ over[h[n].bro] < over[n]
                             /\ h[n].son # n => over[h[n].son] < over[n]
  <2>1. \A r \in 0..K : r + 1 \in 0..K + 1 /\ 0 \in 0..K + 1 /\ 0 < r + 1
    BY <1>1
  <2>2. \A n \in DOMAIN h : rank[n] \in 0..K /\ rank[n] \in Nat
    BY <1>1
  <2>3. over \in [D -> 0..K + 1]
    <3>1. \A n \in D : (IF n = NULL THEN 0 ELSE rank[n] + 1) \in 0..K + 1
      BY <1>1, <1>3, <2>1, <2>2
    <3> HIDE DEF D
    <3> QED
      BY <3>1
  <2>4. /\ \A n \in DOMAIN h : over[n] = rank[n] + 1 /\ n \in D /\ n # NULL
        /\ NULL \in D => over[NULL] = 0
    BY <1>1 DEF NULL
  <2> HIDE DEF over, D
  <2>5. ASSUME NEW n \in DOMAIN h, NEW m \in D, m # NULL => m \in DOMAIN h /\ rank[m] < rank[n]
        PROVE  over[m] < over[n]
    <3>1. CASE m = NULL
      BY <2>1, <2>2, <2>4, <3>1
    <3>2. CASE m # NULL
      BY <2>2, <2>4, <2>5, <3>2
    <3> QED
      BY <3>1, <3>2
  <2> QED
    BY <1>1, <1>2, <2>3, <2>5
<1>5. \A n \in DOMAIN h : <<n>> \in X /\ <<>> \in X
  OBVIOUS
<1>6. \A u, v, w \in X : u \o v \o w \in X
  OBVIOUS
<1>7. X # {} /\ <<>> \in X
  <2>1. <<>> \in X
    BY EmptySeq
  <2> QED
    BY <2>1
<1>8. ASSUME NEW n \in D, NEW f \in [D -> X] PROVE Step(f, n) \in X /\ step[n][f] = Step(f, n)
  <2>1. Step(f, n) \in X
    <3>1. CASE n = NULL
      BY <1>7, <3>1
    <3>2. CASE n # NULL
      <4>1. n \in DOMAIN h /\ h[n].bro \in D /\ h[n].son \in D
        BY <1>2, <1>3, <3>2
      <4>2. /\ <<n>> \in X /\ f[h[n].bro] \in X
            /\ (IF h[n].son = n THEN <<>> ELSE f[h[n].son]) \in X
        <5> HIDE DEF X, D
        <5> QED
          BY <1>5, <1>7, <4>1
      <4> HIDE DEF X
      <4> QED
        BY <1>6, <3>2, <4>2
    <3> QED
      BY <3>1, <3>2
  <2> HIDE DEF X, D, Step
  <2> QED
    BY <2>1
<1>9. step \in [D -> [[D -> X] -> X]]
  <2>1. \A n \in D, f \in [D -> X] : Step(f, n) \in X
    BY <1>8
  <2> HIDE DEF X, D, Step
  <2> QED
    BY <2>1
<1>10. LooksDown(D, X, over, step)
  <2> SUFFICES ASSUME NEW n \in D, NEW f \in [D -> X], NEW g \in [D -> X],
                      \A e \in D : over[e] < over[n] => f[e] = g[e]
               PROVE  step[n][f] = step[n][g]
    BY DEF LooksDown
  <2>1. n # NULL => /\ f[h[n].bro] = g[h[n].bro]
                    /\ h[n].son # n => f[h[n].son] = g[h[n].son]
    BY <1>2, <1>3, <1>4
  <2>2. Step(f, n) = Step(g, n)
    BY <2>1
  <2> HIDE DEF Step, step, X, D
  <2> QED
    BY <1>8, <2>2
<1>11. PICK f \in [D -> X] : \A n \in D : f[n] = step[n][f]
  <2> HIDE DEF X, D, step, over
  <2>1. Solvable(D, X, step)
    BY <1>4, <1>7, <1>9, <1>10, RecursionSolved, Zenon
  <2> QED
    BY <2>1 DEF Solvable
<1>12. f = [n \in D |-> Step(f, n)]
  <2>1. \A n \in D : f[n] = Step(f, n)
    <3> HIDE DEF X, D, step, Step
    <3> QED
      BY <1>8, <1>11
  <2>2. f = [n \in D |-> f[n]]
    OBVIOUS
  <2> HIDE DEF Step, X, D
  <2> QED
    BY <2>1, <2>2, Zenon
<1> DEFINE g == Deletes(h)
<1>13. g = [n \in D |-> Step(g, n)]
  BY <1>12 DEF Deletes
<1>14. \A n : Deleted(h, n) = g[n]
  BY DEF Deleted, Deletes
<1> HIDE DEF g
<1>15. \A n \in D : g[n] = Step(g, n)
  <2> HIDE DEF Step, D
  <2> QED
    BY <1>13
<1>16. NULL \in D /\ \A n \in DOMAIN h : n \in D /\ n # NULL
  BY <1>1 DEF NULL
<1>17. ASSUME NEW n \in D PROVE g[n] \in X
  <2> DEFINE Bad == {m \in D : g[m] \notin X}
  <2> SUFFICES ASSUME Bad # {} PROVE FALSE
    OBVIOUS
  <2>1. PICK m \in Bad : \A x \in Bad : over[m] <= over[x]
    <3>1. over \in [D -> Nat] /\ Bad \in SUBSET D
      BY <1>4
    <3> HIDE DEF Bad, D, over
    <3> QED
      BY <3>1, LowestRank
  <2>2. m # NULL
    BY <1>7, <1>15, <2>1
  <2>3. m \in DOMAIN h
    BY <1>3, <2>1, <2>2
  <2>4. \A x \in D : over[x] \in Nat
    <3> HIDE DEF over, D
    <3> QED
      BY <1>4
  <2>5. g[h[m].bro] \in X /\ (h[m].son # m => g[h[m].son] \in X)
    <3>1. \A x \in D : over[x] < over[m] => x \notin Bad
      <4> HIDE DEF over, D, Bad
      <4>1. m \in D
        BY <2>3, <1>16
      <4> QED
        BY <2>1, <2>4, <4>1
    <3>2. \A x \in D : over[x] < over[m] => g[x] \in X
      BY <3>1
    <3> HIDE DEF over, D, X, Bad
    <3> QED
      BY <1>2, <1>4, <2>3, <3>2
  <2>6. g[m] = <<m>> \o g[h[m].bro] \o (IF h[m].son = m THEN <<>> ELSE g[h[m].son])
    BY <1>15, <1>16, <2>2, <2>3
  <2> HIDE DEF X
  <2>7. g[m] \in X
    BY <1>5, <1>6, <1>7, <2>3, <2>5, <2>6
  <2> QED
    BY <2>1, <2>7
<1>18. g[NULL] = <<>>
  BY <1>15, <1>16
<1>19. \A n \in DOMAIN h :
         g[n] = <<n>> \o g[h[n].bro] \o (IF h[n].son = n THEN <<>> ELSE g[h[n].son])
  BY <1>15, <1>16
<1> QED
  BY <1>14, <1>17, <1>18, <1>19 DEF g

\* The pointer p has to m that the destructor follows.
LeadsTo(h, p, m) == h[p].bro = m \/ (h[p].son = m /\ m # p)

\* Only one node leads to a node, and to every node but the root there is one.
LEMMA OneLeads ==
    ASSUME NEW h, NEW level, NEW rank, NEW K, Tree(h, level, rank, K)
    PROVE  /\ \A p, m \in DOMAIN h : LeadsTo(h, p, m) => rank[m] < rank[p]
           /\ \A p, q, m \in DOMAIN h : LeadsTo(h, p, m) /\ LeadsTo(h, q, m) => p = q
           /\ \A m \in DOMAIN h \ {Root} : \E p \in DOMAIN h : LeadsTo(h, p, m)
<1>1. /\ \A n \in DOMAIN h : rank[n] \in Nat /\ level[n] \in Seq(Nat) /\ n # NULL
                             /\ h[n].character \in Nat
      /\ Heads(h) \subseteq DOMAIN h /\ Brothers(h) \subseteq DOMAIN h
      /\ \A n \in DOMAIN h : n \in Brothers(h) <=> n \notin Heads(h)
  <2>1. Lists(h, level, rank, K)
    BY DEF Tree
  <2> QED
    BY <2>1, ListsTyped, Zenon
<1>2. \A n \in DOMAIN h : h[n].bro # NULL => /\ h[n].bro \in Brothers(h)
                                             /\ rank[h[n].bro] < rank[n]
  BY DEF Tree, Lists, ListInv
<1>3. /\ \A n \in Heads(h) : h[n].son = IF h[n].character = EndMark THEN n ELSE NULL
      /\ \A n \in Brothers(h) :
            /\ h[n].son \in Heads(h) /\ rank[h[n].son] < rank[n]
            /\ level[h[n].son] = Append(level[n], h[n].character)
  BY DEF Tree, SonInv
<1>4. /\ \A n \in Brothers(h) : \E m \in DOMAIN h : h[m].bro = n
      /\ \A n \in Heads(h) \ {Root} : \E m \in Brothers(h) : h[m].son = n
      /\ \A m, n \in DOMAIN h : h[m].bro = h[n].bro /\ h[m].bro # NULL => m = n
  BY DEF Tree, ParentInv
<1>5. \A m, n \in Brothers(h) : level[m] = level[n] /\ h[m].character = h[n].character => m = n
  BY DEF Tree, PlaceInv
<1>6. ASSUME NEW p \in DOMAIN h, NEW m \in DOMAIN h, LeadsTo(h, p, m)
      PROVE  /\ rank[m] < rank[p]
             /\ m \in Brothers(h) => h[p].bro = m
             /\ m \in Heads(h) => p \in Brothers(h) /\ h[p].son = m
  <2>1. CASE h[p].bro = m
    BY <1>1, <1>2, <2>1
  <2>2. CASE h[p].son = m /\ m # p
    BY <1>1, <1>3, <2>2
  <2> QED
    BY <1>6, <2>1, <2>2 DEF LeadsTo
<1>7. ASSUME NEW p \in DOMAIN h, NEW q \in DOMAIN h, NEW m \in DOMAIN h,
             LeadsTo(h, p, m), LeadsTo(h, q, m)
      PROVE  p = q
  <2>1. CASE m \in Brothers(h)
    BY <1>1, <1>4, <1>6, <1>7, <2>1
  <2>2. CASE m \in Heads(h)
    <3>1. p \in Brothers(h) /\ q \in Brothers(h) /\ h[p].son = m /\ h[q].son = m
      BY <1>6, <1>7, <2>2
    <3> DEFINE u == level[p]
               v == level[q]
               a == h[p].character
               b == h[q].character
    <3>2. Append(u, a) = Append(v, b)
      BY <1>3, <3>1
    <3>3. u \in Seq(Nat) /\ v \in Seq(Nat) /\ a \in Nat /\ b \in Nat
      BY <1>1, <3>1
    <3> HIDE DEF u, v, a, b
    <3>4. u = v /\ a = b
      BY <3>2, <3>3, LastAdded
    <3> QED
      BY <1>5, <3>1, <3>4 DEF u, v, a, b
  <2> QED
    BY <1>1, <2>1, <2>2
<1>8. ASSUME NEW m \in DOMAIN h \ {Root} PROVE \E p \in DOMAIN h : LeadsTo(h, p, m)
  <2>1. CASE m \in Brothers(h)
    BY <1>4, <2>1 DEF LeadsTo
  <2>2. CASE m \in Heads(h)
    <3>1. PICK p \in Brothers(h) : h[p].son = m
      BY <1>4, <2>2
    <3>2. p # m /\ p \in DOMAIN h
      BY <1>1, <2>2, <3>1
    <3> QED
      BY <3>1, <3>2 DEF LeadsTo
  <2> QED
    BY <1>1, <2>1, <2>2
<1> QED
  BY <1>6, <1>7, <1>8

\* The destructor of a node deletes what its pointers lead to, and nothing twice.
LEMMA DeletesBelow ==
    ASSUME NEW h, NEW level, NEW rank, NEW K, Tree(h, level, rank, K), NEW n \in DOMAIN h
    PROVE  LET all == Range(Deletes(h)[n]) IN
           /\ n \in all /\ all \subseteq DOMAIN h
           /\ \A p \in all : rank[p] <= rank[n]
           /\ \A p \in all, m \in DOMAIN h : LeadsTo(h, p, m) => m \in all
           /\ \A m \in all : m # n => \E p \in all : LeadsTo(h, p, m)
           /\ IsInjective(Deletes(h)[n])
<1> DEFINE D == DOMAIN h
           g == Deletes(h)
           Right(x) ==
              LET all == Range(g[x]) IN
              /\ x \in all /\ all \subseteq D
              /\ \A p \in all : rank[p] <= rank[x]
              /\ \A p \in all, m \in D : LeadsTo(h, p, m) => m \in all
              /\ \A m \in all : m # x => \E p \in all : LeadsTo(h, p, m)
              /\ IsInjective(g[x])
           Bad == {x \in D : ~Right(x)}
<1> SUFFICES ASSUME Bad # {} PROVE FALSE
  OBVIOUS
<1>1. /\ K \in Nat /\ rank \in [D -> 0..K] /\ Lists(h, level, rank, K)
      /\ D = 1..Len(h) /\ Len(h) \in Nat /\ \A x \in D : rank[x] \in Nat
  <2>1. h \in Seq(Node) /\ K \in Nat /\ rank \in [DOMAIN h -> 0..K] /\ Lists(h, level, rank, K)
    BY DEF Tree, Lists
  <2> QED
    BY <2>1
<1>2. PICK x \in Bad : \A y \in Bad : rank[x] <= rank[y]
  <2>1. rank \in [D -> Nat] /\ Bad \in SUBSET D
    BY <1>1
  <2> HIDE DEF Bad, D
  <2> QED
    BY <2>1, LowestRank
<1>3. x \in D
  OBVIOUS
<1>4. ASSUME NEW y \in D, rank[y] < rank[x] PROVE Right(y)
  <2> HIDE DEF Right, D
  <2> QED
    BY <1>1, <1>2, <1>3, <1>4
<1> DEFINE b == h[x].bro
           s == IF h[x].son = x THEN NULL ELSE h[x].son
           B == Range(g[b])
           S == Range(g[s])
<1>5. /\ b # NULL => b \in D /\ LeadsTo(h, x, b) /\ rank[b] < rank[x]
      /\ s # NULL => s \in D /\ LeadsTo(h, x, s) /\ rank[s] < rank[x]
      /\ b = s => b = NULL
      /\ \A m \in D : LeadsTo(h, x, m) => m = b \/ m = s
      /\ NULL \notin D /\ b \in 0..Len(h) /\ s \in 0..Len(h)
  <2>0. NULL \notin D
    BY <1>1 DEF NULL
  <2>1. b # NULL => b \in Brothers(h) /\ b \in D
    BY <1>1, <1>3 DEF Lists, ListInv, Brothers
  <2>2. s # NULL => s \in Heads(h) /\ s \in D /\ s # x /\ s = h[x].son
    BY <1>3 DEF Tree, SonInv, Brothers, Heads
  <2>3. b # NULL => LeadsTo(h, x, b)
    BY DEF LeadsTo
  <2>4. s # NULL => LeadsTo(h, x, s)
    BY <2>2 DEF LeadsTo
  <2>5. b # NULL => rank[b] < rank[x]
    <3> HIDE DEF b
    <3> QED
      BY <1>3, <2>1, <2>3, OneLeads
  <2>6. s # NULL => rank[s] < rank[x]
    <3> HIDE DEF s
    <3> QED
      BY <1>3, <2>2, <2>4, OneLeads
  <2>7. b = s => b = NULL
    BY <2>1, <2>2 DEF Brothers
  <2>8. \A m \in D : LeadsTo(h, x, m) => m = b \/ m = s
    BY DEF LeadsTo
  <2>9. b \in 0..Len(h) /\ s \in 0..Len(h)
    <3>1. NULL \in 0..Len(h) /\ D \subseteq 0..Len(h)
      BY <1>1 DEF NULL
    <3> HIDE DEF b, s, D
    <3> QED
      BY <2>1, <2>2, <3>1
  <2> QED
    BY <2>0, <2>1, <2>2, <2>3, <2>4, <2>5, <2>6, <2>7, <2>8, <2>9
<1>6. /\ g[x] = <<x>> \o g[b] \o g[s] /\ g[NULL] = <<>>
      /\ g[b] \in Seq(D) /\ g[s] \in Seq(D)
  <2>1. /\ g[x] = <<x>> \o g[b] \o (IF h[x].son = x THEN <<>> ELSE g[h[x].son])
        /\ g[NULL] = <<>> /\ \A m \in 0..Len(h) : g[m] \in Seq(D)
    <3> HIDE DEF g
    <3> QED
      BY <1>3, DeletesDefined DEF g
  <2>2. g[s] = IF h[x].son = x THEN <<>> ELSE g[h[x].son]
    BY <2>1
  <2> HIDE DEF s, b, g
  <2> QED
    BY <1>5, <2>1, <2>2
<1> HIDE DEF g, b, s
<1>7. /\ b # NULL => Right(b)
      /\ s # NULL => Right(s)
  <2> HIDE DEF Right
  <2> QED
    BY <1>4, <1>5
<1>8. /\ B \subseteq D /\ IsInjective(g[b]) /\ (b # NULL => b \in B) /\ (b = NULL => B = {})
      /\ \A p \in B : rank[p] < rank[x]
      /\ \A p \in B, m \in D : LeadsTo(h, p, m) => m \in B
      /\ \A m \in B : m # b => \E p \in B : LeadsTo(h, p, m)
  <2>1. CASE b = NULL
    <3>1. Range(<<>>) = {} /\ IsInjective(<<>>)
      BY DEF Range, IsInjective
    <3> QED
      BY <1>6, <2>1, <3>1
  <2>2. CASE b # NULL
    <3>1. \A p \in B : rank[p] \in Nat /\ rank[p] <= rank[b]
      BY <1>1, <1>7, <2>2
    <3>2. \A p \in B : rank[p] < rank[x]
      BY <1>1, <1>3, <1>5, <2>2, <3>1
    <3> QED
      BY <1>7, <2>2, <3>2
  <2> QED
    BY <2>1, <2>2
<1>9. /\ S \subseteq D /\ IsInjective(g[s]) /\ (s # NULL => s \in S) /\ (s = NULL => S = {})
      /\ \A p \in S : rank[p] < rank[x]
      /\ \A p \in S, m \in D : LeadsTo(h, p, m) => m \in S
      /\ \A m \in S : m # s => \E p \in S : LeadsTo(h, p, m)
  <2>1. CASE s = NULL
    <3>1. Range(<<>>) = {} /\ IsInjective(<<>>)
      BY DEF Range, IsInjective
    <3> QED
      BY <1>6, <2>1, <3>1
  <2>2. CASE s # NULL
    <3>1. \A p \in S : rank[p] \in Nat /\ rank[p] <= rank[s]
      BY <1>1, <1>7, <2>2
    <3>2. \A p \in S : rank[p] < rank[x]
      BY <1>1, <1>3, <1>5, <2>2, <3>1
    <3> QED
      BY <1>7, <2>2, <3>2
  <2> QED
    BY <2>1, <2>2
<1>10. x \notin B /\ x \notin S
  BY <1>1, <1>3, <1>8, <1>9
<1> HIDE DEF B, S, Right, Bad
<1>11. B \cap S = {}
  <2> DEFINE C == B \cap S
  <2> SUFFICES ASSUME C # {} PROVE FALSE
    OBVIOUS
  <2>1. PICK m \in C : \A y \in C : rank[y] <= rank[m]
    <3>1. C \in SUBSET D
      BY <1>8
    <3> HIDE DEF C, D
    <3> QED
      BY <1>1, <3>1, HighestRank
  <2>2. m \in D /\ m \in B /\ m \in S /\ b # NULL /\ s # NULL
    BY <1>8, <1>9, <2>1
  <2> HIDE DEF D
  <2>3. m # b
    <3> SUFFICES ASSUME m = b PROVE FALSE
      OBVIOUS
    <3>1. PICK q \in S : LeadsTo(h, q, m)
      BY <1>5, <1>9, <2>2
    <3>2. q = x
      BY <1>3, <1>5, <1>9, <2>2, <3>1, OneLeads DEF D
    <3> QED
      BY <1>10, <3>2
  <2>4. m # s
    <3> SUFFICES ASSUME m = s PROVE FALSE
      OBVIOUS
    <3>1. PICK q \in B : LeadsTo(h, q, m)
      BY <1>5, <1>8, <2>2
    <3>2. q = x
      BY <1>3, <1>5, <1>8, <2>2, <3>1, OneLeads DEF D
    <3> QED
      BY <1>10, <3>2
  <2>5. PICK p \in B : LeadsTo(h, p, m)
    BY <1>8, <2>2, <2>3
  <2>6. PICK q \in S : LeadsTo(h, q, m)
    BY <1>9, <2>2, <2>4
  <2>7. p \in D /\ q \in D
    BY <1>8, <1>9
  <2>8. p = q /\ rank[m] < rank[p]
    BY <2>2, <2>5, <2>6, <2>7, OneLeads DEF D
  <2>9. p \in C
    BY <2>8
  <2> HIDE DEF C
  <2> QED
    BY <1>1, <2>1, <2>2, <2>7, <2>8, <2>9
<1>12. /\ Range(g[x]) = {x} \cup B \cup S /\ IsInjective(g[x])
  <2>1. <<x>> \in Seq(D) /\ Range(<<x>>) = {x} /\ IsInjective(<<x>>)
    <3> HIDE DEF D
    <3> QED
      BY <1>3, Alone
  <2>2. <<x>> \o g[b] \in Seq(D) /\ Range(<<x>> \o g[b]) = {x} \cup B /\ IsInjective(<<x>> \o g[b])
    <3> DEFINE u == <<x>>
               v == g[b]
    <3>1. /\ u \in Seq(D) /\ v \in Seq(D) /\ Range(u) = {x} /\ Range(v) = B
          /\ IsInjective(u) /\ IsInjective(v) /\ Range(u) \cap Range(v) = {}
      BY <1>6, <1>8, <1>10, <2>1 DEF B
    <3> HIDE DEF D, u, v
    <3>2. u \o v \in Seq(D) /\ Range(u \o v) = {x} \cup B /\ IsInjective(u \o v)
      BY <3>1, Joined
    <3> QED
      BY <3>2 DEF u, v
  <2>3. Range((<<x>> \o g[b]) \o g[s]) = ({x} \cup B) \cup S /\ IsInjective((<<x>> \o g[b]) \o g[s])
    <3> DEFINE u == <<x>> \o g[b]
               v == g[s]
    <3>1. /\ u \in Seq(D) /\ Range(u) = {x} \cup B /\ IsInjective(u)
          /\ v \in Seq(D) /\ Range(v) = S /\ IsInjective(v)
      BY <1>6, <1>9, <2>2 DEF S
    <3>2. Range(u) \cap Range(v) = {}
      BY <1>10, <1>11, <3>1
    <3> HIDE DEF D, u, v
    <3>3. Range(u \o v) = ({x} \cup B) \cup S /\ IsInjective(u \o v)
      BY <3>1, <3>2, Joined
    <3> QED
      BY <3>3 DEF u, v
  <2> QED
    BY <1>6, <2>3
<1>13. Right(x)
  <2> DEFINE all == Range(g[x])
  <2>1. all = {x} \cup B \cup S
    BY <1>12
  <2> HIDE DEF all, D
  <2>2. \A p \in all : rank[p] <= rank[x]
    BY <1>1, <1>3, <1>8, <1>9, <2>1
  <2>3. \A p \in all, m \in D : LeadsTo(h, p, m) => m \in all
    BY <1>5, <1>8, <1>9, <2>1
  <2>4. \A m \in all : m # x => \E p \in all : LeadsTo(h, p, m)
    BY <1>5, <1>8, <1>9, <2>1
  <2>5. x \in all /\ all \subseteq D
    BY <1>3, <1>8, <1>9, <2>1
  <2> QED
    BY <1>12, <2>2, <2>3, <2>4, <2>5 DEF all, Right
<1> QED
  BY <1>2, <1>13 DEF Bad

\* The destructor of the root deletes every node.
LEMMA DeletesAll ==
    ASSUME NEW h, NEW level, NEW rank, NEW K, Tree(h, level, rank, K)
    PROVE  Range(Deletes(h)[Root]) = DOMAIN h /\ IsInjective(Deletes(h)[Root])
<1> DEFINE all == Range(Deletes(h)[Root])
           Missing == DOMAIN h \ all
<1>1. /\ Root \in DOMAIN h /\ K \in Nat /\ rank \in [DOMAIN h -> 0..K]
      /\ \A n \in DOMAIN h : rank[n] \in Nat
  <2>1. Root \in DOMAIN h /\ K \in Nat /\ rank \in [DOMAIN h -> 0..K]
    BY DEF Tree, Lists
  <2> QED
    BY <2>1
<1>2. /\ Root \in all /\ all \subseteq DOMAIN h /\ IsInjective(Deletes(h)[Root])
      /\ \A p \in all, m \in DOMAIN h : LeadsTo(h, p, m) => m \in all
  BY <1>1, DeletesBelow
<1> HIDE DEF all
<1> SUFFICES ASSUME Missing # {} PROVE FALSE
  BY <1>2 DEF all
<1>3. PICK m \in Missing : \A n \in Missing : rank[n] <= rank[m]
  <2>1. Missing \in SUBSET (DOMAIN h)
    OBVIOUS
  <2> HIDE DEF Missing
  <2> QED
    BY <1>1, <2>1, HighestRank
<1>4. PICK p \in DOMAIN h : LeadsTo(h, p, m)
  BY <1>2, OneLeads
<1>5. rank[m] < rank[p]
  BY <1>4, OneLeads
<1> QED
  BY <1>1, <1>2, <1>3, <1>4, <1>5

\* Whatever was subscribed to, ~Trie reaches every node that was made, and none twice.
THEOREM DeletesOnce == Spec => []DeletedOnce
<1>1. TrieInv => DeletedOnce
  <2> SUFFICES ASSUME TrieInv PROVE DeletedOnce
    OBVIOUS
  <2>1. PICK level, rank, K : Tree(heap, level, rank, K)
    BY DEF TrieInv
  <2>2. Deleted(heap, Root) = Deletes(heap)[Root]
    BY <2>1, DeletesDefined
  <2> QED
    BY <2>1, <2>2, DeletesAll DEF DeletedOnce
<1> QED
  BY TrieCorrect, <1>1, PTL

-----------------------------------------------------------------------------
(* Looking up a topic.                                                     *)

\* indexOf finds the first place of the character, if there is one.
LEMMA IndexFound ==
    ASSUME NEW topic \in Seq(Nat), NEW char, NEW from \in Nat \ {0}
    PROVE  LET k == IndexOf(topic, char, from) IN
           \/ k = 0 /\ \A j \in from..Len(topic) : topic[j] # char
           \/ /\ k \in from..Len(topic) /\ topic[k] = char
              /\ \A j \in from..k - 1 : topic[j] # char
<1> DEFINE at == {i \in from..Len(topic) : topic[i] = char}
           k == IndexOf(topic, char, from)
<1>1. k = IF at = {} THEN 0 ELSE CHOOSE x \in at : \A y \in at : x <= y
  BY DEF IndexOf, Min
<1>2. Len(topic) \in Nat
  OBVIOUS
<1>3. CASE at = {}
  BY <1>1, <1>3
<1>4. CASE at # {}
  <2>1. \E x \in at : \A y \in at : x <= y
    <3>1. at \subseteq Nat
      BY <1>2
    <3> HIDE DEF at
    <3> QED
      BY <1>4, <3>1, LeastNatural
  <2>2. k \in at /\ \A y \in at : k <= y
    <3> HIDE DEF at
    <3> QED
      BY <1>1, <1>4, <2>1
  <2> HIDE DEF k
  <2>3. k \in from..Len(topic) /\ topic[k] = char
    BY <2>2
  <2>4. \A j \in from..k - 1 : topic[j] # char
    <3> SUFFICES ASSUME NEW j \in from..k - 1, topic[j] = char PROVE FALSE
      OBVIOUS
    <3>1. j \in from..Len(topic) /\ j < k /\ j \in Nat /\ k \in Nat
      BY <1>2, <2>3
    <3>2. j \in at
      BY <3>1
    <3> QED
      BY <2>2, <3>1, <3>2
  <2> QED
    BY <2>3, <2>4 DEF k
<1> QED
  BY <1>3, <1>4

\* What find returns is a head further down, or the head itself for the end mark.
LEMMA FindLower ==
    ASSUME NEW h, NEW level, NEW rank, NEW K, Tree(h, level, rank, K),
           NEW n \in DOMAIN h, NEW char \in Nat, Find(h, n, char) # NULL
    PROVE  LET found == Find(h, n, char) IN
           /\ found \in Heads(h) /\ found \in DOMAIN h
           /\ rank[found] < rank[n] \/ (char = EndMark /\ found = n)
<1> DEFINE e == Before(h, n, char)
           b == h[e].bro
           found == Find(h, n, char)
<1>0. /\ Lists(h, level, rank, K) /\ \A x \in DOMAIN h : rank[x] \in Nat
      /\ Heads(h) \subseteq DOMAIN h /\ Brothers(h) \subseteq DOMAIN h
      /\ \A x \in DOMAIN h : x \in Brothers(h) <=> x \notin Heads(h)
  <2>1. Lists(h, level, rank, K)
    BY DEF Tree
  <2> QED
    BY <2>1, ListsTyped, Zenon
<1>1. e \in DOMAIN h /\ rank[e] <= rank[n]
  BY <1>0, BeforeTyped
<1>2. \/ found = h[n].son /\ (char = EndMark \/ h[n].character = char)
      \/ b # NULL /\ found = h[b].son
  BY DEF Find, Brother
<1>3. ASSUME NEW m \in Brothers(h)
      PROVE  h[m].son \in Heads(h) /\ rank[h[m].son] < rank[m]
  BY DEF Tree, SonInv
<1>4. CASE found = h[n].son /\ (char = EndMark \/ h[n].character = char)
  <2>1. CASE n \in Brothers(h)
    BY <1>0, <1>3, <1>4, <2>1
  <2>2. CASE n \in Heads(h)
    <3>1. h[n].son = IF h[n].character = EndMark THEN n ELSE NULL
      BY <2>2 DEF Tree, SonInv
    <3>2. found = n /\ h[n].character = EndMark
      BY <1>4, <3>1
    <3>3. char = EndMark
      BY <1>4, <3>2
    <3> QED
      BY <2>2, <3>2, <3>3
  <2> QED
    BY <1>0, <2>1, <2>2
<1>5. CASE b # NULL /\ found = h[b].son
  <2>1. b \in Brothers(h) /\ rank[b] < rank[e]
    BY <1>0, <1>1, <1>5 DEF Lists, ListInv
  <2>2. found \in Heads(h) /\ rank[found] < rank[b]
    <3> HIDE DEF b, found
    <3> QED
      BY <1>3, <1>5, <2>1
  <2>3. rank[b] \in Nat /\ rank[e] \in Nat /\ rank[found] \in Nat /\ rank[n] \in Nat
    BY <1>0, <1>1, <2>1, <2>2
  <2> HIDE DEF b, e, found
  <2>4. rank[found] < rank[n]
    BY <1>1, <2>1, <2>2, <2>3
  <2> QED
    BY <1>0, <2>2, <2>4 DEF found
<1> QED
  BY <1>2, <1>4, <1>5

\* A topic as it is looked up.
Marked(t) == \E s \in Seq(Characters) : t = Append(s, EndMark)

\* Its end mark is at the end, and only there.
LEMMA MarkedTyped ==
    ASSUME NEW t, Marked(t)
    PROVE  /\ t \in Seq(Nat) /\ Len(t) \in Nat \ {0} /\ DOMAIN t = 1..Len(t)
           /\ \A i \in 1..Len(t) : t[i] \in Nat /\ (t[i] = EndMark <=> i = Len(t))
           /\ \A i \in 1..Len(t) : i # Len(t) => t[i] \in Characters /\ i + 1 \in 1..Len(t)
<1>1. PICK s \in Seq(Characters) : t = Append(s, EndMark)
  BY DEF Marked
<1>2. EndMark \in Nat /\ EndMark \notin Characters /\ Characters \subseteq Nat
  BY DEF EndMark, Characters
<1>3. /\ Len(s) \in Nat /\ s \in Seq(Nat) /\ \A i \in 1..Len(s) : s[i] \in Characters
  <2>1. Len(s) \in Nat /\ \A i \in 1..Len(s) : s[i] \in Characters
    OBVIOUS
  <2>2. s \in [1..Len(s) -> Nat]
    <3>1. s = [i \in 1..Len(s) |-> s[i]]
      OBVIOUS
    <3> QED
      BY <1>2, <2>1, <3>1
  <2> QED
    BY <2>1, <2>2
<1>4. /\ t \in Seq(Nat) /\ Len(t) = Len(s) + 1 /\ DOMAIN t = 1..Len(t)
      /\ t[Len(s) + 1] = EndMark /\ \A i \in 1..Len(s) : t[i] = s[i]
  BY <1>1, <1>2, <1>3
<1>5. \A i \in 1..Len(t) : i = Len(t) \/ i \in 1..Len(s)
  BY <1>3, <1>4
<1>6. \A i \in 1..Len(t) : t[i] \in Nat /\ (t[i] = EndMark <=> i = Len(t))
  <2>1. \A i \in 1..Len(s) : i # Len(t)
    BY <1>3, <1>4
  <2> HIDE DEF Marked
  <2> QED
    BY <1>2, <1>3, <1>4, <1>5, <2>1
<1>7. \A i \in 1..Len(t) : i # Len(t) => t[i] \in Characters /\ i + 1 \in 1..Len(t)
  <2>1. \A i \in 1..Len(s) : i + 1 \in 1..Len(t)
    BY <1>3, <1>4
  <2> QED
    BY <1>3, <1>4, <1>5, <2>1
<1>8. Len(t) \in Nat \ {0}
  BY <1>3, <1>4
<1> QED
  BY <1>4, <1>6, <1>7, <1>8

\* The nodes a visit leads to, if any, are further down, and the visits are those of the topic.
LEMMA VisitsLower ==
    ASSUME NEW level, NEW rank, NEW K, Tree(heap, level, rank, K), NEW t, Marked(t),
           NEW n \in DOMAIN heap, NEW i \in 1..Len(t), NEW visit,
           \/ visit = PlusWildCard(t, n, i)
           \/ visit = NumberSignWildCard(t, n)
           \/ i # Len(t) /\ visit = NextLevel(t, n, i)
           \/ i # Len(t) /\ visit = NextCharacter(t, n, i)
    PROVE  /\ visit \in (0..Len(heap)) \X (1..Len(t)) \X BOOLEAN
           /\ visit[1] # NULL => /\ visit[1] \in Heads(heap) /\ visit[1] \in DOMAIN heap
                                 /\ rank[visit[1]] < rank[n]
<1>1. /\ DOMAIN heap = 1..Len(heap) /\ Len(heap) \in Nat
      /\ \A x \in DOMAIN heap : rank[x] \in Nat
  <2>1. heap \in Seq(Node) /\ Lists(heap, level, rank, K)
    BY DEF Tree, Lists
  <2> QED
    BY <2>1, ListsTyped
<1>2. /\ t \in Seq(Nat) /\ Len(t) \in Nat \ {0} /\ 1 \in 1..Len(t) /\ Len(t) \in 1..Len(t)
      /\ \A j \in 1..Len(t) : t[j] \in Nat /\ (t[j] = EndMark <=> j = Len(t))
      /\ \A j \in 1..Len(t) : j # Len(t) => j + 1 \in 1..Len(t)
  BY MarkedTyped
<1> DEFINE V == (0..Len(heap)) \X (1..Len(t)) \X BOOLEAN
           Lower(m) == /\ m \in 0..Len(heap)
                       /\ m # NULL => /\ m \in Heads(heap) /\ m \in DOMAIN heap
                                      /\ rank[m] < rank[n]
<1>3. ASSUME NEW m, Lower(m), NEW j \in 1..Len(t), NEW b \in BOOLEAN, visit = <<m, j, b>>
      PROVE  /\ visit \in V
             /\ visit[1] # NULL => /\ visit[1] \in Heads(heap) /\ visit[1] \in DOMAIN heap
                                   /\ rank[visit[1]] < rank[n]
  BY <1>3
<1>4. NULL \in 0..Len(heap) /\ Lower(NULL)
  BY <1>1 DEF NULL
<1>5. ASSUME NEW char \in Nat, char # EndMark PROVE Lower(Find(heap, n, char))
  <2> DEFINE m == Find(heap, n, char)
  <2>1. CASE m = NULL
    BY <1>4, <2>1
  <2>2. CASE m # NULL
    <3>1. /\ m \in Heads(heap) /\ m \in DOMAIN heap
          /\ rank[m] < rank[n] \/ (char = EndMark /\ m = n)
      BY <1>5, <2>2, FindLower
    <3> HIDE DEF m
    <3>2. Lower(m)
      BY <1>1, <1>5, <3>1
    <3> QED
      BY <3>2 DEF m
  <2> QED
    BY <2>1, <2>2
<1>6. Plus \in Nat /\ NumberSign \in Nat /\ Slash \in Nat /\ EndMark \in Nat
      /\ Plus # EndMark /\ NumberSign # EndMark /\ Slash # EndMark
  BY DEF Plus, NumberSign, Slash, EndMark
<1> HIDE DEF V
<1>7. CASE visit = PlusWildCard(t, n, i)
  <2> DEFINE plus == Find(heap, n, Plus)
             next == IndexOf(t, Slash, i + 1)
  <2>1. visit = IF plus = NULL THEN NoVisit
                ELSE IF next # 0 THEN <<plus, next, TRUE>>
                ELSE <<Find(heap, plus, EndMark), Len(t), TRUE>>
    BY <1>7 DEF PlusWildCard
  <2>2. Lower(plus)
    BY <1>5, <1>6
  <2>3. next = 0 \/ next \in 1..Len(t)
    <3>1. next = 0 \/ next \in i + 1..Len(t)
      <4>1. i + 1 \in Nat \ {0}
        BY <1>2
      <4> QED
        BY <1>2, <4>1, IndexFound
    <3> HIDE DEF next
    <3> QED
      BY <1>2, <3>1
  <2> HIDE DEF plus, next, Lower
  <2>4. CASE plus = NULL
    <3>1. visit = <<NULL, 1, FALSE>>
      BY <2>1, <2>4 DEF NoVisit
    <3> QED
      BY <1>2, <1>3, <1>4, <3>1 DEF V
  <2>5. CASE plus # NULL /\ next # 0
    <3>1. visit = <<plus, next, TRUE>>
      BY <2>1, <2>5
    <3> QED
      BY <1>3, <2>2, <2>3, <2>5, <3>1 DEF V
  <2>6. CASE plus # NULL /\ next = 0
    <3> DEFINE end == Find(heap, plus, EndMark)
    <3>1. visit = <<end, Len(t), TRUE>>
      BY <2>1, <2>6
    <3>2. plus \in Heads(heap) /\ plus \in DOMAIN heap /\ rank[plus] < rank[n]
      BY <2>2, <2>6 DEF Lower
    <3>3. Lower(end)
      <4>1. end = NULL \/ end = plus
        BY <3>2, FindEnd
      <4> HIDE DEF end
      <4> QED
        BY <1>4, <2>2, <4>1
    <3> HIDE DEF end
    <3> QED
      BY <1>2, <1>3, <3>1, <3>3 DEF V
  <2> QED
    BY <2>4, <2>5, <2>6
<1>8. CASE visit = NumberSignWildCard(t, n)
  <2> DEFINE m == Find(heap, n, NumberSign)
  <2>1. Lower(m) /\ visit = <<m, Len(t), TRUE>>
    BY <1>5, <1>6, <1>8 DEF NumberSignWildCard
  <2> HIDE DEF m, Lower
  <2> QED
    BY <1>2, <1>3, <2>1 DEF V
<1>9. CASE i # Len(t) /\ visit = NextLevel(t, n, i)
  <2> DEFINE m == Find(heap, n, Slash)
  <2>1. Lower(m) /\ visit = IF t[i] = Slash THEN <<m, i, TRUE>> ELSE <<NULL, 1, FALSE>>
    BY <1>5, <1>6, <1>9 DEF NextLevel, NoVisit
  <2> HIDE DEF m, Lower
  <2>2. CASE t[i] = Slash
    BY <1>3, <2>1, <2>2 DEF V
  <2>3. CASE t[i] # Slash
    BY <1>2, <1>3, <1>4, <2>1, <2>3 DEF V
  <2> QED
    BY <2>2, <2>3
<1>10. CASE i # Len(t) /\ visit = NextCharacter(t, n, i)
  <2> DEFINE m == Find(heap, n, t[i])
  <2>1. Lower(m) /\ visit = <<m, i + 1, FALSE>>
    BY <1>2, <1>5, <1>10 DEF NextCharacter
  <2> HIDE DEF m, Lower
  <2> QED
    BY <1>2, <1>3, <1>10, <2>1 DEF V
<1> QED
  BY <1>7, <1>8, <1>9, <1>10 DEF V

Visits(t) == (0..Len(heap)) \X (1..Len(t)) \X BOOLEAN

\* What a visit finds, given what the others find.
FoundFrom(found, t, visit) ==
    LET node == visit[1]
        i == visit[2]
        wildCards == found[PlusWildCard(t, node, i)] \o found[NumberSignWildCard(t, node)]
        mainBranch ==
            IF t[i] # EndMark
            THEN found[NextLevel(t, node, i)] \o found[NextCharacter(t, node, i)]
            ELSE IF i = Len(t) /\ Find(heap, node, EndMark) # NULL THEN <<node>>
            ELSE <<>>
    IN  IF node = NULL THEN <<>>
        ELSE IF visit[3] THEN wildCards \o mainBranch ELSE mainBranch

\* The solution of FindSubscribed.
Finds(t) == CHOOSE f : f = [visit \in Visits(t) |-> FoundFrom(f, t, visit)]

\* The recursive function of FindSubscribed has a solution.
LEMMA FindsSolved ==
    ASSUME NEW level, NEW rank, NEW K, Tree(heap, level, rank, K), NEW t, Marked(t)
    PROVE  /\ FindSubscribed(t) = Finds(t)
           /\ \A visit \in Visits(t) : /\ Finds(t)[visit] = FoundFrom(Finds(t), t, visit)
                                       /\ Finds(t)[visit] \in Seq(DOMAIN heap)
<1> DEFINE D == Visits(t)
           X == Seq(DOMAIN heap)
           over == [visit \in D |-> IF visit[1] = NULL THEN 0 ELSE rank[visit[1]] + 1]
           step == [visit \in D |-> [f \in [D -> X] |-> FoundFrom(f, t, visit)]]
           Calls(visit) == {PlusWildCard(t, visit[1], visit[2]), NumberSignWildCard(t, visit[1])}
                           \cup IF visit[2] = Len(t) THEN {}
                                ELSE {NextLevel(t, visit[1], visit[2]),
                                      NextCharacter(t, visit[1], visit[2])}
<1>1. /\ K \in Nat /\ rank \in [DOMAIN heap -> 0..K]
      /\ DOMAIN heap = 1..Len(heap) /\ Len(heap) \in Nat
  <2>1. heap \in Seq(Node) /\ K \in Nat /\ rank \in [DOMAIN heap -> 0..K]
    BY DEF Tree, Lists
  <2> QED
    BY <2>1
<1>2. /\ Len(t) \in Nat \ {0} /\ \A j \in 1..Len(t) : t[j] = EndMark <=> j = Len(t)
  BY MarkedTyped
<1>3. \A visit \in D : /\ visit[1] \in 0..Len(heap) /\ visit[2] \in 1..Len(t)
                       /\ visit[3] \in BOOLEAN
                       /\ visit[1] # NULL => visit[1] \in DOMAIN heap
  <2>1. \A visit \in D : /\ visit[1] \in 0..Len(heap) /\ visit[2] \in 1..Len(t)
                         /\ visit[3] \in BOOLEAN
    BY DEF Visits
  <2>2. \A m \in 0..Len(heap) : m # NULL => m \in DOMAIN heap
    BY <1>1 DEF NULL
  <2> QED
    BY <2>1, <2>2
<1>4. ASSUME NEW visit \in D, visit[1] # NULL, NEW call \in Calls(visit)
      PROVE  /\ call \in D
             /\ call[1] # NULL => call[1] \in DOMAIN heap /\ rank[call[1]] < rank[visit[1]]
  <2>1. \/ call = PlusWildCard(t, visit[1], visit[2])
        \/ call = NumberSignWildCard(t, visit[1])
        \/ visit[2] # Len(t) /\ call = NextLevel(t, visit[1], visit[2])
        \/ visit[2] # Len(t) /\ call = NextCharacter(t, visit[1], visit[2])
    BY <1>4
  <2>2. visit[1] \in DOMAIN heap /\ visit[2] \in 1..Len(t)
    BY <1>3, <1>4
  <2> DEFINE n == visit[1]
             i == visit[2]
  <2> HIDE DEF n, i, Calls
  <2>3. /\ call \in (0..Len(heap)) \X (1..Len(t)) \X BOOLEAN
        /\ call[1] # NULL => /\ call[1] \in Heads(heap) /\ call[1] \in DOMAIN heap
                             /\ rank[call[1]] < rank[n]
    <3>1. \/ call = PlusWildCard(t, n, i)
          \/ call = NumberSignWildCard(t, n)
          \/ i # Len(t) /\ call = NextLevel(t, n, i)
          \/ i # Len(t) /\ call = NextCharacter(t, n, i)
      BY <2>1 DEF n, i
    <3>2. n \in DOMAIN heap /\ i \in 1..Len(t)
      BY <2>2 DEF n, i
    <3> QED
      BY <3>1, <3>2, VisitsLower
  <2> QED
    BY <2>3 DEF n, Visits
<1>5. /\ K + 1 \in Nat /\ over \in [D -> 0..K + 1]
      /\ \A visit \in D : visit[1] # NULL => \A call \in Calls(visit) : over[call] < over[visit]
  <2>1. \A r \in 0..K : r + 1 \in 0..K + 1 /\ 0 \in 0..K + 1 /\ 0 < r + 1
    BY <1>1
  <2>2. \A n \in DOMAIN heap : rank[n] \in 0..K /\ rank[n] \in Nat
    BY <1>1
  <2>3. over \in [D -> 0..K + 1]
    <3>1. \A visit \in D : (IF visit[1] = NULL THEN 0 ELSE rank[visit[1]] + 1) \in 0..K + 1
      BY <1>1, <1>3, <2>1, <2>2
    <3> HIDE DEF D
    <3> QED
      BY <3>1
  <2>4. \A visit \in D : over[visit] = IF visit[1] = NULL THEN 0 ELSE rank[visit[1]] + 1
    <3> HIDE DEF D
    <3> QED
      OBVIOUS
  <2> HIDE DEF over, D, Calls
  <2>5. ASSUME NEW visit \in D, visit[1] # NULL, NEW call \in Calls(visit)
        PROVE  over[call] < over[visit]
    <3>1. /\ call \in D
          /\ call[1] # NULL => call[1] \in DOMAIN heap /\ rank[call[1]] < rank[visit[1]]
      BY <1>4, <2>5
    <3>2. visit[1] \in DOMAIN heap
      BY <1>3, <2>5
    <3> DEFINE q == rank[call[1]]
               r == rank[visit[1]]
    <3>3. over[visit] = r + 1 /\ r \in Nat
      BY <2>2, <2>4, <2>5, <3>2
    <3>4. call[1] # NULL => over[call] = q + 1 /\ q \in Nat /\ q < r
      BY <2>2, <2>4, <3>1
    <3>5. call[1] = NULL => over[call] = 0
      BY <2>4, <3>1
    <3> HIDE DEF q, r
    <3> QED
      BY <3>3, <3>4, <3>5
  <2> QED
    BY <1>1, <2>3, <2>5
<1>6. <<>> \in X /\ X # {} /\ (\A u, v \in X : u \o v \in X) /\ \A n \in DOMAIN heap : <<n>> \in X
  <2>1. <<>> \in X /\ X # {}
    <3>1. <<>> \in X
      BY EmptySeq
    <3> QED
      BY <3>1
  <2>2. \A u, v \in X : u \o v \in X
    OBVIOUS
  <2>3. \A n \in DOMAIN heap : <<n>> \in X
    BY Alone
  <2> QED
    BY <2>1, <2>2, <2>3
<1>7. ASSUME NEW visit \in D, NEW f,
             visit[1] # NULL => \A call \in Calls(visit) : f[call] \in X
      PROVE  FoundFrom(f, t, visit) \in X
  <2>1. CASE visit[1] = NULL
    BY <1>6, <2>1 DEF FoundFrom
  <2>2. CASE visit[1] # NULL
    <3> DEFINE n == visit[1]
               i == visit[2]
    <3>1. n \in DOMAIN heap /\ i \in 1..Len(t)
      BY <1>3, <2>2
    <3>2. f[PlusWildCard(t, n, i)] \in X /\ f[NumberSignWildCard(t, n)] \in X
      <4> HIDE DEF X
      <4> QED
        BY <1>7, <2>2
    <3>3. t[i] # EndMark => f[NextLevel(t, n, i)] \in X /\ f[NextCharacter(t, n, i)] \in X
      <4>1. t[i] # EndMark => i # Len(t)
        BY <1>2, <3>1
      <4> HIDE DEF X
      <4> QED
        BY <1>7, <2>2, <4>1
    <3> HIDE DEF X, Calls
    <3> QED
      BY <1>6, <2>2, <3>1, <3>2, <3>3 DEF FoundFrom
  <2> QED
    BY <2>1, <2>2
<1>8. \A visit \in D, f \in [D -> X] :
          FoundFrom(f, t, visit) \in X /\ step[visit][f] = FoundFrom(f, t, visit)
  <2>1. ASSUME NEW visit \in D, NEW f \in [D -> X] PROVE FoundFrom(f, t, visit) \in X
    <3> HIDE DEF D, X, Calls
    <3> QED
      BY <1>4, <1>7
  <2> HIDE DEF D, X
  <2> QED
    BY <2>1
<1>9. step \in [D -> [[D -> X] -> X]]
  <2> HIDE DEF X, D
  <2> QED
    BY <1>8
<1>10. ASSUME NEW visit \in D, NEW f, NEW g,
              visit[1] # NULL => \A call \in Calls(visit) : f[call] = g[call]
       PROVE  FoundFrom(f, t, visit) = FoundFrom(g, t, visit)
  <2>1. CASE visit[1] = NULL
    BY <2>1 DEF FoundFrom
  <2>2. CASE visit[1] # NULL
    <3> DEFINE n == visit[1]
               i == visit[2]
    <3>1. n \in DOMAIN heap /\ i \in 1..Len(t)
      BY <1>3, <2>2
    <3>2. /\ f[PlusWildCard(t, n, i)] = g[PlusWildCard(t, n, i)]
          /\ f[NumberSignWildCard(t, n)] = g[NumberSignWildCard(t, n)]
      BY <1>10, <2>2
    <3>3. t[i] # EndMark => /\ f[NextLevel(t, n, i)] = g[NextLevel(t, n, i)]
                            /\ f[NextCharacter(t, n, i)] = g[NextCharacter(t, n, i)]
      <4>1. t[i] # EndMark => i # Len(t)
        BY <1>2, <3>1
      <4> QED
        BY <1>10, <2>2, <4>1
    <3> HIDE DEF Calls
    <3> QED
      BY <3>2, <3>3 DEF FoundFrom
  <2> QED
    BY <2>1, <2>2
<1>11. LooksDown(D, X, over, step)
  <2> SUFFICES ASSUME NEW visit \in D, NEW f \in [D -> X], NEW g \in [D -> X],
                      \A e \in D : over[e] < over[visit] => f[e] = g[e]
               PROVE  step[visit][f] = step[visit][g]
    BY DEF LooksDown
  <2> HIDE DEF step, X, D, over, Calls
  <2>1. visit[1] # NULL => \A call \in Calls(visit) : f[call] = g[call]
    BY <1>4, <1>5
  <2>2. FoundFrom(f, t, visit) = FoundFrom(g, t, visit)
    BY <1>10, <2>1
  <2> QED
    BY <1>8, <2>2
<1>12. PICK f \in [D -> X] : \A visit \in D : f[visit] = step[visit][f]
  <2> HIDE DEF X, D, step, over
  <2>1. Solvable(D, X, step)
    BY <1>5, <1>6, <1>9, <1>11, RecursionSolved, Zenon
  <2> QED
    BY <2>1 DEF Solvable
<1>13. f = [visit \in D |-> FoundFrom(f, t, visit)]
  <2>1. \A visit \in D : f[visit] = FoundFrom(f, t, visit)
    <3> HIDE DEF X, D, step
    <3> QED
      BY <1>8, <1>12
  <2>2. f = [visit \in D |-> f[visit]]
    <3> HIDE DEF X, D
    <3> QED
      OBVIOUS
  <2> HIDE DEF X, D
  <2> QED
    BY <2>1, <2>2, Zenon
<1> DEFINE g == Finds(t)
<1>14. g = [visit \in D |-> FoundFrom(g, t, visit)]
  BY <1>13 DEF Finds
<1>15. FindSubscribed(t) = g
  BY DEF FindSubscribed, Finds, FoundFrom, Visits
<1> HIDE DEF g
<1>16. \A visit \in D : g[visit] = FoundFrom(g, t, visit)
  <2> HIDE DEF D
  <2> QED
    BY <1>14
<1>17. ASSUME NEW visit \in D PROVE g[visit] \in X
  <2> DEFINE Bad == {v \in D : g[v] \notin X}
  <2> SUFFICES ASSUME Bad # {} PROVE FALSE
    OBVIOUS
  <2>1. PICK v \in Bad : \A w \in Bad : over[v] <= over[w]
    <3>1. over \in [D -> Nat] /\ Bad \in SUBSET D
      <4> HIDE DEF over, D
      <4> QED
        BY <1>5
    <3> HIDE DEF Bad, D, over
    <3> QED
      BY <3>1, LowestRank
  <2>2. \A w \in D : over[w] \in Nat
    <3> HIDE DEF over, D
    <3> QED
      BY <1>5
  <2>3. v \in D /\ g[v] \notin X /\ \A w \in D : over[w] < over[v] => g[w] \in X
    <3>1. v \in D /\ g[v] \notin X
      OBVIOUS
    <3>2. \A w \in D : over[w] < over[v] => w \notin Bad
      <4> HIDE DEF over, D, Bad
      <4> QED
        BY <2>1, <2>2, <3>1
    <3> QED
      BY <3>1, <3>2
  <2> HIDE DEF over, D, X, Bad, Calls
  <2>4. v[1] # NULL => \A call \in Calls(v) : g[call] \in X
    BY <1>4, <1>5, <2>3
  <2>5. FoundFrom(g, t, v) \in X
    BY <1>7, <2>3, <2>4
  <2> QED
    BY <1>16, <2>3, <2>5
<1> QED
  BY <1>15, <1>16, <1>17 DEF g

\* The characters of a name or a /.
Plain == Characters \ {Plus, NumberSign}

\* No character of a topic is a wildcard.
LEMMA TopicsTyped ==
    ASSUME NEW topic \in Topics
    PROVE  /\ topic \in Seq(Seq(Plain)) /\ Len(topic) \in 1..MaxLevels
           /\ Chars(topic) \in Seq(Plain)
<1>1. PICK n \in 1..MaxLevels : topic \in [1..n -> FirstNames \cup LaterNames]
  BY DEF Topics, LevelsOver
<1>2. \A name \in FirstNames \cup LaterNames : name \in Seq(Plain)
  <2>1. \A name \in Seq(Nat \ {0, NumberSign, EndMark, Plus, Slash}) : name \in Seq(Plain)
    BY DEF Characters, Plain
  <2> QED
    BY <2>1, TrieAssumption
<1>3. topic \in [1..n -> Seq(Plain)]
  BY <1>1, <1>2
<1>4. n \in Nat /\ MaxLevels \in Nat
  BY TrieAssumption
<1>5. topic \in Seq(Seq(Plain)) /\ Len(topic) \in 1..MaxLevels
  BY <1>3, <1>4
<1>6. Slash \in Plain /\ topic # <<>> /\ Len(topic) \in 1..Len(topic)
  BY <1>5 DEF Slash, Plain, Characters, EndMark, Plus, NumberSign
<1> QED
  BY <1>5, <1>6, UptoDefined

\* What a visit of a head finds.
LEMMA FindsFrom ==
    ASSUME NEW level, NEW rank, NEW K, Tree(heap, level, rank, K), NEW t, Marked(t)
    PROVE  /\ \A i \in 1..Len(t), b \in BOOLEAN : Finds(t)[<<NULL, i, b>>] = <<>>
           /\ \A n \in Heads(heap), i \in 1..Len(t) :
                /\ Finds(t)[<<n, i, FALSE>>] =
                     IF i # Len(t)
                     THEN Finds(t)[NextLevel(t, n, i)] \o Finds(t)[NextCharacter(t, n, i)]
                     ELSE IF heap[n].character = EndMark THEN <<n>> ELSE <<>>
                /\ Finds(t)[<<n, i, TRUE>>] =
                     (Finds(t)[PlusWildCard(t, n, i)] \o Finds(t)[NumberSignWildCard(t, n)])
                     \o Finds(t)[<<n, i, FALSE>>]
<1> DEFINE g == Finds(t)
<1>1. /\ DOMAIN heap = 1..Len(heap) /\ Len(heap) \in Nat
      /\ \A n \in Heads(heap) : n # NULL /\ n \in DOMAIN heap
  <2>1. heap \in Seq(Node) /\ Lists(heap, level, rank, K)
    BY DEF Tree, Lists
  <2> QED
    BY <2>1, ListsTyped
<1>2. \A j \in 1..Len(t) : t[j] = EndMark <=> j = Len(t)
  BY MarkedTyped
<1>3. \A n \in Heads(heap) \cup {NULL}, i \in 1..Len(t), b \in BOOLEAN :
          g[<<n, i, b>>] = FoundFrom(g, t, <<n, i, b>>)
  <2>1. \A n \in Heads(heap) \cup {NULL}, i \in 1..Len(t), b \in BOOLEAN : <<n, i, b>> \in Visits(t)
    <3>1. \A n \in Heads(heap) \cup {NULL} : n \in 0..Len(heap)
      BY <1>1 DEF NULL
    <3> QED
      BY <3>1 DEF Visits
  <2> HIDE DEF g
  <2> QED
    BY <2>1, FindsSolved DEF g
<1> HIDE DEF g
<1>4. \A i \in 1..Len(t), b \in BOOLEAN : g[<<NULL, i, b>>] = <<>>
  <2>1. \A i \in 1..Len(t), b \in BOOLEAN : FoundFrom(g, t, <<NULL, i, b>>) = <<>>
    BY DEF FoundFrom
  <2> QED
    BY <1>3, <2>1
<1>5. ASSUME NEW n \in Heads(heap), NEW i \in 1..Len(t)
      PROVE  /\ g[<<n, i, FALSE>>] =
                     IF i # Len(t)
                     THEN g[NextLevel(t, n, i)] \o g[NextCharacter(t, n, i)]
                     ELSE IF heap[n].character = EndMark THEN <<n>> ELSE <<>>
             /\ g[<<n, i, TRUE>>] =
                     (g[PlusWildCard(t, n, i)] \o g[NumberSignWildCard(t, n)])
                     \o g[<<n, i, FALSE>>]
  <2> DEFINE main == IF t[i] # EndMark
                     THEN g[NextLevel(t, n, i)] \o g[NextCharacter(t, n, i)]
                     ELSE IF i = Len(t) /\ Find(heap, n, EndMark) # NULL THEN <<n>>
                     ELSE <<>>
             wild == g[PlusWildCard(t, n, i)] \o g[NumberSignWildCard(t, n)]
  <2>1. n # NULL /\ n \in DOMAIN heap
    BY <1>1
  <2>2. FoundFrom(g, t, <<n, i, FALSE>>) = main /\ FoundFrom(g, t, <<n, i, TRUE>>) = wild \o main
    BY <2>1 DEF FoundFrom
  <2>3. g[<<n, i, FALSE>>] = main /\ g[<<n, i, TRUE>>] = wild \o main
    <3> HIDE DEF main, wild
    <3> QED
      BY <1>3, <2>2
  <2>4. Find(heap, n, EndMark) = IF heap[n].character = EndMark THEN n ELSE NULL
    BY FindEnd
  <2> QED
    BY <1>2, <2>1, <2>3, <2>4
<1> QED
  BY <1>4, <1>5 DEF g

\* The call leads one character down, if anywhere.
Goes(level, rank, t, n, call, char) ==
    /\ call \in Visits(t)
    /\ call[1] # NULL => /\ call[1] \in Heads(heap) /\ rank[call[1]] < rank[n]
                         /\ level[call[1]] = Append(level[n], char)

\* Each call goes down along its character.
LEMMA Called ==
    ASSUME NEW level, NEW rank, NEW K, Tree(heap, level, rank, K), NEW t, Marked(t),
           NEW n \in Heads(heap), NEW i \in 1..Len(t)
    PROVE  /\ Goes(level, rank, t, n, PlusWildCard(t, n, i), Plus)
           /\ Goes(level, rank, t, n, NumberSignWildCard(t, n), NumberSign)
           /\ i # Len(t) =>
                /\ Goes(level, rank, t, n, NextLevel(t, n, i), Slash)
                /\ t[i] # Slash => NextLevel(t, n, i)[1] = NULL
                /\ Goes(level, rank, t, n, NextCharacter(t, n, i), t[i])
<1>1. n \in DOMAIN heap /\ NULL \notin DOMAIN heap
  <2>1. heap \in Seq(Node) /\ Lists(heap, level, rank, K)
    BY DEF Tree, Lists
  <2> QED
    BY <2>1, ListsTyped
<1>2. ASSUME NEW call, \/ call = PlusWildCard(t, n, i)
                       \/ call = NumberSignWildCard(t, n)
                       \/ i # Len(t) /\ call = NextLevel(t, n, i)
                       \/ i # Len(t) /\ call = NextCharacter(t, n, i)
      PROVE  /\ call \in Visits(t)
             /\ call[1] # NULL => call[1] \in Heads(heap) /\ rank[call[1]] < rank[n]
  BY <1>1, <1>2, VisitsLower DEF Visits
<1>3. Plus \in Characters /\ NumberSign \in Characters /\ Slash \in Characters
  BY DEF Plus, NumberSign, Slash, Characters, EndMark
<1>4. i # Len(t) => t[i] \in Characters
  BY MarkedTyped
<1>5. ASSUME NEW char \in Characters, Find(heap, n, char) # NULL
      PROVE  level[Find(heap, n, char)] = Append(level[n], char)
  BY <1>5, FindHead
<1>6. Goes(level, rank, t, n, PlusWildCard(t, n, i), Plus)
  <2> DEFINE plus == Find(heap, n, Plus)
             call == PlusWildCard(t, n, i)
  <2>1. plus # NULL => plus \in Heads(heap)
    BY <1>3, FindHead
  <2>2. plus # NULL => Find(heap, plus, EndMark) \in {plus, NULL}
    BY <2>1, FindEnd
  <2>3. call[1] # NULL => plus # NULL /\ call[1] = plus
    <3> DEFINE end == Find(heap, plus, EndMark)
    <3>1. \/ call[1] = NULL
          \/ plus # NULL /\ call[1] = plus
          \/ plus # NULL /\ call[1] = end
      BY DEF PlusWildCard, NoVisit
    <3>2. plus # NULL => end \in {plus, NULL}
      BY <2>2
    <3> HIDE DEF plus, call, end
    <3> QED
      BY <3>1, <3>2
  <2>4. call[1] # NULL => level[call[1]] = Append(level[n], Plus)
    <3> HIDE DEF call
    <3> QED
      BY <1>3, <1>5, <2>3
  <2> QED
    BY <1>2, <2>4 DEF Goes
<1>7. Goes(level, rank, t, n, NumberSignWildCard(t, n), NumberSign)
  <2> DEFINE call == NumberSignWildCard(t, n)
  <2>1. call[1] = Find(heap, n, NumberSign)
    BY DEF NumberSignWildCard
  <2>2. call[1] # NULL => level[call[1]] = Append(level[n], NumberSign)
    <3> HIDE DEF call
    <3> QED
      BY <1>3, <1>5, <2>1
  <2> QED
    BY <1>2, <2>2 DEF Goes
<1>8. ASSUME i # Len(t)
      PROVE  /\ Goes(level, rank, t, n, NextLevel(t, n, i), Slash)
             /\ t[i] # Slash => NextLevel(t, n, i)[1] = NULL
             /\ Goes(level, rank, t, n, NextCharacter(t, n, i), t[i])
  <2> DEFINE call == NextLevel(t, n, i)
             other == NextCharacter(t, n, i)
  <2>1. call = IF t[i] = Slash THEN <<Find(heap, n, Slash), i, TRUE>> ELSE <<NULL, 1, FALSE>>
    BY DEF NextLevel, NoVisit
  <2>2. other[1] = Find(heap, n, t[i])
    BY DEF NextCharacter
  <2>3. t[i] # Slash => call[1] = NULL
    BY <2>1
  <2>4. call[1] # NULL => level[call[1]] = Append(level[n], Slash)
    <3>1. call[1] # NULL => call[1] = Find(heap, n, Slash)
      BY <2>1
    <3> HIDE DEF call
    <3> QED
      BY <1>3, <1>5, <3>1
  <2>5. other[1] # NULL => level[other[1]] = Append(level[n], t[i])
    <3> HIDE DEF other
    <3> QED
      BY <1>4, <1>5, <1>8, <2>2
  <2> QED
    BY <1>2, <1>8, <2>3, <2>4, <2>5 DEF Goes
<1> QED
  BY <1>6, <1>7, <1>8

\* v is w with more behind it.
Begins(w, v) == Len(w) <= Len(v) /\ \A i \in 1..Len(w) : v[i] = w[i]

\* What begins with one character more begins with the rest.
LEMMA BeginsOn ==
    ASSUME NEW u \in Seq(Nat), NEW v \in Seq(Nat), NEW c \in Nat
    PROVE  /\ Begins(u, u)
           /\ Begins(Append(u, c), v) => Begins(u, v) /\ Len(u) < Len(v) /\ v[Len(u) + 1] = c
<1>1. /\ Len(Append(u, c)) = Len(u) + 1 /\ Append(u, c)[Len(u) + 1] = c
      /\ \A i \in 1..Len(u) : Append(u, c)[i] = u[i] /\ i \in 1..Len(u) + 1
      /\ Len(u) \in Nat /\ Len(v) \in Nat /\ Len(u) + 1 \in 1..Len(u) + 1
  OBVIOUS
<1>2. Begins(u, u)
  BY <1>1 DEF Begins
<1> DEFINE w == Append(u, c)
<1> HIDE DEF w
<1>3. ASSUME Begins(w, v) PROVE Begins(u, v) /\ Len(u) < Len(v) /\ v[Len(u) + 1] = c
  <2>1. /\ Len(w) = Len(u) + 1 /\ w[Len(u) + 1] = c
        /\ \A i \in 1..Len(u) : w[i] = u[i] /\ i \in 1..Len(u) + 1
    BY <1>1 DEF w
  <2> QED
    BY <1>1, <1>3, <2>1 DEF Begins
<1> QED
  BY <1>2, <1>3 DEF w

\* A head is below another one along a character.
Through(level, n, char, m) ==
    /\ m \in Heads(heap) /\ Begins(level[n], level[m])
    /\ Len(level[n]) < Len(level[m]) /\ level[m][Len(level[n]) + 1] = char

\* A visit finds nodes below its own.
FoundBelow(level, t, visit) ==
    \A m \in Range(Finds(t)[visit]) : m \in Heads(heap) /\ Begins(level[visit[1]], level[m])

\* What a call finds is below the node along its character.
LEMMA CalledBelow ==
    ASSUME NEW level, NEW rank, NEW K, Tree(heap, level, rank, K), NEW t, Marked(t),
           NEW n \in Heads(heap), NEW char \in Nat, NEW call,
           Goes(level, rank, t, n, call, char),
           call[1] # NULL => FoundBelow(level, t, call)
    PROVE  /\ Finds(t)[call] \in Seq(DOMAIN heap)
           /\ call[1] = NULL => Finds(t)[call] = <<>>
           /\ \A m \in Range(Finds(t)[call]) : Through(level, n, char, m)
<1>1. Finds(t)[call] \in Seq(DOMAIN heap)
  BY FindsSolved DEF Goes
<1>2. ASSUME call[1] = NULL PROVE Finds(t)[call] = <<>>
  <2>1. PICK i \in 1..Len(t), b \in BOOLEAN : call = <<call[1], i, b>>
    BY DEF Goes, Visits
  <2>2. call = <<NULL, i, b>>
    BY <1>2, <2>1
  <2> QED
    BY <2>2, FindsFrom
<1>3. ASSUME NEW m \in Range(Finds(t)[call]) PROVE Through(level, n, char, m)
  <2>1. CASE call[1] = NULL
    <3>1. Range(Finds(t)[call]) = {}
      BY <1>2, <2>1 DEF Range
    <3> QED
      BY <3>1
  <2>2. CASE call[1] # NULL
    <3> DEFINE u == level[n]
               v == level[m]
    <3>1. m \in Heads(heap) /\ level[call[1]] = Append(u, char) /\ Begins(level[call[1]], v)
      BY <1>3, <2>2 DEF Goes, FoundBelow
    <3>2. u \in Seq(Nat) /\ v \in Seq(Nat)
      BY <3>1, ListsTyped DEF Tree
    <3> HIDE DEF u, v
    <3>3. Begins(u, v) /\ Len(u) < Len(v) /\ v[Len(u) + 1] = char
      BY <3>1, <3>2, BeginsOn
    <3> QED
      BY <3>1, <3>3 DEF u, v, Through
  <2> QED
    BY <2>1, <2>2
<1> QED
  BY <1>1, <1>2, <1>3

\* Every visit finds nodes below its own only.
LEMMA FindsBelow ==
    ASSUME NEW level, NEW rank, NEW K, Tree(heap, level, rank, K), NEW t, Marked(t),
           NEW visit \in Visits(t), visit[1] \in Heads(heap)
    PROVE  FoundBelow(level, t, visit)
<1> DEFINE V == {v \in Visits(t) : v[1] \in Heads(heap)}
           Bad == {v \in V : ~FoundBelow(level, t, v)}
           over == [v \in V |-> rank[v[1]]]
<1> SUFFICES ASSUME Bad # {} PROVE FALSE
  OBVIOUS
<1>1. /\ \A n \in Heads(heap) : rank[n] \in Nat /\ n \in DOMAIN heap /\ n # NULL
                                /\ level[n] \in Seq(Nat)
  BY ListsTyped DEF Tree
<1>2. over \in [V -> Nat] /\ \A v \in V : over[v] = rank[v[1]]
  <2>1. \A v \in V : rank[v[1]] \in Nat
    BY <1>1
  <2> HIDE DEF V
  <2> QED
    BY <2>1
<1>3. PICK v \in Bad : \A w \in Bad : over[v] <= over[w]
  <2>1. Bad \in SUBSET V
    OBVIOUS
  <2> HIDE DEF V, over, Bad
  <2> QED
    BY <1>2, <2>1, LowestRank
<1>4. v \in V /\ ~FoundBelow(level, t, v)
  OBVIOUS
<1>5. ASSUME NEW w \in V, rank[w[1]] < rank[v[1]] PROVE FoundBelow(level, t, w)
  <2>1. over[w] < over[v] /\ over[w] \in Nat /\ over[v] \in Nat
    BY <1>2, <1>4, <1>5
  <2>2. ~FoundBelow(level, t, w) => w \in Bad
    BY <1>5
  <2> HIDE DEF over, Bad
  <2>3. w \notin Bad
    BY <1>3, <2>1
  <2> QED
    BY <2>2, <2>3
<1> HIDE DEF Bad, over
<1>6. PICK n \in Heads(heap), i \in 1..Len(t), b \in BOOLEAN : v = <<n, i, b>>
  BY <1>4 DEF Visits
<1>7. ASSUME NEW char \in Nat, NEW call, Goes(level, rank, t, n, call, char)
      PROVE  /\ Finds(t)[call] \in Seq(DOMAIN heap)
             /\ \A m \in Range(Finds(t)[call]) : m \in Heads(heap) /\ Begins(level[n], level[m])
  <2>1. call[1] # NULL => FoundBelow(level, t, call)
    BY <1>4, <1>5, <1>6, <1>7 DEF Goes
  <2> QED
    BY <1>7, <2>1, CalledBelow DEF Through
<1>8. /\ Plus \in Nat /\ NumberSign \in Nat /\ Slash \in Nat
      /\ \A j \in 1..Len(t) : t[j] \in Nat
  BY MarkedTyped DEF Plus, NumberSign, Slash
<1> DEFINE Right(s) == /\ s \in Seq(DOMAIN heap)
                       /\ \A m \in Range(s) : m \in Heads(heap) /\ Begins(level[n], level[m])
<1>9. ASSUME NEW u, NEW w, Right(u), Right(w) PROVE Right(u \o w)
  BY <1>9, Joined
<1>10. Right(<<n>>) /\ Right(<<>>)
  <2>1. Begins(level[n], level[n])
    BY <1>1, BeginsOn, 0 \in Nat
  <2> QED
    BY <1>1, <2>1, Alone
<1>11. Right(Finds(t)[<<n, i, FALSE>>])
  <2>1. CASE i # Len(t)
    <3>1. Right(Finds(t)[NextLevel(t, n, i)]) /\ Right(Finds(t)[NextCharacter(t, n, i)])
      BY <1>7, <1>8, <2>1, Called
    <3>2. Finds(t)[<<n, i, FALSE>>]
             = Finds(t)[NextLevel(t, n, i)] \o Finds(t)[NextCharacter(t, n, i)]
      BY <2>1, FindsFrom
    <3> HIDE DEF Right
    <3> QED
      BY <1>9, <3>1, <3>2
  <2>2. CASE i = Len(t)
    <3>1. Finds(t)[<<n, i, FALSE>>] = IF heap[n].character = EndMark THEN <<n>> ELSE <<>>
      BY <2>2, FindsFrom
    <3> HIDE DEF Right
    <3> QED
      BY <1>10, <3>1
  <2> QED
    BY <2>1, <2>2
<1>12. Right(Finds(t)[<<n, i, TRUE>>])
  <2>1. Right(Finds(t)[PlusWildCard(t, n, i)]) /\ Right(Finds(t)[NumberSignWildCard(t, n)])
    BY <1>7, <1>8, Called
  <2>2. Finds(t)[<<n, i, TRUE>>] =
            (Finds(t)[PlusWildCard(t, n, i)] \o Finds(t)[NumberSignWildCard(t, n)])
            \o Finds(t)[<<n, i, FALSE>>]
    BY FindsFrom
  <2> HIDE DEF Right
  <2> QED
    BY <1>9, <1>11, <2>1, <2>2
<1>13. FoundBelow(level, t, v)
  BY <1>6, <1>11, <1>12 DEF FoundBelow
<1> QED
  BY <1>4, <1>13

\* What one part of a visit finds.
LEMMA PartsBelow ==
    ASSUME NEW level, NEW rank, NEW K, Tree(heap, level, rank, K), NEW t, Marked(t),
           NEW n \in Heads(heap), NEW i \in 1..Len(t)
    PROVE  /\ \A b \in BOOLEAN : Finds(t)[<<n, i, b>>] \in Seq(DOMAIN heap)
           /\ Finds(t)[PlusWildCard(t, n, i)] \in Seq(DOMAIN heap)
           /\ \A m \in Range(Finds(t)[PlusWildCard(t, n, i)]) : Through(level, n, Plus, m)
           /\ Finds(t)[NumberSignWildCard(t, n)] \in Seq(DOMAIN heap)
           /\ \A m \in Range(Finds(t)[NumberSignWildCard(t, n)]) : Through(level, n, NumberSign, m)
           /\ i # Len(t) =>
                /\ Finds(t)[NextLevel(t, n, i)] \in Seq(DOMAIN heap)
                /\ \A m \in Range(Finds(t)[NextLevel(t, n, i)]) :
                      t[i] = Slash /\ Through(level, n, Slash, m)
                /\ Finds(t)[NextCharacter(t, n, i)] \in Seq(DOMAIN heap)
                /\ \A m \in Range(Finds(t)[NextCharacter(t, n, i)]) : Through(level, n, t[i], m)
           /\ \A m \in Range(Finds(t)[<<n, i, FALSE>>]) :
                m = n \/ (i # Len(t) /\ Through(level, n, t[i], m))
<1>1. /\ Plus \in Nat /\ NumberSign \in Nat /\ Slash \in Nat
      /\ \A j \in 1..Len(t) : t[j] \in Nat
  BY MarkedTyped DEF Plus, NumberSign, Slash
<1>2. ASSUME NEW char \in Nat, NEW call, Goes(level, rank, t, n, call, char)
      PROVE  /\ Finds(t)[call] \in Seq(DOMAIN heap)
             /\ call[1] = NULL => Finds(t)[call] = <<>>
             /\ \A m \in Range(Finds(t)[call]) : Through(level, n, char, m)
  <2>1. call[1] # NULL => FoundBelow(level, t, call)
    BY <1>2, FindsBelow DEF Goes
  <2> QED
    BY <1>2, <2>1, CalledBelow
<1>3. ASSUME NEW b \in BOOLEAN PROVE Finds(t)[<<n, i, b>>] \in Seq(DOMAIN heap)
  <2>1. n \in 0..Len(heap)
    BY ListsTyped DEF Tree
  <2>2. <<n, i, b>> \in Visits(t)
    BY <2>1 DEF Visits
  <2> QED
    BY <2>2, FindsSolved
<1>4. /\ Finds(t)[PlusWildCard(t, n, i)] \in Seq(DOMAIN heap)
      /\ \A m \in Range(Finds(t)[PlusWildCard(t, n, i)]) : Through(level, n, Plus, m)
  BY <1>1, <1>2, Called
<1>5. /\ Finds(t)[NumberSignWildCard(t, n)] \in Seq(DOMAIN heap)
      /\ \A m \in Range(Finds(t)[NumberSignWildCard(t, n)]) : Through(level, n, NumberSign, m)
  BY <1>1, <1>2, Called
<1>6. ASSUME i # Len(t)
      PROVE  /\ Finds(t)[NextLevel(t, n, i)] \in Seq(DOMAIN heap)
             /\ \A m \in Range(Finds(t)[NextLevel(t, n, i)]) :
                      t[i] = Slash /\ Through(level, n, Slash, m)
             /\ Finds(t)[NextCharacter(t, n, i)] \in Seq(DOMAIN heap)
             /\ \A m \in Range(Finds(t)[NextCharacter(t, n, i)]) : Through(level, n, t[i], m)
  <2>1. /\ Finds(t)[NextLevel(t, n, i)] \in Seq(DOMAIN heap)
        /\ \A m \in Range(Finds(t)[NextLevel(t, n, i)]) : Through(level, n, Slash, m)
        /\ NextLevel(t, n, i)[1] = NULL => Finds(t)[NextLevel(t, n, i)] = <<>>
    BY <1>1, <1>2, <1>6, Called
  <2>2. t[i] # Slash => Range(Finds(t)[NextLevel(t, n, i)]) = {}
    <3>1. t[i] # Slash => Finds(t)[NextLevel(t, n, i)] = <<>>
      BY <1>6, <2>1, Called
    <3>2. Range(<<>>) = {}
      BY DEF Range
    <3> QED
      BY <3>1, <3>2
  <2>3. /\ Finds(t)[NextCharacter(t, n, i)] \in Seq(DOMAIN heap)
        /\ \A m \in Range(Finds(t)[NextCharacter(t, n, i)]) : Through(level, n, t[i], m)
    BY <1>1, <1>2, <1>6, Called
  <2> QED
    BY <2>1, <2>2, <2>3
<1>7. ASSUME NEW m \in Range(Finds(t)[<<n, i, FALSE>>])
      PROVE  m = n \/ (i # Len(t) /\ Through(level, n, t[i], m))
  <2>1. CASE i # Len(t)
    <3> DEFINE u == Finds(t)[NextLevel(t, n, i)]
               v == Finds(t)[NextCharacter(t, n, i)]
    <3>1. Finds(t)[<<n, i, FALSE>>] = u \o v
      BY <2>1, FindsFrom
    <3>2. u \in Seq(DOMAIN heap) /\ v \in Seq(DOMAIN heap)
      BY <1>6, <2>1
    <3>3. \A x \in Range(u) \cup Range(v) : Through(level, n, t[i], x)
      BY <1>6, <2>1
    <3> HIDE DEF u, v
    <3>4. m \in Range(u) \cup Range(v)
      BY <1>7, <3>1, <3>2, Joined
    <3> QED
      BY <2>1, <3>3, <3>4
  <2>2. CASE i = Len(t)
    <3>1. Finds(t)[<<n, i, FALSE>>] = IF heap[n].character = EndMark THEN <<n>> ELSE <<>>
      BY <2>2, FindsFrom
    <3>2. Range(<<n>>) = {n} /\ Range(<<>>) = {}
      BY Alone
    <3> QED
      BY <1>7, <3>1, <3>2
  <2> QED
    BY <2>1, <2>2
<1> QED
  BY <1>3, <1>4, <1>5, <1>6, <1>7

\* The topic has no wildcards.
PlainTopic(t) == Marked(t) /\ \A i \in 1..Len(t) : t[i] \notin {Plus, NumberSign}

\* Without an empty level in the tree no visit finds a node twice.
LEMMA FindsOnce ==
    ASSUME NEW level, NEW rank, NEW K, Tree(heap, level, rank, K), NEW t, PlainTopic(t),
           ~EmptyLevelIn(heap), NEW visit \in Visits(t), visit[1] \in Heads(heap)
    PROVE  IsInjective(Finds(t)[visit])
<1> DEFINE V == {v \in Visits(t) : v[1] \in Heads(heap)}
           Bad == {v \in V : ~IsInjective(Finds(t)[v])}
           over == [v \in V |-> rank[v[1]]]
<1> SUFFICES ASSUME Bad # {} PROVE FALSE
  OBVIOUS
<1>0. Marked(t) /\ Plus # NumberSign
  BY DEF PlainTopic, Plus, NumberSign
<1>1. /\ \A n \in Heads(heap) : rank[n] \in Nat /\ n \in DOMAIN heap /\ n # NULL
                                /\ level[n] \in Seq(Nat)
  BY ListsTyped DEF Tree
<1>2. over \in [V -> Nat] /\ \A v \in V : over[v] = rank[v[1]]
  <2>1. \A v \in V : rank[v[1]] \in Nat
    BY <1>1
  <2> HIDE DEF V
  <2> QED
    BY <2>1
<1>3. PICK v \in Bad : \A w \in Bad : over[v] <= over[w]
  <2>1. Bad \in SUBSET V
    OBVIOUS
  <2> HIDE DEF V, over, Bad
  <2> QED
    BY <1>2, <2>1, LowestRank
<1>4. v \in V /\ ~IsInjective(Finds(t)[v])
  OBVIOUS
<1>5. ASSUME NEW w \in V, rank[w[1]] < rank[v[1]] PROVE IsInjective(Finds(t)[w])
  <2>1. over[w] < over[v] /\ over[w] \in Nat /\ over[v] \in Nat
    BY <1>2, <1>4, <1>5
  <2>2. ~IsInjective(Finds(t)[w]) => w \in Bad
    BY <1>5
  <2> HIDE DEF over, Bad
  <2>3. w \notin Bad
    BY <1>3, <2>1
  <2> QED
    BY <2>2, <2>3
<1> HIDE DEF Bad, over
<1>6. PICK n \in Heads(heap), i \in 1..Len(t), b \in BOOLEAN : v = <<n, i, b>>
  BY <1>4 DEF Visits
<1>7. ASSUME NEW char, NEW call, Goes(level, rank, t, n, call, char)
      PROVE  IsInjective(Finds(t)[call])
  <2>1. CASE call[1] = NULL
    <3>1. PICK j \in 1..Len(t), c \in BOOLEAN : call = <<call[1], j, c>>
      BY <1>7 DEF Goes, Visits
    <3>2. call = <<NULL, j, c>>
      BY <2>1, <3>1
    <3>3. Finds(t)[<<NULL, j, c>>] = <<>>
      BY <1>0, <3>1, FindsFrom
    <3>4. Finds(t)[call] = <<>>
      BY <3>2, <3>3
    <3> QED
      BY <3>4 DEF IsInjective
  <2>2. CASE call[1] # NULL
    BY <1>4, <1>5, <1>6, <1>7, <2>2 DEF Goes
  <2> QED
    BY <2>1, <2>2
<1>8. \A x, m, c, d : Through(level, x, c, m) /\ Through(level, x, d, m) => c = d
  BY DEF Through
<1>9. \A x \in Heads(heap) : \A c : ~Through(level, x, c, x)
  BY <1>1 DEF Through
<1>10. \A j \in 1..Len(t) : t[j] # Plus /\ t[j] # NumberSign
  BY DEF PlainTopic
<1>11. ASSUME i # Len(t), t[i] = Slash
       PROVE  Range(Finds(t)[NextLevel(t, n, i)]) \cap Range(Finds(t)[NextCharacter(t, n, i)]) = {}
  <2> DEFINE s == Find(heap, n, Slash)
  <2>1. NextLevel(t, n, i) = <<s, i, TRUE>> /\ NextCharacter(t, n, i) = <<s, i + 1, FALSE>>
    BY <1>11 DEF NextLevel, NextCharacter
  <2>2. i + 1 \in 1..Len(t)
    BY <1>0, <1>11, MarkedTyped
  <2>3. CASE s = NULL
    <3>1. Finds(t)[<<s, i, TRUE>>] = <<>>
      BY <1>0, <2>3, FindsFrom
    <3>2. Range(<<>>) = {}
      BY DEF Range
    <3> QED
      BY <2>1, <3>1, <3>2
  <2>4. CASE s # NULL
    <3>1. s \in Heads(heap)
      <4>1. Slash \in Characters
        BY DEF Slash, Characters, EndMark
      <4> QED
        BY <2>4, <4>1, FindHead
    <3>2. Find(heap, s, Slash) = NULL
      BY <1>1, <2>4 DEF EmptyLevelIn
    <3> HIDE DEF s
    <3>3. Finds(t)[<<s, i, FALSE>>] = <<>>
      <4>1. /\ NextLevel(t, s, i) = <<NULL, i, TRUE>>
            /\ NextCharacter(t, s, i) = <<NULL, i + 1, FALSE>>
        BY <1>11, <3>2 DEF NextLevel, NextCharacter
      <4>a. Finds(t)[<<NULL, i, TRUE>>] = <<>> /\ Finds(t)[<<NULL, i + 1, FALSE>>] = <<>>
        BY <1>0, <2>2, FindsFrom
      <4>2. Finds(t)[NextLevel(t, s, i)] = <<>> /\ Finds(t)[NextCharacter(t, s, i)] = <<>>
        BY <4>1, <4>a
      <4>3. Finds(t)[<<s, i, FALSE>>] = <<>> \o <<>>
        BY <1>0, <1>11, <3>1, <4>2, FindsFrom
      <4> QED
        BY <4>3
    <3> DEFINE p == Finds(t)[PlusWildCard(t, s, i)]
               q == Finds(t)[NumberSignWildCard(t, s)]
    <3>4. Finds(t)[<<s, i, TRUE>>] = (p \o q) \o <<>>
      BY <1>0, <3>1, <3>3, FindsFrom
    <3>5. /\ p \in Seq(DOMAIN heap) /\ q \in Seq(DOMAIN heap)
          /\ \A m \in Range(p) : Through(level, s, Plus, m)
          /\ \A m \in Range(q) : Through(level, s, NumberSign, m)
      BY <1>0, <3>1, PartsBelow
    <3> HIDE DEF p, q
    <3>6. Range(Finds(t)[<<s, i, TRUE>>]) = Range(p) \cup Range(q)
      <4>1. p \o q \in Seq(DOMAIN heap) /\ Range(p \o q) = Range(p) \cup Range(q)
        BY <3>5, Joined
      <4>2. (p \o q) \o <<>> = p \o q
        BY <4>1, ConcatEmptySeq
      <4> QED
        BY <3>4, <4>1, <4>2
    <3>7. \A m \in Range(Finds(t)[<<s, i + 1, FALSE>>]) :
             m = s \/ Through(level, s, t[i + 1], m)
      BY <1>0, <2>2, <3>1, PartsBelow
    <3>8. t[i + 1] # Plus /\ t[i + 1] # NumberSign
      BY <1>10, <2>2
    <3>9. Range(Finds(t)[<<s, i, TRUE>>]) \cap Range(Finds(t)[<<s, i + 1, FALSE>>]) = {}
      <4> SUFFICES ASSUME NEW m \in Range(Finds(t)[<<s, i, TRUE>>]),
                          m \in Range(Finds(t)[<<s, i + 1, FALSE>>])
                   PROVE  FALSE
        OBVIOUS
      <4>1. Through(level, s, Plus, m) \/ Through(level, s, NumberSign, m)
        BY <3>5, <3>6
      <4>2. m # s
        BY <1>9, <3>1, <4>1
      <4>3. Through(level, s, t[i + 1], m)
        BY <3>7, <4>2
      <4>4. t[i + 1] = Plus \/ t[i + 1] = NumberSign
        BY <1>8, <4>1, <4>3
      <4> QED
        BY <3>8, <4>4
    <3> QED
      BY <2>1, <3>9 DEF s
  <2> QED
    BY <2>3, <2>4
<1>12. IsInjective(Finds(t)[<<n, i, FALSE>>])
  <2>1. CASE i # Len(t)
    <3> DEFINE u == Finds(t)[NextLevel(t, n, i)]
               w == Finds(t)[NextCharacter(t, n, i)]
    <3>1. Finds(t)[<<n, i, FALSE>>] = u \o w
      BY <1>0, <2>1, FindsFrom
    <3>2. /\ u \in Seq(DOMAIN heap) /\ w \in Seq(DOMAIN heap)
          /\ \A m \in Range(u) : t[i] = Slash
      BY <1>0, <2>1, PartsBelow
    <3>3. IsInjective(u) /\ IsInjective(w)
      BY <1>0, <1>7, <2>1, Called
    <3>4. Range(u) \cap Range(w) = {}
      <4>1. t[i] = Slash => Range(u) \cap Range(w) = {}
        BY <1>11, <2>1
      <4> HIDE DEF u, w
      <4> QED
        BY <3>2, <4>1
    <3> HIDE DEF u, w
    <3> QED
      BY <3>1, <3>2, <3>3, <3>4, Joined
  <2>2. CASE i = Len(t)
    <3>1. Finds(t)[<<n, i, FALSE>>] = IF heap[n].character = EndMark THEN <<n>> ELSE <<>>
      BY <1>0, <2>2, FindsFrom
    <3> QED
      BY <3>1, Alone
  <2> QED
    BY <2>1, <2>2
<1>13. IsInjective(Finds(t)[<<n, i, TRUE>>])
  <2> DEFINE p == Finds(t)[PlusWildCard(t, n, i)]
             q == Finds(t)[NumberSignWildCard(t, n)]
             r == Finds(t)[<<n, i, FALSE>>]
  <2>1. Finds(t)[<<n, i, TRUE>>] = (p \o q) \o r
    BY <1>0, FindsFrom
  <2>2. /\ p \in Seq(DOMAIN heap) /\ q \in Seq(DOMAIN heap) /\ r \in Seq(DOMAIN heap)
        /\ \A m \in Range(p) : Through(level, n, Plus, m)
        /\ \A m \in Range(q) : Through(level, n, NumberSign, m)
        /\ \A m \in Range(r) : m = n \/ Through(level, n, t[i], m)
    BY <1>0, PartsBelow
  <2>3. IsInjective(p) /\ IsInjective(q) /\ IsInjective(r)
    BY <1>0, <1>7, <1>12, Called
  <2> HIDE DEF p, q, r
  <2>4. t[i] # Plus /\ t[i] # NumberSign
    BY <1>10
  <2>5. Range(p) \cap Range(q) = {}
    BY <1>0, <1>8, <2>2
  <2>6. (Range(p) \cup Range(q)) \cap Range(r) = {}
    BY <1>8, <1>9, <2>2, <2>4
  <2>7. p \o q \in Seq(DOMAIN heap) /\ Range(p \o q) = Range(p) \cup Range(q) /\ IsInjective(p \o q)
    BY <2>2, <2>3, <2>5, Joined
  <2> DEFINE u == p \o q
  <2>8. u \in Seq(DOMAIN heap) /\ IsInjective(u) /\ Range(u) \cap Range(r) = {}
    BY <2>6, <2>7
  <2> HIDE DEF u
  <2>9. IsInjective(u \o r)
    BY <2>2, <2>3, <2>8, Joined
  <2> QED
    BY <2>1, <2>9 DEF u
<1> QED
  BY <1>4, <1>6, <1>12, <1>13

\* The topics that are looked up.
LEMMA LookedUp ==
    ASSUME NEW level, NEW rank, NEW K, Tree(heap, level, rank, K), NEW topic \in Topics
    PROVE  LET t == Append(Chars(topic), EndMark) IN
           /\ PlainTopic(t) /\ <<Root, 1, TRUE>> \in Visits(t) /\ Root \in Heads(heap)
           /\ GetSubscribed(Chars(topic)) = Finds(t)[<<Root, 1, TRUE>>]
<1> DEFINE s == Chars(topic)
           t == Append(s, EndMark)
<1>1. s \in Seq(Plain)
  BY TopicsTyped
<1>2. s \in Seq(Characters) /\ \A i \in 1..Len(s) : s[i] \notin {Plus, NumberSign}
  <2> HIDE DEF s
  <2>1. \A i \in 1..Len(s) : s[i] \in Characters /\ s[i] \notin {Plus, NumberSign}
    BY <1>1 DEF Plain
  <2>2. Len(s) \in Nat /\ s = [i \in 1..Len(s) |-> s[i]]
    BY <1>1
  <2> QED
    BY <2>1, <2>2
<1> HIDE DEF s
<1>3. Marked(t)
  BY <1>2 DEF Marked
<1>4. \A i \in 1..Len(t) : t[i] \notin {Plus, NumberSign}
  <2>1. EndMark \notin {Plus, NumberSign}
    BY DEF EndMark, Plus, NumberSign
  <2>2. /\ Len(t) = Len(s) + 1 /\ Len(s) \in Nat /\ t[Len(s) + 1] = EndMark
        /\ \A i \in 1..Len(s) : t[i] = s[i]
    BY <1>2
  <2> HIDE DEF t
  <2>3. \A i \in 1..Len(t) : i = Len(s) + 1 \/ i \in 1..Len(s)
    BY <2>2
  <2> QED
    BY <1>2, <2>1, <2>2, <2>3
<1>5. Root \in Heads(heap) /\ Root \in DOMAIN heap
  BY DEF Tree, Heads
<1> HIDE DEF t
<1>6. <<Root, 1, TRUE>> \in Visits(t)
  <2>1. Root \in 0..Len(heap) /\ 1 \in 1..Len(t)
    BY <1>3, <1>5, ListsTyped, MarkedTyped DEF Tree
  <2> QED
    BY <2>1 DEF Visits
<1>7. GetSubscribed(s) = Finds(t)[<<Root, 1, TRUE>>]
  BY <1>3, FindsSolved DEF GetSubscribed, t
<1> QED
  BY <1>3, <1>4, <1>5, <1>6, <1>7 DEF PlainTopic, s, t

\* A client gets a publication as often as it has filters that match it: whatever the tree
\* holds, no filter is found along two branches, as long as none has an empty level inside.
THEOREM FindsEachOnce == Spec => []FoundOnce
<1>1. TrieInv => FoundOnce
  <2> SUFFICES ASSUME TrieInv, ~EmptyLevelIn(heap), NEW topic \in Topics
               PROVE  IsInjective(GetSubscribed(Chars(topic)))
    BY DEF FoundOnce
  <2>1. PICK level, rank, K : Tree(heap, level, rank, K)
    BY DEF TrieInv
  <2> DEFINE t == Append(Chars(topic), EndMark)
  <2>2. /\ PlainTopic(t) /\ <<Root, 1, TRUE>> \in Visits(t) /\ Root \in Heads(heap)
        /\ GetSubscribed(Chars(topic)) = Finds(t)[<<Root, 1, TRUE>>]
    BY <2>1, LookedUp
  <2> DEFINE visit == <<Root, 1, TRUE>>
  <2>3. visit[1] = Root
    OBVIOUS
  <2> HIDE DEF t, visit
  <2>4. IsInjective(Finds(t)[visit])
    BY <2>1, <2>2, <2>3, FindsOnce DEF visit
  <2> QED
    BY <2>2, <2>4 DEF visit
<1> QED
  BY TrieCorrect, <1>1, PTL

-----------------------------------------------------------------------------
(* The characters of a filter or a topic, level by level.                  *)

\* The characters of one level more.
LEMMA LevelAdded ==
    ASSUME NEW C, Slash \in C, NEW u \in Seq(C), NEW w \in Seq(C)
    PROVE  LET v == u \o <<Slash>> \o w IN
           /\ v \in Seq(C) /\ Len(v) = Len(u) + 1 + Len(w) /\ Begins(u, v)
           /\ v[Len(u) + 1] = Slash
           /\ \A x \in 1..Len(w) : v[Len(u) + 1 + x] = w[x]
<1> DEFINE a == u \o <<Slash>>
           v == a \o w
<1>1. /\ a \in Seq(C) /\ Len(a) = Len(u) + 1 /\ a[Len(u) + 1] = Slash
      /\ \A x \in 1..Len(u) : a[x] = u[x]
      /\ Len(u) \in Nat /\ Len(w) \in Nat
  OBVIOUS
<1> HIDE DEF a
<1>2. /\ v \in Seq(C) /\ Len(v) = Len(a) + Len(w)
      /\ \A x \in 1..Len(a) : v[x] = a[x]
      /\ \A x \in 1..Len(w) : v[Len(a) + x] = w[x]
  BY <1>1
<1> HIDE DEF v
<1>3. \A x \in 1..Len(u) + 1 : v[x] = a[x]
  BY <1>1, <1>2
<1>4. v[Len(u) + 1] = Slash /\ \A x \in 1..Len(u) : v[x] = u[x]
  BY <1>1, <1>3
<1> QED
  BY <1>1, <1>2, <1>4 DEF Begins, v, a

\* The number of characters in front of a level, and up to its end.
Start(levels, j) == IF j = 1 THEN 0 ELSE Len(Upto(levels)[j - 1]) + 1

Stop(levels, j) == Start(levels, j) + Len(levels[j])

\* The levels follow each other, with a / between them.
LEMMA Laid ==
    ASSUME NEW C, Slash \in C, NEW levels \in Seq(Seq(C)), levels # <<>>
    PROVE  /\ Chars(levels) \in Seq(C)
           /\ Start(levels, 1) = 0 /\ Stop(levels, Len(levels)) = Len(Chars(levels))
           /\ \A j \in 1..Len(levels) :
                /\ Start(levels, j) \in Nat /\ levels[j] \in Seq(C)
                /\ Stop(levels, j) = Start(levels, j) + Len(levels[j])
                /\ Stop(levels, j) <= Len(Chars(levels))
                /\ \A x \in 1..Len(levels[j]) : Chars(levels)[Start(levels, j) + x] = levels[j][x]
           /\ \A j \in 1..Len(levels) - 1 :
                /\ Chars(levels)[Stop(levels, j) + 1] = Slash
                /\ Start(levels, j + 1) = Stop(levels, j) + 1
                /\ Stop(levels, j) < Len(Chars(levels))
<1> DEFINE U == Upto(levels)
           n == Len(levels)
           s == Chars(levels)
<1>1. /\ n \in Nat \ {0} /\ 1 \in 1..n /\ n \in 1..n
      /\ \A j \in 1..n : levels[j] \in Seq(C) /\ Len(levels[j]) \in Nat
  OBVIOUS
<1>2. /\ U[1] = levels[1] /\ s = U[n]
      /\ \A j \in 2..n : U[j] = U[j - 1] \o <<Slash>> \o levels[j]
      /\ \A j \in 1..n : U[j] \in Seq(C) /\ Len(U[j]) \in Nat
  <2>1. /\ U[1] = levels[1] /\ s = U[n]
        /\ \A j \in 2..n : U[j] = U[j - 1] \o <<Slash>> \o levels[j]
        /\ \A j \in 1..n : U[j] \in Seq(C)
    BY UptoDefined
  <2> HIDE DEF U, s, n
  <2>2. \A j \in 1..n : Len(U[j]) \in Nat
    BY <2>1
  <2> QED
    BY <2>1, <2>2
<1> DEFINE St(j) == IF j = 1 THEN 0 ELSE Len(U[j - 1]) + 1
<1>3. \A j \in 1..n : Start(levels, j) = St(j) /\ Stop(levels, j) = St(j) + Len(levels[j])
  BY DEF Start, Stop
<1> HIDE DEF U, n, s
<1>4. ASSUME NEW j \in 1..n - 1
      PROVE  /\ j \in 1..n /\ j + 1 \in 1..n /\ Begins(U[j], U[j + 1])
             /\ Len(U[j + 1]) = Len(U[j]) + 1 + Len(levels[j + 1])
             /\ U[j + 1][Len(U[j]) + 1] = Slash
             /\ \A x \in 1..Len(levels[j + 1]) : U[j + 1][Len(U[j]) + 1 + x] = levels[j + 1][x]
  <2>1. j \in 1..n /\ j + 1 \in 1..n /\ j + 1 \in 2..n /\ (j + 1) - 1 = j
    BY <1>1
  <2>2. U[j + 1] = U[j] \o <<Slash>> \o levels[j + 1]
    BY <1>2, <2>1
  <2>3. U[j] \in Seq(C) /\ levels[j + 1] \in Seq(C)
    BY <1>1, <1>2, <2>1
  <2> DEFINE u == U[j]
             w == levels[j + 1]
             v == U[j + 1]
  <2> HIDE DEF u, w, v
  <2>4. v = u \o <<Slash>> \o w /\ u \in Seq(C) /\ w \in Seq(C)
    BY <2>2, <2>3 DEF u, w, v
  <2>5. /\ Len(v) = Len(u) + 1 + Len(w) /\ Begins(u, v) /\ v[Len(u) + 1] = Slash
        /\ \A x \in 1..Len(w) : v[Len(u) + 1 + x] = w[x]
    BY <2>4, LevelAdded
  <2> QED
    BY <2>1, <2>5 DEF u, w, v
<1>5. \A j \in 1..n : Begins(U[j], s)
  <2> DEFINE T == {d \in 0..n - 1 : Begins(U[n - d], s)}
  <2>1. 0 \in T
    BY <1>1, <1>2 DEF Begins
  <2>2. ASSUME NEW d \in 0..(n - 1) - 1, d \in T PROVE d + 1 \in T
    <3>1. n - (d + 1) \in 1..n - 1 /\ (n - (d + 1)) + 1 = n - d /\ n - d \in 1..n
          /\ n - (d + 1) \in 1..n /\ d + 1 \in 0..n - 1
      BY <1>1
    <3> DEFINE j == n - (d + 1)
    <3> HIDE DEF j
    <3>2. Begins(U[j], U[j + 1]) /\ Begins(U[j + 1], s)
      BY <1>4, <2>2, <3>1 DEF j
    <3>3. Len(U[j]) \in Nat /\ Len(U[j + 1]) \in Nat /\ Len(s) \in Nat
      BY <1>1, <1>2, <3>1 DEF j
    <3>4. Begins(U[j], s)
      BY <3>2, <3>3 DEF Begins
    <3> QED
      BY <3>1, <3>4 DEF j
  <2>3. T = 0..n - 1
    <3>1. T \in SUBSET (0..n - 1) /\ n - 1 \in Nat
      BY <1>1
    <3> HIDE DEF T
    <3> QED
      BY <2>1, <2>2, <3>1, Climb
  <2>4. ASSUME NEW j \in 1..n PROVE Begins(U[j], s)
    <3>1. n - j \in 0..n - 1 /\ n - (n - j) = j
      BY <1>1
    <3>2. n - j \in T
      BY <2>3, <3>1
    <3> QED
      BY <3>1, <3>2
  <2> QED
    BY <2>4
<1>6. ASSUME NEW j \in 1..n
      PROVE  /\ St(j) \in Nat /\ Len(U[j]) = St(j) + Len(levels[j])
             /\ \A x \in 1..Len(levels[j]) : U[j][St(j) + x] = levels[j][x]
  <2>1. CASE j = 1
    BY <1>1, <1>2, <2>1
  <2>2. CASE j # 1
    <3>1. j - 1 \in 1..n - 1 /\ (j - 1) + 1 = j /\ j - 1 \in 1..n
      BY <1>1, <2>2
    <3> DEFINE i == j - 1
    <3>2. /\ Len(U[j]) = Len(U[i]) + 1 + Len(levels[j])
          /\ \A x \in 1..Len(levels[j]) : U[j][Len(U[i]) + 1 + x] = levels[j][x]
      BY <1>4, <3>1
    <3>3. Len(U[i]) \in Nat
      BY <1>2, <3>1
    <3> QED
      BY <2>2, <3>2, <3>3
  <2> QED
    BY <2>1, <2>2
<1>7. ASSUME NEW j \in 1..n
      PROVE  /\ St(j) + Len(levels[j]) <= Len(s)
             /\ \A x \in 1..Len(levels[j]) : s[St(j) + x] = levels[j][x]
  <2>1. /\ St(j) \in Nat /\ Len(U[j]) = St(j) + Len(levels[j]) /\ Len(levels[j]) \in Nat
        /\ \A x \in 1..Len(levels[j]) : U[j][St(j) + x] = levels[j][x]
    BY <1>1, <1>6
  <2>2. Begins(U[j], s)
    BY <1>5
  <2> HIDE DEF St
  <2>3. \A x \in 1..Len(levels[j]) : St(j) + x \in 1..Len(U[j])
    BY <2>1
  <2> QED
    BY <2>1, <2>2, <2>3 DEF Begins
<1>8. ASSUME NEW j \in 1..n - 1
      PROVE  /\ s[St(j) + Len(levels[j]) + 1] = Slash
             /\ St(j + 1) = St(j) + Len(levels[j]) + 1
             /\ St(j) + Len(levels[j]) < Len(s)
  <2>1. /\ j \in 1..n /\ j + 1 \in 1..n /\ j + 1 # 1 /\ (j + 1) - 1 = j
    BY <1>1
  <2>2. /\ Len(U[j]) = St(j) + Len(levels[j]) /\ Len(U[j]) \in Nat /\ Len(U[j + 1]) \in Nat
        /\ Len(levels[j + 1]) \in Nat
    BY <1>1, <1>2, <1>6, <2>1
  <2>3. St(j + 1) = Len(U[j]) + 1
    BY <2>1
  <2>4. Len(U[j + 1]) = Len(U[j]) + 1 + Len(levels[j + 1]) /\ U[j + 1][Len(U[j]) + 1] = Slash
    BY <1>4
  <2>5. Begins(U[j + 1], s) /\ Len(s) \in Nat
    BY <1>1, <1>2, <1>5, <2>1
  <2>a. Len(U[j + 1]) <= Len(s)
    BY <2>5 DEF Begins
  <2>6. Len(U[j]) + 1 \in 1..Len(U[j + 1]) /\ Len(U[j]) < Len(s)
    <3> DEFINE a == Len(U[j])
               b == Len(U[j + 1])
               c == Len(levels[j + 1])
               d == Len(s)
    <3>1. a \in Nat /\ b \in Nat /\ c \in Nat /\ d \in Nat /\ b = a + 1 + c /\ b <= d
      BY <2>2, <2>4, <2>5, <2>a
    <3> HIDE DEF a, b, c, d
    <3>2. a + 1 \in 1..b /\ a < d
      BY <3>1
    <3> QED
      BY <3>2 DEF a, b, d
  <2>7. s[Len(U[j]) + 1] = Slash
    BY <2>4, <2>5, <2>6 DEF Begins
  <2> QED
    BY <2>2, <2>3, <2>6, <2>7
<1>9. s \in Seq(C) /\ St(1) = 0 /\ St(n) + Len(levels[n]) = Len(s)
  BY <1>1, <1>2, <1>6
<1>10. \A j \in 1..n - 1 : j \in 1..n /\ j + 1 \in 1..n
  BY <1>1
<1> HIDE DEF St
<1>11. /\ Start(levels, 1) = 0 /\ Stop(levels, n) = Len(s)
       /\ \A j \in 1..n : Start(levels, j) = St(j) /\ Stop(levels, j) = St(j) + Len(levels[j])
       /\ \A j \in 1..n - 1 : Start(levels, j + 1) = St(j + 1)
                              /\ Stop(levels, j) = St(j) + Len(levels[j])
  BY <1>1, <1>3, <1>9, <1>10
<1>12. ASSUME NEW j \in 1..n
       PROVE  /\ Start(levels, j) \in Nat /\ levels[j] \in Seq(C)
              /\ Stop(levels, j) = Start(levels, j) + Len(levels[j])
              /\ Stop(levels, j) <= Len(s)
              /\ \A x \in 1..Len(levels[j]) : s[Start(levels, j) + x] = levels[j][x]
  <2>1. St(j) \in Nat
    BY <1>6
  <2> QED
    BY <1>1, <1>7, <1>11, <2>1
<1>13. ASSUME NEW j \in 1..n - 1
       PROVE  /\ s[Stop(levels, j) + 1] = Slash
              /\ Start(levels, j + 1) = Stop(levels, j) + 1
              /\ Stop(levels, j) < Len(s)
  BY <1>8, <1>11
<1> QED
  BY <1>9, <1>11, <1>12, <1>13 DEF s, n

-----------------------------------------------------------------------------
(* The rule, one level at a time.                                          *)

\* The readings of a filter from each of its levels on.
ReadFrom(filter) ==
    CHOOSE f : f = [i \in 1..Len(filter) + 1 |->
        IF i > Len(filter) THEN {<<>>}
        ELSE {<<filter[i]>> \o rest : rest \in f[i + 1]}
               \cup (IF filter[i] = <<>> /\ i < Len(filter) THEN f[i + 1] ELSE {})]

\* The recursive function of Readings has a solution.
LEMMA ReadFromDefined ==
    ASSUME NEW C, NEW filter \in Seq(Seq(C)), filter # <<>>
    PROVE  /\ Readings(filter) = ReadFrom(filter)[1]
           /\ ReadFrom(filter)[Len(filter) + 1] = {<<>>}
           /\ \A i \in 1..Len(filter) :
                ReadFrom(filter)[i] =
                  {<<filter[i]>> \o rest : rest \in ReadFrom(filter)[i + 1]}
                    \cup (IF filter[i] = <<>> /\ i < Len(filter)
                          THEN ReadFrom(filter)[i + 1] ELSE {})
           /\ \A i \in 1..Len(filter) + 1 : ReadFrom(filter)[i] \subseteq Seq(Seq(C))
           /\ \A i \in 1..Len(filter) : <<>> \notin ReadFrom(filter)[i]
<1> DEFINE L == Len(filter)
           D == 1..L + 1
           W == Seq(Seq(C))
           X == SUBSET W
           rank == [i \in D |-> L + 1 - i]
           Here(i, set) == {<<filter[i]>> \o rest : rest \in set}
                             \cup (IF filter[i] = <<>> /\ i < L THEN set ELSE {})
           Step(g, i) == IF i > L THEN {<<>>} ELSE Here(i, g[i + 1])
           step == [i \in D |-> [f \in [D -> X] |-> Step(f, i)]]
<1>1. L \in Nat \ {0} /\ \A i \in 1..L : filter[i] \in Seq(C)
  OBVIOUS
<1>2. \A i \in D : i > L \/ (i \in 1..L /\ i + 1 \in D)
  BY <1>1
<1>3. \A i \in 1..L, set \in X : Here(i, set) \in X
  <2>1. \A i \in 1..L, rest \in W : <<filter[i]>> \o rest \in W
    BY <1>1
  <2> HIDE DEF W, L
  <2> QED
    BY <2>1
<1>4. {<<>>} \in X
  OBVIOUS
<1> HIDE DEF W, Here
<1>5. step \in [D -> [[D -> X] -> X]]
  <2>1. ASSUME NEW i \in D, NEW f \in [D -> X] PROVE Step(f, i) \in X
    BY <1>2, <1>3, <1>4
  <2> HIDE DEF Step, D, X
  <2> QED
    BY <2>1
<1>6. \A i \in D, f \in [D -> X] : step[i][f] = Step(f, i)
  <2> HIDE DEF Step, D, X
  <2> QED
    OBVIOUS
<1>7. /\ rank \in [D -> 0..L] /\ L \in Nat
      /\ \A i \in D : ~(i > L) => rank[i + 1] < rank[i]
  <2>1. \A i \in D : L + 1 - i \in 0..L
    BY <1>1
  <2>2. \A i \in D : rank[i] = L + 1 - i
    OBVIOUS
  <2>3. rank \in [D -> 0..L]
    BY <2>1
  <2>4. ASSUME NEW i \in D, ~(i > L) PROVE rank[i + 1] < rank[i]
    <3>1. i + 1 \in D
      BY <1>2, <2>4
    <3>2. L + 1 - (i + 1) < L + 1 - i
      BY <1>1
    <3> QED
      BY <2>2, <3>1, <3>2
  <2> QED
    BY <1>1, <2>3, <2>4
<1>8. LooksDown(D, X, rank, step)
  <2> SUFFICES ASSUME NEW i \in D, NEW f \in [D -> X], NEW g \in [D -> X],
                      \A e \in D : rank[e] < rank[i] => f[e] = g[e]
               PROVE  step[i][f] = step[i][g]
    BY DEF LooksDown
  <2>1. ~(i > L) => f[i + 1] = g[i + 1]
    BY <1>2, <1>7
  <2>2. Step(f, i) = Step(g, i)
    BY <2>1
  <2> HIDE DEF X, D, step, Step
  <2> QED
    BY <1>6, <2>2
<1>9. PICK f \in [D -> X] : \A i \in D : f[i] = step[i][f]
  <2> HIDE DEF X, D, step, rank, L
  <2>1. Solvable(D, X, step)
    BY <1>4, <1>5, <1>7, <1>8, RecursionSolved, Zenon
  <2> QED
    BY <2>1 DEF Solvable
<1>10. f = [i \in D |-> Step(f, i)]
  <2>1. \A i \in D : f[i] = Step(f, i)
    <3> HIDE DEF X, D, step, Step
    <3> QED
      BY <1>6, <1>9
  <2>2. f = [i \in D |-> f[i]]
    OBVIOUS
  <2> HIDE DEF Step, X, D
  <2> QED
    BY <2>1, <2>2, Zenon
<1> DEFINE g == ReadFrom(filter)
<1>11. g = [i \in D |-> Step(g, i)]
  BY <1>10 DEF ReadFrom, Here
<1>12. Readings(filter) = g[1]
  BY DEF Readings, ReadFrom
<1> HIDE DEF g
<1>13. \A i \in D : g[i] = Step(g, i)
  <2> HIDE DEF Step, D
  <2> QED
    BY <1>11
<1>14. g[L + 1] = {<<>>} /\ \A i \in 1..L : g[i] = Here(i, g[i + 1])
  <2>1. L + 1 \in D /\ L + 1 > L /\ \A i \in 1..L : i \in D /\ ~(i > L)
    BY <1>1
  <2> HIDE DEF D, L
  <2> QED
    BY <1>13, <2>1
<1>15. \A i \in 1..L : i + 1 \in D /\ i \in D
  BY <1>1
<1>16. \A i \in D : g[i] \in X
  <2> DEFINE T == {d \in 0..L : g[L + 1 - d] \in X}
  <2>1. 0 \in T
    BY <1>1, <1>4, <1>14
  <2>2. ASSUME NEW d \in 0..L - 1, d \in T PROVE d + 1 \in T
    <3>1. /\ L + 1 - (d + 1) \in 1..L /\ (L + 1 - (d + 1)) + 1 = L + 1 - d
          /\ d + 1 \in 0..L
      BY <1>1
    <3> DEFINE i == L + 1 - (d + 1)
    <3> HIDE DEF i
    <3>2. i \in 1..L /\ g[i + 1] \in X
      BY <2>2, <3>1 DEF i
    <3>3. g[i] = Here(i, g[i + 1])
      BY <1>14, <3>2
    <3>4. Here(i, g[i + 1]) \in X
      <4> HIDE DEF X
      <4> QED
        BY <1>3, <3>2
    <3>5. g[i] \in X
      BY <3>3, <3>4
    <3> QED
      BY <3>1, <3>5 DEF i
  <2>3. T = 0..L
    <3>1. T \in SUBSET (0..L) /\ L \in Nat
      BY <1>1
    <3> HIDE DEF T
    <3> QED
      BY <2>1, <2>2, <3>1, Climb
  <2>4. ASSUME NEW i \in D PROVE g[i] \in X
    <3>1. L + 1 - i \in 0..L /\ L + 1 - (L + 1 - i) = i
      BY <1>1
    <3>2. L + 1 - i \in T
      BY <2>3, <3>1
    <3> QED
      BY <3>1, <3>2
  <2> QED
    BY <2>4
<1>17. \A i \in 1..L : <<>> \notin g[i]
  <2> DEFINE Bad == {d \in 0..L - 1 : <<>> \in g[L - d]}
  <2> SUFFICES ASSUME Bad # {} PROVE FALSE
    <3>1. ASSUME NEW i \in 1..L, <<>> \in g[i] PROVE Bad # {}
      <4>1. L - i \in 0..L - 1 /\ L - (L - i) = i
        BY <1>1
      <4> QED
        BY <3>1, <4>1
    <3> QED
      BY <3>1
  <2>1. PICK d \in Bad : \A e \in Bad : d <= e
    <3>1. Bad \subseteq Nat
      BY <1>1
    <3> HIDE DEF Bad
    <3> QED
      BY <3>1, LeastNatural
  <2> DEFINE i == L - d
  <2>2. i \in 1..L /\ <<>> \in g[i] /\ d \in 0..L - 1
    BY <1>1
  <2>3. \A rest \in W : <<filter[i]>> \o rest # <<>>
    BY <1>1, <2>2 DEF W
  <2>4. g[i + 1] \subseteq W
    BY <1>15, <1>16, <2>2
  <2>5. i < L /\ <<>> \in g[i + 1]
    <3> DEFINE set == g[i + 1]
    <3>1. set \subseteq W
      BY <2>4
    <3>2. g[i] = Here(i, set)
      BY <1>14, <2>2
    <3> HIDE DEF i, set
    <3>3. <<>> \in Here(i, set)
      BY <2>2, <3>2
    <3>4. \A rest \in set : <<filter[i]>> \o rest # <<>>
      BY <2>3, <3>1
    <3>5. i < L /\ <<>> \in set
      BY <3>3, <3>4 DEF Here
    <3> QED
      BY <3>5 DEF set
  <2>6. d - 1 \in 0..L - 1 /\ L - (d - 1) = i + 1 /\ d - 1 < d
    BY <1>1, <2>2, <2>5
  <2>7. d - 1 \in Bad
    BY <2>5, <2>6
  <2> HIDE DEF Bad
  <2> QED
    BY <1>1, <2>1, <2>2, <2>6, <2>7
<1> QED
  BY <1>12, <1>14, <1>16, <1>17 DEF g, Here, W

\* A reading matches the levels of a topic from the k-th on.
MatchesAt(reading, topic, k) ==
    LET fits(i) == reading[i] = <<Plus>> \/ reading[i] = topic[k + i - 1] IN
    \/ k + Len(reading) - 1 = Len(topic) /\ \A i \in 1..Len(reading) : fits(i)
    \/ /\ reading[Len(reading)] = <<NumberSign>> /\ k + Len(reading) - 1 <= Len(topic)
       /\ \A i \in 1..Len(reading) - 1 : fits(i)

\* The first level is matched, and the others match the levels behind it.
LEMMA MatchesOn ==
    ASSUME NEW S, NEW a \in S, NEW r \in Seq(S), NEW topic \in Seq(S), NEW k \in 1..Len(topic)
    PROVE  LET fits == a = <<Plus>> \/ a = topic[k] IN
           MatchesAt(<<a>> \o r, topic, k) <=>
              IF r = <<>> THEN (fits /\ k = Len(topic)) \/ a = <<NumberSign>>
              ELSE fits /\ k < Len(topic) /\ MatchesAt(r, topic, k + 1)
<1> DEFINE w == <<a>> \o r
           fits(i) == w[i] = <<Plus>> \/ w[i] = topic[k + i - 1]
           later(i) == r[i] = <<Plus>> \/ r[i] = topic[(k + 1) + i - 1]
           n == Len(r)
           p == Len(topic)
<1>1. /\ Len(w) = n + 1 /\ w[1] = a /\ n \in Nat /\ p \in Nat /\ k \in 1..p
      /\ \A i \in 1..n : w[i + 1] = r[i]
  OBVIOUS
<1>2. n = 0 <=> r = <<>>
  OBVIOUS
<1> HIDE DEF w, n, p
<1>3. fits(1) <=> a = <<Plus>> \/ a = topic[k]
  BY <1>1
<1>4. \A i \in 1..n : fits(i + 1) <=> later(i)
  <2>1. \A i \in 1..n : k + (i + 1) - 1 = (k + 1) + i - 1
    BY <1>1
  <2> QED
    BY <1>1, <2>1
<1> HIDE DEF fits, later
<1>5. MatchesAt(w, topic, k) <=>
         \/ k + (n + 1) - 1 = p /\ \A i \in 1..n + 1 : fits(i)
         \/ w[n + 1] = <<NumberSign>> /\ k + (n + 1) - 1 <= p /\ \A i \in 1..(n + 1) - 1 : fits(i)
  BY <1>1 DEF MatchesAt, fits, p
<1>6. MatchesAt(r, topic, k + 1) <=>
         \/ (k + 1) + n - 1 = p /\ \A i \in 1..n : later(i)
         \/ r[n] = <<NumberSign>> /\ (k + 1) + n - 1 <= p /\ \A i \in 1..n - 1 : later(i)
  BY DEF MatchesAt, later, p, n
<1>7. \A m \in 0..n : (\A i \in 1..m + 1 : fits(i)) <=> fits(1) /\ \A i \in 1..m : later(i)
  <2> TAKE m \in 0..n
  <2>1. m \in Nat /\ \A i \in 1..m : i \in 1..n /\ i + 1 \in 1..m + 1
    BY <1>1
  <2>2. \A i \in 1..m + 1 : i = 1 \/ (i - 1 \in 1..m /\ (i - 1) + 1 = i)
    BY <2>1
  <2>3. 1 \in 1..m + 1
    BY <2>1
  <2> QED
    BY <1>4, <2>1, <2>2, <2>3
<1>8. CASE n = 0
  <2>1. k + (n + 1) - 1 = k /\ (n + 1) - 1 = 0 /\ k <= p
    BY <1>1, <1>8
  <2>2. \A i \in 1..0 : FALSE
    OBVIOUS
  <2>3. (\A i \in 1..n + 1 : fits(i)) <=> fits(1)
    BY <1>8
  <2> QED
    BY <1>1, <1>2, <1>3, <1>5, <1>8, <2>1, <2>2, <2>3 DEF w, p
<1>9. CASE n # 0
  <2>1. /\ k + (n + 1) - 1 = (k + 1) + n - 1 /\ (n + 1) - 1 = (n - 1) + 1
        /\ n - 1 \in 0..n /\ n \in 0..n /\ n \in 1..n
        /\ (k + 1) + n - 1 <= p => k < p
    BY <1>1, <1>9
  <2>2. w[n + 1] = r[n]
    BY <1>1, <2>1
  <2>3. /\ (\A i \in 1..n + 1 : fits(i)) <=> fits(1) /\ \A i \in 1..n : later(i)
        /\ (\A i \in 1..(n - 1) + 1 : fits(i)) <=> fits(1) /\ \A i \in 1..n - 1 : later(i)
    BY <1>7, <2>1
  <2>4. (k + 1) + n - 1 = p => (k + 1) + n - 1 <= p
    BY <1>1
  <2>5. MatchesAt(w, topic, k) <=> fits(1) /\ k < p /\ MatchesAt(r, topic, k + 1)
    BY <1>5, <1>6, <2>1, <2>2, <2>3, <2>4
  <2> QED
    BY <1>2, <1>3, <1>9, <2>5 DEF w, p
<1> QED
  BY <1>8, <1>9

\* The characters of a name.
Ordinary == Nat \ {0, NumberSign, EndMark, Plus, Slash}

\* The levels of filters and topics.
LEMMA FiltersTyped ==
    ASSUME NEW f \in Filters
    PROVE  /\ f \in Seq(Seq(Characters)) /\ Len(f) \in Nat \ {0} /\ f[1] # <<>>
           /\ \A j \in 1..Len(f) : /\ f[j] \in Seq(Ordinary) \cup WildCards
                                   /\ f[j] = <<NumberSign>> => j = Len(f)
<1>1. f \in LevelsOver(WildCards) /\ \A j \in DOMAIN f : f[j] = <<NumberSign>> => j = Len(f)
  BY DEF Filters
<1>2. f \in Seq(Seq(Characters)) /\ Len(f) \in 1..MaxLevels
  BY <1>1, LevelsTyped
<1>3. PICK n \in 1..MaxLevels : f \in [1..n -> FirstNames \cup LaterNames \cup WildCards]
  BY <1>1 DEF LevelsOver
<1>4. FirstNames \cup LaterNames \subseteq Seq(Ordinary) /\ MaxLevels \in Nat
  BY TrieAssumption DEF Ordinary
<1>5. f[1] \in FirstNames \cup WildCards
  BY <1>1 DEF LevelsOver
<1>6. <<>> \notin FirstNames /\ <<>> \notin WildCards
  BY TrieAssumption DEF WildCards
<1>7. DOMAIN f = 1..Len(f) /\ Len(f) \in Nat \ {0} /\ Len(f) = n
  BY <1>2, <1>3, <1>4
<1> QED
  BY <1>1, <1>2, <1>3, <1>4, <1>5, <1>6, <1>7

LEMMA TopicLevels ==
    ASSUME NEW topic \in Topics
    PROVE  /\ topic \in Seq(Seq(Characters)) /\ Len(topic) \in Nat \ {0} /\ topic[1] # <<>>
           /\ \A k \in 1..Len(topic) : topic[k] \in Seq(Ordinary)
<1>2. topic \in Seq(Seq(Characters)) /\ Len(topic) \in 1..MaxLevels
  BY LevelsTyped DEF Topics
<1>3. PICK n \in 1..MaxLevels : topic \in [1..n -> FirstNames \cup LaterNames]
  BY DEF Topics, LevelsOver
<1>4. FirstNames \cup LaterNames \subseteq Seq(Ordinary) /\ MaxLevels \in Nat
  BY TrieAssumption DEF Ordinary
<1>5. topic[1] \in FirstNames /\ <<>> \notin FirstNames
  BY TrieAssumption DEF Topics, LevelsOver
<1>7. DOMAIN topic = 1..Len(topic) /\ Len(topic) \in Nat \ {0} /\ Len(topic) = n
  BY <1>2, <1>3, <1>4
<1> QED
  BY <1>2, <1>3, <1>4, <1>5, <1>7

\* The levels of a filter and of a topic that can stand opposite each other.
Opposite(f, topic) == {<<1, 1>>} \cup ((2..Len(f)) \X (2..Len(topic)))

\* E holds those from which the rest of the filter matches the rest of the topic.
LevelByLevel(E, f, topic) ==
    \A j, k : <<j, k>> \in Opposite(f, topic) =>
        (<<j, k>> \in E <=>
            \/ /\ f[j] = <<Plus>> \/ f[j] = topic[k]
               /\ \/ j = Len(f) /\ k = Len(topic)
                  \/ j < Len(f) /\ k < Len(topic) /\ <<j + 1, k + 1>> \in E
            \/ f[j] = <<NumberSign>>
            \/ f[j] = <<>> /\ j < Len(f) /\ <<j + 1, k>> \in E)

\* Level by level is what the rule says of the readings.
LEMMA LevelsMatch ==
    ASSUME NEW f \in Filters, NEW topic \in Topics, NEW E, LevelByLevel(E, f, topic)
    PROVE  <<1, 1>> \in E <=> \E reading \in Readings(f) : Matches(reading, topic)
<1> DEFINE n == Len(f)
           p == Len(topic)
           S == Seq(Characters)
           R == ReadFrom(f)
           Holds(j) == \A k : <<j, k>> \in Opposite(f, topic) =>
                         (<<j, k>> \in E <=> \E r \in R[j] : MatchesAt(r, topic, k))
<1>1. /\ n \in Nat \ {0} /\ p \in Nat \ {0} /\ topic \in Seq(S) /\ f \in Seq(S) /\ f # <<>>
      /\ f[1] # <<>> /\ \A j \in 1..n : f[j] \in S /\ (f[j] = <<NumberSign>> => j = n)
      /\ \A k \in 1..p : topic[k] \in Seq(Ordinary)
  <2>1. /\ n \in Nat \ {0} /\ f \in Seq(S) /\ f[1] # <<>>
        /\ \A j \in 1..n : f[j] = <<NumberSign>> => j = n
    BY FiltersTyped
  <2>2. /\ p \in Nat \ {0} /\ topic \in Seq(S) /\ \A k \in 1..p : topic[k] \in Seq(Ordinary)
    BY TopicLevels
  <2>3. f # <<>> /\ \A j \in 1..n : f[j] \in S
    <3> HIDE DEF S
    <3> QED
      BY <2>1
  <2> QED
    BY <2>1, <2>2, <2>3
<1>2. /\ Readings(f) = R[1] /\ R[n + 1] = {<<>>}
      /\ \A j \in 1..n :
           R[j] = {<<f[j]>> \o rest : rest \in R[j + 1]}
                    \cup (IF f[j] = <<>> /\ j < n THEN R[j + 1] ELSE {})
      /\ \A j \in 1..n + 1 : R[j] \subseteq Seq(S)
      /\ \A j \in 1..n : <<>> \notin R[j]
  <2>1. f \in Seq(Seq(Characters)) /\ f # <<>>
    BY <1>1
  <2> HIDE <1>1
  <2> QED
    BY <2>1, ReadFromDefined
<1>3. \A j, k : <<j, k>> \in Opposite(f, topic) =>
          /\ j \in 1..n /\ k \in 1..p /\ (f[j] = <<>> => j >= 2 /\ k >= 2)
          /\ j < n /\ k < p => <<j + 1, k + 1>> \in Opposite(f, topic)
          /\ f[j] = <<>> /\ j < n => <<j + 1, k>> \in Opposite(f, topic)
  <2> SUFFICES ASSUME NEW j, NEW k, <<j, k>> \in Opposite(f, topic)
               PROVE  /\ j \in 1..n /\ k \in 1..p /\ (f[j] = <<>> => j >= 2 /\ k >= 2)
                      /\ j < n /\ k < p => <<j + 1, k + 1>> \in Opposite(f, topic)
                      /\ f[j] = <<>> /\ j < n => <<j + 1, k>> \in Opposite(f, topic)
    OBVIOUS
  <2>1. (j = 1 /\ k = 1) \/ (j \in 2..n /\ k \in 2..p)
    BY DEF Opposite
  <2>2. \A i \in 2..n, m \in 2..p : <<i, m>> \in Opposite(f, topic)
    BY DEF Opposite
  <2>3. n \in Nat \ {0} /\ p \in Nat \ {0} /\ f[1] # <<>>
    BY <1>1
  <2> HIDE DEF n, p
  <2>4. j \in 1..n /\ k \in 1..p /\ (f[j] = <<>> => j >= 2 /\ k >= 2)
    BY <2>1, <2>3
  <2>5. j < n /\ k < p => j + 1 \in 2..n /\ k + 1 \in 2..p
    BY <2>3, <2>4
  <2>6. f[j] = <<>> /\ j < n => j + 1 \in 2..n /\ k \in 2..p
    BY <2>3, <2>4
  <2> QED
    BY <2>2, <2>4, <2>5, <2>6
<1>4. \A k \in 1..p : topic[k] # <<NumberSign>> /\ <<NumberSign>> # <<Plus>>
  <2>1. \A w \in Seq(Ordinary) : w # <<NumberSign>>
    <3>1. ASSUME NEW w \in Seq(Ordinary), w = <<NumberSign>> PROVE FALSE
      <4>1. Len(w) = 1 /\ w[1] = NumberSign
        BY <3>1
      <4>2. w[1] \in Ordinary
        BY <4>1
      <4> QED
        BY <4>1, <4>2 DEF Ordinary
    <3> QED
      BY <3>1
  <2>2. <<NumberSign>> # <<Plus>>
    <3>1. <<NumberSign>>[1] # <<Plus>>[1]
      BY DEF NumberSign, Plus
    <3> QED
      BY <3>1
  <2> QED
    BY <1>1, <2>1, <2>2
<1> HIDE DEF n, p, S, R
<1>5. ASSUME NEW j \in 1..n, j = n \/ Holds(j + 1) PROVE Holds(j)
  <2> SUFFICES ASSUME NEW k, <<j, k>> \in Opposite(f, topic)
               PROVE  <<j, k>> \in E <=> \E r \in R[j] : MatchesAt(r, topic, k)
    OBVIOUS
  <2> DEFINE a == f[j]
             fits == a = <<Plus>> \/ a = topic[k]
             more == R[j + 1]
  <2>1. k \in 1..p /\ a \in S /\ j + 1 \in 1..n + 1 /\ more \subseteq Seq(S)
    <3>1. j + 1 \in 1..n + 1
      BY <1>1
    <3> QED
      BY <1>1, <1>2, <1>3, <3>1
  <2>2. <<j, k>> \in E <=>
            \/ /\ fits
               /\ \/ j = n /\ k = p
                  \/ j < n /\ k < p /\ <<j + 1, k + 1>> \in E
            \/ a = <<NumberSign>>
            \/ a = <<>> /\ j < n /\ <<j + 1, k>> \in E
    BY DEF LevelByLevel, n, p
  <2>3. R[j] = {<<a>> \o rest : rest \in more} \cup (IF a = <<>> /\ j < n THEN more ELSE {})
    BY <1>2
  <2> DEFINE Late(r) == MatchesAt(r, topic, k + 1)
             Now(r) == MatchesAt(r, topic, k)
  <2>4. \A r \in more : Now(<<a>> \o r) <=>
              IF r = <<>> THEN (fits /\ k = p) \/ a = <<NumberSign>>
              ELSE fits /\ k < p /\ Late(r)
    <3> SUFFICES ASSUME NEW r \in more
                 PROVE  Now(<<a>> \o r) <=>
                            IF r = <<>> THEN (fits /\ k = p) \/ a = <<NumberSign>>
                            ELSE fits /\ k < p /\ Late(r)
      OBVIOUS
    <3>1. r \in Seq(S) /\ topic \in Seq(S) /\ k \in 1..Len(topic)
      BY <1>1, <2>1 DEF p
    <3> HIDE DEF a, more
    <3> QED
      BY <2>1, <3>1, MatchesOn DEF p
  <2> DEFINE Some == \E r \in R[j] : Now(r)
  <2>5. Some <=> (\E r \in more : Now(<<a>> \o r))
                 \/ (a = <<>> /\ j < n /\ \E r \in more : Now(r))
    <3> HIDE DEF a, more, Now
    <3> QED
      BY <2>3
  <2>6. CASE j = n
    <3>1. more = {<<>>} /\ ~(j < n)
      BY <1>1, <1>2, <2>6
    <3>2. (\E r \in more : Now(<<a>> \o r)) <=> (fits /\ k = p) \/ a = <<NumberSign>>
      <4> HIDE DEF Now, Late, fits, a, more
      <4> QED
        BY <2>4, <3>1
    <3> HIDE DEF Now, fits, a, more
    <3>3. Some <=> (fits /\ k = p) \/ a = <<NumberSign>>
      BY <2>5, <3>1, <3>2
    <3>4. <<j, k>> \in E <=> (fits /\ k = p) \/ a = <<NumberSign>>
      BY <2>2, <2>6, <3>1
    <3> QED
      BY <3>3, <3>4 DEF Now
  <2>7. CASE j # n
    <3>1. j < n /\ Holds(j + 1) /\ j + 1 \in 1..n
      BY <1>1, <1>5, <2>7
    <3>2. a # <<NumberSign>> /\ \A r \in more : r # <<>>
      BY <1>1, <1>2, <2>7, <3>1
    <3>3. (\E r \in more : Now(<<a>> \o r)) <=> fits /\ k < p /\ \E r \in more : Late(r)
      <4> HIDE DEF Now, Late, fits, a, more
      <4> QED
        BY <2>4, <3>2
    <3>4. k < p => (<<j + 1, k + 1>> \in E <=> \E r \in more : Late(r))
      BY <1>3, <3>1
    <3>5. a = <<>> => (<<j + 1, k>> \in E <=> \E r \in more : Now(r))
      BY <1>3, <3>1
    <3> HIDE DEF Now, Late, fits, a, more
    <3>6. Some <=> (fits /\ k < p /\ <<j + 1, k + 1>> \in E) \/ (a = <<>> /\ <<j + 1, k>> \in E)
      BY <2>5, <3>1, <3>3, <3>4, <3>5
    <3>7. <<j, k>> \in E <=>
              (fits /\ k < p /\ <<j + 1, k + 1>> \in E) \/ (a = <<>> /\ <<j + 1, k>> \in E)
      BY <2>2, <2>7, <3>1, <3>2
    <3> QED
      BY <3>6, <3>7 DEF Now
  <2> QED
    BY <2>6, <2>7
<1> HIDE DEF Holds
<1>6. Holds(1)
  <2> DEFINE T == {d \in 0..n - 1 : Holds(n - d)}
  <2>1. 0 \in T
    BY <1>1, <1>5
  <2>2. ASSUME NEW d \in 0..(n - 1) - 1, d \in T PROVE d + 1 \in T
    <3>1. /\ n - (d + 1) \in 1..n /\ (n - (d + 1)) + 1 = n - d /\ d + 1 \in 0..n - 1
      BY <1>1
    <3>2. Holds(n - d)
      BY <2>2
    <3>3. Holds(n - (d + 1))
      BY <1>5, <3>1, <3>2
    <3> QED
      BY <3>1, <3>3
  <2>3. T = 0..n - 1
    <3>1. T \in SUBSET (0..n - 1) /\ n - 1 \in Nat
      BY <1>1
    <3> HIDE DEF T
    <3> QED
      BY <2>1, <2>2, <3>1, Climb
  <2>4. n - 1 \in 0..n - 1 /\ n - (n - 1) = 1
    BY <1>1
  <2>5. Holds(n - (n - 1))
    BY <2>3, <2>4
  <2> QED
    BY <2>4, <2>5
<1>7. <<1, 1>> \in E <=> \E r \in R[1] : MatchesAt(r, topic, 1)
  BY <1>6 DEF Holds, Opposite
<1>8. ASSUME NEW r \in R[1] PROVE MatchesAt(r, topic, 1) <=> Matches(r, topic)
  <2>1. r \in Seq(S)
    BY <1>1, <1>2
  <2>2. 1 + Len(r) - 1 = Len(r) /\ DOMAIN r = 1..Len(r) /\ Len(r) \in Nat
    BY <2>1
  <2>3. \A i \in 1..Len(r) : 1 + i - 1 = i
    OBVIOUS
  <2>4. \A i \in 1..Len(r) - 1 : 1 + i - 1 = i
    OBVIOUS
  <2> QED
    BY <2>2, <2>3, <2>4 DEF MatchesAt, Matches, Last
<1> QED
  BY <1>2, <1>7, <1>8

-----------------------------------------------------------------------------
(* What is found of a filter, character by character.                      *)

\* F are the characters of a filter that is in the tree, t those of a topic.  R holds the
\* places in both, and whether the visit there explores the wildcards, from which the end
\* of the filter is found.  M holds the places in F where another filter ends.
Unfolds(R, M, F, t) ==
    /\ Len(F) \in M
    /\ \A k \in 0..Len(F), i \in 1..Len(t) :
        /\ <<k, i, FALSE>> \in R <=>
              IF i = Len(t) THEN k = Len(F)
              ELSE /\ k < Len(F) /\ F[k + 1] = t[i]
                   /\ <<k + 1, i + 1, FALSE>> \in R \/ (t[i] = Slash /\ <<k + 1, i, TRUE>> \in R)
        /\ <<k, i, TRUE>> \in R <=>
              \/ <<k, i, FALSE>> \in R
              \/ k < Len(F) /\ F[k + 1] = NumberSign /\ <<k + 1, Len(t), TRUE>> \in R
              \/ /\ k < Len(F) /\ F[k + 1] = Plus
                 /\ LET next == IndexOf(t, Slash, i + 1) IN
                    IF next # 0 THEN <<k + 1, next, TRUE>> \in R
                    ELSE k + 1 \in M /\ <<k + 1, Len(t), TRUE>> \in R

\* The places where the j-th level of a filter and the k-th of a topic start, as the
\* visits get there: behind both /, or at the / of the topic to explore the wildcards.
Started(R, f, topic, j, k) ==
    \/ <<Start(f, j), Start(topic, k) + 1, FALSE>> \in R
    \/ <<Start(f, j), IF k = 1 THEN 1 ELSE Start(topic, k), TRUE>> \in R

\* What can follow when two levels fit.
Continued(R, f, topic, j, k) ==
    \/ j = Len(f) /\ k = Len(topic)
    \/ j < Len(f) /\ k < Len(topic) /\ Started(R, f, topic, j + 1, k + 1)

\* Where the levels of a filter lie.
LEMMA FilterLaid ==
    ASSUME NEW f \in Filters
    PROVE  /\ Len(f) \in Nat \ {0} /\ f[1] # <<>> /\ Start(f, 1) = 0 /\ Len(Chars(f)) \in Nat
           /\ Chars(f) \in Seq(Characters)
           /\ \A j \in 1..Len(f) :
                /\ Start(f, j) \in Nat /\ Stop(f, j) \in 0..Len(Chars(f)) /\ Len(f[j]) \in Nat
                /\ Stop(f, j) = Start(f, j) + Len(f[j])
                /\ \A x \in 1..Len(f[j]) : Chars(f)[Start(f, j) + x] = f[j][x] /\ f[j][x] # Slash
                /\ f[j] = <<NumberSign>> => j = Len(f)
                /\ j < Len(f) => /\ Chars(f)[Stop(f, j) + 1] = Slash /\ Stop(f, j) < Len(Chars(f))
                                 /\ Start(f, j + 1) = Stop(f, j) + 1
                /\ j = Len(f) => Stop(f, j) = Len(Chars(f))
<1>1. /\ f \in Seq(Seq(Characters)) /\ Len(f) \in Nat \ {0} /\ f[1] # <<>> /\ f # <<>>
      /\ Slash \in Characters
      /\ \A j \in 1..Len(f) : /\ f[j] \in Seq(Ordinary) \cup WildCards
                              /\ f[j] = <<NumberSign>> => j = Len(f)
  <2>1. f \in Seq(Seq(Characters)) /\ Len(f) \in Nat \ {0}
    BY FiltersTyped
  <2>2. f # <<>>
    BY <2>1
  <2>3. Slash \in Characters
    BY DEF Slash, Characters, EndMark
  <2> QED
    BY <2>1, <2>2, <2>3, FiltersTyped
<1>2. /\ Chars(f) \in Seq(Characters)
      /\ Start(f, 1) = 0 /\ Stop(f, Len(f)) = Len(Chars(f))
      /\ \A j \in 1..Len(f) :
           /\ Start(f, j) \in Nat /\ f[j] \in Seq(Characters)
           /\ Stop(f, j) = Start(f, j) + Len(f[j])
           /\ Stop(f, j) <= Len(Chars(f))
           /\ \A x \in 1..Len(f[j]) : Chars(f)[Start(f, j) + x] = f[j][x]
      /\ \A j \in 1..Len(f) - 1 :
           /\ Chars(f)[Stop(f, j) + 1] = Slash
           /\ Start(f, j + 1) = Stop(f, j) + 1
           /\ Stop(f, j) < Len(Chars(f))
  BY <1>1, Laid
<1>3. Len(Chars(f)) \in Nat
  BY <1>2
<1>4. \A j \in 1..Len(f) : Len(f[j]) \in Nat
  BY <1>2
<1>5. \A j \in 1..Len(f) : j < Len(f) => j \in 1..Len(f) - 1
  BY <1>1
<1>6. ASSUME NEW w \in Seq(Ordinary) \cup WildCards, NEW x \in 1..Len(w) PROVE w[x] # Slash
  <2>1. CASE w \in Seq(Ordinary)
    <3>1. w[x] \in Ordinary
      BY <2>1
    <3> QED
      BY <3>1 DEF Ordinary
  <2>2. CASE w \in WildCards
    <3>1. w = <<Plus>> \/ w = <<NumberSign>>
      BY <2>2 DEF WildCards
    <3>2. Len(w) = 1 /\ w[1] \in {Plus, NumberSign}
      BY <3>1
    <3> QED
      BY <3>2 DEF Plus, NumberSign, Slash
  <2> QED
    BY <2>1, <2>2
<1>7. ASSUME NEW j \in 1..Len(f)
      PROVE  /\ Stop(f, j) \in 0..Len(Chars(f))
             /\ \A x \in 1..Len(f[j]) : f[j][x] # Slash
  <2>1. /\ Start(f, j) \in Nat /\ Len(f[j]) \in Nat /\ Stop(f, j) <= Len(Chars(f))
        /\ Stop(f, j) = Start(f, j) + Len(f[j])
    BY <1>2, <1>4
  <2>2. Stop(f, j) \in 0..Len(Chars(f))
    BY <1>3, <2>1
  <2> QED
    BY <1>1, <1>6, <2>2
<1>8. ASSUME NEW j \in 1..Len(f), j < Len(f)
      PROVE  /\ Chars(f)[Stop(f, j) + 1] = Slash /\ Stop(f, j) < Len(Chars(f))
             /\ Start(f, j + 1) = Stop(f, j) + 1
  BY <1>2, <1>5, <1>8
<1> QED
  BY <1>1, <1>2, <1>3, <1>4, <1>7, <1>8

\* A level of a topic with its end mark, and what is around it.
LevelLaid(topic, t, k) ==
    /\ Start(topic, k) \in Nat /\ Stop(topic, k) + 1 \in 1..Len(t)
    /\ Len(topic[k]) \in Nat /\ Stop(topic, k) = Start(topic, k) + Len(topic[k])
    /\ \A x \in 1..Len(topic[k]) :
          /\ t[Start(topic, k) + x] = topic[k][x] /\ topic[k][x] \in Ordinary
          /\ Start(topic, k) + x < Len(t)
    /\ k < Len(topic) => /\ t[Stop(topic, k) + 1] = Slash /\ Stop(topic, k) + 1 < Len(t)
                         /\ Start(topic, k + 1) = Stop(topic, k) + 1
    /\ k = Len(topic) => Stop(topic, k) + 1 = Len(t)
    /\ k # 1 => Start(topic, k) \in 1..Len(t) - 1 /\ t[Start(topic, k)] = Slash

\* Where the levels of a topic with its end mark lie.
LEMMA TopicLaid ==
    ASSUME NEW topic \in Topics, NEW t, t = Append(Chars(topic), EndMark)
    PROVE  /\ Len(topic) \in Nat \ {0} /\ Start(topic, 1) = 0 /\ Len(t) \in Nat \ {0}
           /\ Len(topic[1]) # 0 /\ t \in Seq(Nat) /\ t[Len(t)] = EndMark
           /\ \A k \in 1..Len(topic) : LevelLaid(topic, t, k)
<1> DEFINE s == Chars(topic)
           n == Len(topic)
<1>1. /\ topic \in Seq(Seq(Characters)) /\ n \in Nat \ {0} /\ topic[1] # <<>> /\ topic # <<>>
      /\ Slash \in Characters /\ \A k \in 1..n : topic[k] \in Seq(Ordinary)
  <2>1. topic \in Seq(Seq(Characters)) /\ n \in Nat \ {0}
    BY TopicLevels
  <2>2. topic # <<>>
    BY <2>1
  <2>3. Slash \in Characters
    BY DEF Slash, Characters, EndMark
  <2> QED
    BY <2>1, <2>2, <2>3, TopicLevels
<1>2. /\ s \in Seq(Characters)
      /\ Start(topic, 1) = 0 /\ Stop(topic, n) = Len(s)
      /\ \A k \in 1..n :
           /\ Start(topic, k) \in Nat /\ topic[k] \in Seq(Characters)
           /\ Stop(topic, k) = Start(topic, k) + Len(topic[k])
           /\ Stop(topic, k) <= Len(s)
           /\ \A x \in 1..Len(topic[k]) : s[Start(topic, k) + x] = topic[k][x]
      /\ \A k \in 1..n - 1 :
           /\ s[Stop(topic, k) + 1] = Slash
           /\ Start(topic, k + 1) = Stop(topic, k) + 1
           /\ Stop(topic, k) < Len(s)
  BY <1>1, Laid
<1> HIDE DEF s, n
<1>3. /\ Len(s) \in Nat /\ Len(t) = Len(s) + 1 /\ t[Len(s) + 1] = EndMark
      /\ \A i \in 1..Len(s) : t[i] = s[i]
      /\ t \in Seq(Nat)
  <2>1. /\ Len(s) \in Nat /\ Len(t) = Len(s) + 1 /\ t[Len(s) + 1] = EndMark
        /\ \A i \in 1..Len(s) : t[i] = s[i]
    BY <1>2 DEF s
  <2>2. EndMark \in Nat /\ Characters \subseteq Nat
    BY DEF EndMark, Characters
  <2>3. s \in Seq(Nat)
    <3>a. s \in Seq(Characters)
      BY <1>2
    <3>b. \A i \in 1..Len(s) : s[i] \in Characters
      BY <3>a
    <3>1. \A i \in 1..Len(s) : s[i] \in Nat
      BY <2>2, <3>b
    <3>2. Len(s) \in Nat /\ s = [i \in 1..Len(s) |-> s[i]]
      BY <3>a
    <3> QED
      BY <3>1, <3>2
  <2>4. t = Append(s, EndMark)
    BY DEF s
  <2>5. t \in Seq(Nat)
    BY <2>2, <2>3, <2>4
  <2> QED
    BY <2>1, <2>5
<1>4. Len(topic[1]) # 0
  <2>1. topic[1] \in Seq(Ordinary) /\ topic[1] # <<>>
    BY <1>1
  <2> QED
    BY <2>1
<1>5. ASSUME NEW k \in 1..n
      PROVE  /\ Start(topic, k) \in Nat /\ Stop(topic, k) + 1 \in 1..Len(t)
             /\ Len(topic[k]) \in Nat /\ Stop(topic, k) = Start(topic, k) + Len(topic[k])
             /\ \A x \in 1..Len(topic[k]) :
                   /\ t[Start(topic, k) + x] = topic[k][x] /\ topic[k][x] \in Ordinary
                   /\ Start(topic, k) + x < Len(t)
             /\ k < n => /\ t[Stop(topic, k) + 1] = Slash /\ Stop(topic, k) + 1 < Len(t)
                         /\ Start(topic, k + 1) = Stop(topic, k) + 1
             /\ k = n => Stop(topic, k) + 1 = Len(t)
  <2> DEFINE a == Start(topic, k)
             b == Stop(topic, k)
             w == topic[k]
  <2>1. /\ a \in Nat /\ w \in Seq(Ordinary) /\ b = a + Len(w) /\ b <= Len(s) /\ Len(w) \in Nat
        /\ \A x \in 1..Len(w) : s[a + x] = w[x]
    <3>1. topic[k] \in Seq(Ordinary)
      BY <1>1
    <3>2. Len(topic[k]) \in Nat
      BY <3>1
    <3> QED
      BY <1>2, <3>1, <3>2
  <2>2. k < n => k \in 1..n - 1
    BY <1>1
  <2>3. k < n => s[b + 1] = Slash /\ b < Len(s) /\ Start(topic, k + 1) = b + 1
    BY <1>2, <2>2
  <2>4. k = n => b = Len(s)
    BY <1>2
  <2> HIDE DEF a, b, w
  <2>5. b + 1 \in 1..Len(t)
    BY <1>3, <2>1
  <2>6. ASSUME NEW x \in 1..Len(w) PROVE t[a + x] = w[x] /\ w[x] \in Ordinary /\ a + x < Len(t)
    <3>1. a + x \in 1..Len(s)
      BY <1>3, <2>1
    <3>2. w[x] \in Ordinary
      BY <2>1
    <3> QED
      BY <1>3, <2>1, <3>1, <3>2
  <2>7. k < n => t[b + 1] = Slash /\ b + 1 < Len(t) /\ Start(topic, k + 1) = b + 1
    <3>1. k < n => b + 1 \in 1..Len(s)
      BY <1>3, <2>1, <2>3
    <3> QED
      BY <1>3, <2>1, <2>3, <3>1
  <2>8. k = n => b + 1 = Len(t)
    BY <1>3, <2>4
  <2> QED
    BY <2>1, <2>5, <2>6, <2>7, <2>8 DEF a, b, w
<1>6. ASSUME NEW k \in 1..n, k # 1
      PROVE  Start(topic, k) \in 1..Len(t) - 1 /\ t[Start(topic, k)] = Slash
  <2>1. k - 1 \in 1..n /\ k - 1 < n /\ (k - 1) + 1 = k
    BY <1>1, <1>6
  <2>2. /\ Stop(topic, k - 1) + 1 \in 1..Len(t) /\ t[Stop(topic, k - 1) + 1] = Slash
        /\ Stop(topic, k - 1) + 1 < Len(t) /\ Start(topic, k) = Stop(topic, k - 1) + 1
    <3> DEFINE j == k - 1
    <3>1. j \in 1..n /\ j < n /\ j + 1 = k
      BY <2>1
    <3> HIDE DEF j
    <3>2. /\ Stop(topic, j) + 1 \in 1..Len(t) /\ t[Stop(topic, j) + 1] = Slash
          /\ Stop(topic, j) + 1 < Len(t) /\ Start(topic, j + 1) = Stop(topic, j) + 1
      BY <1>5, <3>1
    <3> QED
      BY <3>1, <3>2 DEF j
  <2>3. Start(topic, k) \in 1..Len(t) /\ Start(topic, k) < Len(t) /\ t[Start(topic, k)] = Slash
    BY <2>2
  <2> QED
    BY <1>3, <2>3
<1>7. /\ n \in Nat \ {0} /\ Start(topic, 1) = 0 /\ Len(t) \in Nat \ {0}
      /\ Len(topic[1]) # 0 /\ t \in Seq(Nat) /\ t[Len(t)] = EndMark
  BY <1>1, <1>2, <1>3, <1>4
<1>8. ASSUME NEW k \in 1..n PROVE LevelLaid(topic, t, k)
  BY <1>5, <1>6 DEF n, LevelLaid
<1> QED
  BY <1>7, <1>8 DEF n

\* Behind a level of both, what follows decides.
LEMMA Border ==
    ASSUME NEW f \in Filters, NEW topic \in Topics, NEW t, t = Append(Chars(topic), EndMark),
           NEW R, NEW M, Unfolds(R, M, Chars(f), t),
           NEW j \in 1..Len(f), NEW k \in 1..Len(topic)
    PROVE  \A wild \in BOOLEAN :
              <<Stop(f, j), Stop(topic, k) + 1, wild>> \in R <=> Continued(R, f, topic, j, k)
<1> DEFINE F == Chars(f)
           n == Len(f)
           p == Len(topic)
           b == Stop(f, j)
           e == Stop(topic, k) + 1
           N == Len(t)
           Z == Len(F)
<1>1. /\ b \in 0..Z /\ n \in Nat \ {0} /\ j \in 1..n /\ Z \in Nat
      /\ j < n => F[b + 1] = Slash /\ b < Z /\ Start(f, j + 1) = b + 1
      /\ j = n => b = Z
  BY FilterLaid
<1>2. /\ e \in 1..N /\ N \in Nat /\ p \in Nat \ {0} /\ k \in 1..p
      /\ k < p => t[e] = Slash /\ e < N /\ Start(topic, k + 1) = e
      /\ k = p => e = N
  <2>1. N \in Nat \ {0} /\ p \in Nat \ {0} /\ LevelLaid(topic, t, k)
    BY TopicLaid
  <2> QED
    BY <2>1 DEF LevelLaid
<1>3. /\ <<b, e, FALSE>> \in R <=>
            IF e = N THEN b = Z
            ELSE /\ b < Z /\ F[b + 1] = t[e]
                 /\ <<b + 1, e + 1, FALSE>> \in R \/ (t[e] = Slash /\ <<b + 1, e, TRUE>> \in R)
      /\ b = Z \/ F[b + 1] \notin {NumberSign, Plus} =>
            (<<b, e, TRUE>> \in R <=> <<b, e, FALSE>> \in R)
  <2>1. b \in 0..Z /\ e \in 1..N
    BY <1>1, <1>2
  <2>2. \A x \in 0..Z, i \in 1..N :
          /\ <<x, i, FALSE>> \in R <=>
                IF i = N THEN x = Z
                ELSE /\ x < Z /\ F[x + 1] = t[i]
                     /\ <<x + 1, i + 1, FALSE>> \in R \/ (t[i] = Slash /\ <<x + 1, i, TRUE>> \in R)
          /\ x = Z \/ F[x + 1] \notin {NumberSign, Plus} =>
                (<<x, i, TRUE>> \in R <=> <<x, i, FALSE>> \in R)
    <3> TAKE x \in 0..Z, i \in 1..N
    <3>1. <<x, i, FALSE>> \in R <=>
                IF i = N THEN x = Z
                ELSE /\ x < Z /\ F[x + 1] = t[i]
                     /\ <<x + 1, i + 1, FALSE>> \in R \/ (t[i] = Slash /\ <<x + 1, i, TRUE>> \in R)
      BY DEF Unfolds
    <3>2. <<x, i, TRUE>> \in R =>
             <<x, i, FALSE>> \in R \/ (x < Z /\ F[x + 1] \in {NumberSign, Plus})
      BY DEF Unfolds
    <3>3. <<x, i, FALSE>> \in R => <<x, i, TRUE>> \in R
      BY DEF Unfolds
    <3>4. x = Z => ~(x < Z)
      BY <1>1
    <3> QED
      BY <3>1, <3>2, <3>3, <3>4
  <2> HIDE DEF b, e, F, Z, N
  <2> QED
    BY <2>1, <2>2
<1>4. k < p /\ j < n =>
        (Started(R, f, topic, j + 1, k + 1) <=>
            <<b + 1, e + 1, FALSE>> \in R \/ <<b + 1, e, TRUE>> \in R)
  <2>1. k + 1 # 1
    BY <1>2
  <2> QED
    BY <1>1, <1>2, <2>1 DEF Started
<1>5. Continued(R, f, topic, j, k) <=>
         (j = n /\ k = p) \/ (j < n /\ k < p /\ Started(R, f, topic, j + 1, k + 1))
  BY DEF Continued
<1> HIDE DEF F, n, p, b, e, N, Z
<1>6. <<b, e, FALSE>> \in R <=> Continued(R, f, topic, j, k)
  <2>1. CASE k = p
    <3>1. b = Z <=> j = n
      BY <1>1
    <3> QED
      BY <1>2, <1>3, <1>5, <2>1, <3>1
  <2>2. CASE k < p /\ j < n
    <3>a. e \in Nat /\ N \in Nat /\ j \in Nat /\ n \in Nat /\ k \in Nat /\ p \in Nat
      BY <1>1, <1>2
    <3>b. e < N /\ t[e] = Slash /\ F[b + 1] = Slash /\ b < Z
      BY <1>1, <1>2, <2>2
    <3>1. e # N /\ t[e] = Slash /\ F[b + 1] = Slash /\ b < Z
      BY <3>a, <3>b
    <3>2. ~(j = n /\ k = p)
      BY <2>2, <3>a
    <3> QED
      BY <1>3, <1>4, <1>5, <2>2, <3>1, <3>2
  <2>3. CASE k < p /\ j = n
    BY <1>1, <1>2, <1>3, <1>5, <2>3
  <2> QED
    BY <1>1, <1>2, <2>1, <2>2, <2>3
<1>7. b = Z \/ F[b + 1] \notin {NumberSign, Plus}
  BY <1>1 DEF NumberSign, Plus, Slash
<1> QED
  BY <1>3, <1>6, <1>7 DEF b, e

\* Without wildcards, a level is found when it is the same.
LEMMA NameCompared ==
    ASSUME NEW f \in Filters, NEW topic \in Topics, NEW t, t = Append(Chars(topic), EndMark),
           NEW R, NEW M, Unfolds(R, M, Chars(f), t),
           NEW j \in 1..Len(f), NEW k \in 1..Len(topic)
    PROVE  <<Start(f, j), Start(topic, k) + 1, FALSE>> \in R <=>
              f[j] = topic[k] /\ Continued(R, f, topic, j, k)
<1> DEFINE F == Chars(f)
           n == Len(f)
           p == Len(topic)
           a == Start(f, j)
           s == Start(topic, k)
           u == f[j]
           v == topic[k]
           N == Len(t)
           Z == Len(F)
           Cont == Continued(R, f, topic, j, k)
<1>1. /\ a \in Nat /\ a + Len(u) \in 0..Z /\ Z \in Nat /\ Len(u) \in Nat /\ n \in Nat \ {0}
      /\ \A x \in 1..Len(u) : F[a + x] = u[x] /\ u[x] # Slash
      /\ j < n => F[a + Len(u) + 1] = Slash /\ a + Len(u) < Z
      /\ j = n => a + Len(u) = Z
      /\ Stop(f, j) = a + Len(u)
  <2>1. /\ a \in Nat /\ Stop(f, j) \in 0..Z /\ Z \in Nat /\ Len(u) \in Nat /\ n \in Nat \ {0}
        /\ \A x \in 1..Len(u) : F[a + x] = u[x] /\ u[x] # Slash
        /\ j < n => F[Stop(f, j) + 1] = Slash /\ Stop(f, j) < Z
        /\ j = n => Stop(f, j) = Z
        /\ Stop(f, j) = a + Len(u)
    BY FilterLaid
  <2> HIDE DEF F, n, a, u, Z
  <2> QED
    BY <2>1
<1>2. /\ s \in Nat /\ s + Len(v) + 1 \in 1..N /\ N \in Nat /\ Len(v) \in Nat /\ p \in Nat \ {0}
      /\ \A x \in 1..Len(v) : t[s + x] = v[x] /\ v[x] \in Ordinary /\ s + x < N
      /\ k < p => t[s + Len(v) + 1] = Slash /\ s + Len(v) + 1 < N
      /\ k = p => s + Len(v) + 1 = N
      /\ Stop(topic, k) = s + Len(v)
  <2>1. /\ s \in Nat /\ Stop(topic, k) + 1 \in 1..N /\ N \in Nat /\ Len(v) \in Nat
        /\ p \in Nat \ {0}
        /\ \A x \in 1..Len(v) : t[s + x] = v[x] /\ v[x] \in Ordinary /\ s + x < N
        /\ k < p => t[Stop(topic, k) + 1] = Slash /\ Stop(topic, k) + 1 < N
        /\ k = p => Stop(topic, k) + 1 = N
        /\ Stop(topic, k) = s + Len(v)
    <3>1. N \in Nat \ {0} /\ p \in Nat \ {0}
      BY TopicLaid
    <3>a. LevelLaid(topic, t, k)
      <4> HIDE DEF F, n, a, u, Z, Cont, p, s, v, N
      <4> QED
        BY TopicLaid
    <3>2. /\ s \in Nat /\ Stop(topic, k) + 1 \in 1..N /\ Len(v) \in Nat
          /\ k < p => t[Stop(topic, k) + 1] = Slash /\ Stop(topic, k) + 1 < N
          /\ k = p => Stop(topic, k) + 1 = N
          /\ Stop(topic, k) = s + Len(v)
      BY <3>a DEF LevelLaid
    <3>3. \A x \in 1..Len(v) : t[s + x] = v[x] /\ v[x] \in Ordinary /\ s + x < N
      BY <3>a DEF LevelLaid
    <3> QED
      BY <3>1, <3>2, <3>3
  <2> HIDE DEF p, s, v, N
  <2> QED
    BY <2>1
<1>3. <<a + Len(u), s + Len(v) + 1, FALSE>> \in R <=> Cont
  <2>1. <<Stop(f, j), Stop(topic, k) + 1, FALSE>> \in R <=> Cont
    BY Border
  <2> QED
    BY <1>1, <1>2, <2>1
<1>4. \A x \in 0..Z, i \in 1..N :
        <<x, i, FALSE>> \in R <=>
            IF i = N THEN x = Z
            ELSE /\ x < Z /\ F[x + 1] = t[i]
                 /\ <<x + 1, i + 1, FALSE>> \in R \/ (t[i] = Slash /\ <<x + 1, i, TRUE>> \in R)
  BY DEF Unfolds
<1>5. Slash \notin Ordinary /\ j \in 1..n /\ k \in 1..p
  BY DEF Ordinary
<1>6. u = v <=> Len(u) = Len(v) /\ \A y \in 1..Len(u) : u[y] = v[y]
  <2>1. u \in Seq(Characters) /\ v \in Seq(Characters)
    BY FiltersTyped, TopicLevels
  <2> HIDE DEF u, v
  <2> QED
    BY <2>1, SeqEqual
<1> HIDE DEF F, n, p, a, s, u, v, N, Z, Cont
<1> DEFINE Agree(x) == Len(u) = Len(v) /\ \A y \in x + 1..Len(u) : u[y] = v[y]
           Same(x) == <<a + x, s + x + 1, FALSE>> \in R <=> Agree(x) /\ Cont
<1>b. /\ a \in Nat /\ s \in Nat /\ Z \in Nat /\ N \in Nat /\ Len(u) \in Nat /\ Len(v) \in Nat
      /\ a + Len(u) <= Z /\ s + Len(v) + 1 <= N
  BY <1>1, <1>2
<1>7. PICK m \in Nat : m <= Len(u) /\ m <= Len(v) /\ (m = Len(u) \/ m = Len(v))
  <2>1. CASE Len(u) <= Len(v)
    BY <1>1, <1>2, <2>1
  <2>2. CASE Len(v) <= Len(u)
    BY <1>1, <1>2, <2>2
  <2> QED
    BY <1>1, <1>2, <2>1, <2>2
<1>8. Same(m)
  <2>1. CASE m = Len(u) /\ m = Len(v)
    BY <1>1, <1>3, <2>1
  <2>2. CASE m = Len(u) /\ m < Len(v)
    <3>1. /\ a + m \in 0..Z /\ s + m + 1 \in 1..N /\ s + m + 1 # N /\ t[s + m + 1] # Slash
      <4>1. m + 1 \in 1..Len(v) /\ s + (m + 1) = s + m + 1
        BY <1>b, <1>7, <2>2
      <4>2. t[s + m + 1] \in Ordinary /\ s + m + 1 < N
        BY <1>2, <4>1
      <4>3. a + m \in 0..Z /\ s + m + 1 \in 1..N /\ (s + m + 1 < N => s + m + 1 # N)
        BY <1>b, <1>7, <2>2
      <4> QED
        BY <1>5, <4>2, <4>3
    <3>a. j < n \/ j = n
      BY <1>1, <1>5
    <3>2. ~(a + m < Z /\ F[a + m + 1] = t[s + m + 1])
      <4>1. CASE j < n
        BY <1>1, <2>2, <3>1, <4>1
      <4>2. CASE j = n
        BY <1>1, <1>b, <2>2, <4>2
      <4> QED
        BY <3>a, <4>1, <4>2
    <3>3. <<a + m, s + m + 1, FALSE>> \notin R
      BY <1>4, <3>1, <3>2
    <3>4. ~Agree(m)
      BY <1>2, <2>2
    <3> QED
      BY <3>3, <3>4
  <2>3. CASE m < Len(u) /\ m = Len(v)
    <3>1. m + 1 \in 1..Len(u) /\ a + (m + 1) = a + m + 1 /\ a + m \in 0..Z /\ a + m < Z
      BY <1>1, <1>7, <2>3
    <3>2. F[a + m + 1] # Slash
      BY <1>1, <3>1
    <3>3. s + m + 1 \in 1..N /\ (s + m + 1 = N \/ t[s + m + 1] = Slash)
      <4>1. k < p \/ k = p
        BY <1>2, <1>5
      <4>2. s + m + 1 \in 1..N
        BY <1>b, <1>7, <2>3
      <4> QED
        BY <1>2, <2>3, <4>1, <4>2
    <3>a. a + m # Z
      BY <1>b, <1>7, <3>1
    <3> DEFINE x == a + m
               i == s + m + 1
    <3>b. x \in 0..Z /\ i \in 1..N /\ x # Z /\ F[x + 1] # Slash /\ (i = N \/ t[i] = Slash)
      BY <3>1, <3>2, <3>3, <3>a
    <3> HIDE DEF x, i
    <3>c. <<x, i, FALSE>> \notin R
      BY <1>4, <3>b
    <3>4. <<a + m, s + m + 1, FALSE>> \notin R
      BY <3>c DEF x, i
    <3>5. ~Agree(m)
      BY <1>1, <1>2, <2>3
    <3> QED
      BY <3>4, <3>5
  <2>4. m < Len(u) \/ m = Len(u)
    BY <1>b, <1>7
  <2>5. m < Len(v) \/ m = Len(v)
    BY <1>b, <1>7
  <2> HIDE DEF Same
  <2> QED
    BY <1>7, <2>1, <2>2, <2>3, <2>4, <2>5
<1>9. ASSUME NEW x \in Nat, x < m, Same(x + 1) PROVE Same(x)
  <2>1. /\ x + 1 \in 1..Len(u) /\ x + 1 \in 1..Len(v)
        /\ a + (x + 1) = a + x + 1 /\ s + (x + 1) = s + x + 1
        /\ a + x \in 0..Z /\ a + x < Z /\ s + x + 1 \in 1..N
    BY <1>b, <1>7, <1>9
  <2>2. /\ F[a + x + 1] = u[x + 1] /\ t[s + x + 1] = v[x + 1] /\ t[s + x + 1] # Slash
        /\ s + x + 1 # N
    <3> DEFINE y == x + 1
    <3>1. y \in 1..Len(u) /\ y \in 1..Len(v) /\ a + y = a + x + 1 /\ s + y = s + x + 1
      BY <2>1
    <3> HIDE DEF y
    <3>2. F[a + y] = u[y]
      BY <1>1, <3>1
    <3>3. t[s + y] = v[y] /\ v[y] \in Ordinary /\ s + y < N
      BY <1>2, <3>1
    <3>4. v[y] # Slash
      BY <1>5, <3>3
    <3>5. s + x + 1 # N
      BY <1>b, <3>1, <3>3
    <3> QED
      BY <3>1, <3>2, <3>3, <3>4, <3>5 DEF y
  <2>3. <<a + x, s + x + 1, FALSE>> \in R <=>
           u[x + 1] = v[x + 1] /\ <<a + x + 1, (s + x + 1) + 1, FALSE>> \in R
    <3> DEFINE y == a + x
               i == s + x + 1
    <3>1. y \in 0..Z /\ i \in 1..N /\ y < Z /\ i # N /\ t[i] # Slash
      BY <2>1, <2>2
    <3>2. F[y + 1] = u[x + 1] /\ t[i] = v[x + 1]
      BY <2>2
    <3> HIDE DEF y, i
    <3>3. <<y, i, FALSE>> \in R <=> F[y + 1] = t[i] /\ <<y + 1, i + 1, FALSE>> \in R
      BY <1>4, <3>1
    <3>4. <<y, i, FALSE>> \in R <=> u[x + 1] = v[x + 1] /\ <<y + 1, i + 1, FALSE>> \in R
      BY <3>2, <3>3
    <3> QED
      BY <3>4 DEF y, i
  <2>4. Agree(x) <=> u[x + 1] = v[x + 1] /\ Agree(x + 1)
    <3>1. \A y : y \in x + 1..Len(u) <=> y = x + 1 \/ y \in (x + 1) + 1..Len(u)
      BY <1>1, <2>1
    <3> QED
      BY <3>1
  <2>5. <<a + x + 1, (s + x + 1) + 1, FALSE>> \in R <=> Agree(x + 1) /\ Cont
    BY <1>9, <2>1
  <2> HIDE DEF Agree
  <2> QED
    BY <2>3, <2>4, <2>5
<1> HIDE DEF Same
<1>10. Same(0)
  <2> DEFINE T == {d \in 0..m : Same(m - d)}
  <2>1. 0 \in T
    BY <1>7, <1>8
  <2>2. ASSUME NEW d \in 0..m - 1, d \in T PROVE d + 1 \in T
    <3>1. /\ m - (d + 1) \in Nat /\ (m - (d + 1)) + 1 = m - d /\ d + 1 \in 0..m
          /\ m - (d + 1) < m
      BY <1>7
    <3>2. Same(m - d)
      BY <2>2
    <3>3. Same(m - (d + 1))
      BY <1>9, <3>1, <3>2
    <3> QED
      BY <3>1, <3>3
  <2>3. T = 0..m
    <3>1. T \in SUBSET (0..m) /\ m \in Nat
      BY <1>7
    <3> HIDE DEF T
    <3> QED
      BY <2>1, <2>2, <3>1, Climb
  <2>4. m \in 0..m /\ m - m = 0
    BY <1>7
  <2>5. Same(m - m)
    BY <2>3, <2>4
  <2> QED
    BY <2>4, <2>5
<1>11. a + 0 = a /\ s + 0 + 1 = s + 1 /\ 0 + 1 = 1
  BY <1>1, <1>2
<1>12. <<a, s + 1, FALSE>> \in R <=> u = v /\ Cont
  BY <1>6, <1>10, <1>11 DEF Same
<1> QED
  BY <1>12 DEF a, s, u, v, Cont

\* Where the wildcards of a level are explored: at its /, or at the first character.
Explored(topic, k) == IF k = 1 THEN 1 ELSE Start(topic, k)

\* The next / from there on is the one behind the level.
LEMMA NextSlash ==
    ASSUME NEW topic \in Topics, NEW t, t = Append(Chars(topic), EndMark),
           NEW k \in 1..Len(topic)
    PROVE  /\ Explored(topic, k) \in 1..Len(t)
           /\ IndexOf(t, Slash, Explored(topic, k) + 1) =
                 IF k < Len(topic) THEN Stop(topic, k) + 1 ELSE 0
<1> DEFINE i == Explored(topic, k)
           p == Len(topic)
           N == Len(t)
           s == Start(topic, k)
           e == Stop(topic, k) + 1
           l == Len(topic[k])
           next == IndexOf(t, Slash, i + 1)
<1>1. /\ LevelLaid(topic, t, k) /\ p \in Nat \ {0} /\ N \in Nat \ {0} /\ t \in Seq(Nat)
      /\ Len(topic[1]) # 0 /\ Start(topic, 1) = 0 /\ t[N] = EndMark
  BY TopicLaid
<1>2. /\ s \in Nat /\ l \in Nat /\ e \in 1..N /\ e = s + l + 1
      /\ \A x \in 1..l : t[s + x] \in Ordinary
      /\ k < p => t[e] = Slash /\ e < N
      /\ k = p => e = N
  <2>1. /\ s \in Nat /\ l \in Nat /\ Stop(topic, k) + 1 \in 1..N /\ Stop(topic, k) = s + l
        /\ k < p => t[Stop(topic, k) + 1] = Slash /\ Stop(topic, k) + 1 < N
        /\ k = p => Stop(topic, k) + 1 = N
    BY <1>1 DEF LevelLaid
  <2>2. \A x \in 1..l : t[s + x] = topic[k][x] /\ topic[k][x] \in Ordinary
    BY <1>1 DEF LevelLaid
  <2>3. e = s + l + 1
    BY <2>1
  <2> QED
    BY <2>1, <2>2, <2>3
<1>3. /\ i \in 1..N /\ i + 1 <= e /\ s < i + 1 /\ i \in Nat
  <2>1. CASE k = 1
    <3>1. i = 1 /\ s = 0 /\ l # 0
      BY <1>1, <2>1 DEF Explored
    <3> HIDE DEF i, s, l, e, N
    <3> QED
      BY <1>1, <1>2, <3>1
  <2>2. CASE k # 1
    <3>1. i = s /\ s \in 1..N - 1
      BY <1>1, <2>2 DEF Explored, LevelLaid
    <3> HIDE DEF i, s, l, e, N
    <3> QED
      BY <1>1, <1>2, <3>1
  <2> QED
    BY <2>1, <2>2
<1>4. i + 1 \in Nat \ {0}
  BY <1>3
<1>5. \/ next = 0 /\ \A y \in i + 1..N : t[y] # Slash
      \/ /\ next \in i + 1..N /\ t[next] = Slash
         /\ \A y \in i + 1..next - 1 : t[y] # Slash
  BY <1>1, <1>4, IndexFound
<1> HIDE DEF i, p, N, s, e, l, next
<1>6. ASSUME NEW y \in i + 1..N, y < e PROVE t[y] # Slash
  <2>1. y - s \in 1..l /\ s + (y - s) = y
    BY <1>1, <1>2, <1>3, <1>6
  <2>2. t[s + (y - s)] \in Ordinary
    BY <1>2, <2>1
  <2>3. t[y] \in Ordinary
    BY <2>1, <2>2
  <2> QED
    BY <2>3 DEF Ordinary
<1>7. CASE k < p
  <2>a. i \in Nat /\ N \in Nat /\ e \in 1..N /\ i + 1 <= e
    BY <1>1, <1>2, <1>3
  <2>b. e \in i + 1..N
    BY <2>a
  <2>1. e \in i + 1..N /\ t[e] = Slash
    BY <1>2, <1>7, <2>b
  <2>c. next \in i + 1..N => next # 0
    BY <2>a
  <2>2. next # 0
    BY <1>5, <2>1, <2>c
  <2>3. next \in i + 1..N /\ t[next] = Slash /\ (next <= e)
    <3>1. next \in i + 1..N /\ t[next] = Slash /\ e \notin i + 1..next - 1
      BY <1>5, <2>1, <2>2
    <3> QED
      BY <1>1, <1>3, <2>1, <3>1
  <2>4. ~(next < e)
    BY <1>6, <2>3
  <2>5. next = e
    BY <1>1, <1>2, <1>3, <2>3, <2>4
  <2> QED
    BY <1>3, <1>7, <2>5 DEF i, p, N, e, next
<1>8. CASE k = p
  <2>1. \A y \in i + 1..N : y < e \/ y = N
    BY <1>1, <1>2, <1>3, <1>8
  <2>a. t[N] # Slash
    <3>1. EndMark # Slash
      BY DEF EndMark, Slash
    <3> QED
      BY <1>1, <3>1
  <2>2. \A y \in i + 1..N : t[y] # Slash
    BY <1>6, <2>1, <2>a
  <2>3. next = 0
    BY <1>5, <2>2
  <2>4. ~(k < p)
    BY <1>1, <1>8
  <2> QED
    BY <1>3, <2>3, <2>4 DEF i, p, N, e, next
<1>9. k < p \/ k = p
  BY <1>1 DEF p
<1> QED
  BY <1>7, <1>8, <1>9

\* A wildcard stands for the level, or for all that is left.
LEMMA WildCardsTried ==
    ASSUME NEW f \in Filters, NEW topic \in Topics, NEW t, t = Append(Chars(topic), EndMark),
           NEW R, NEW M, Unfolds(R, M, Chars(f), t),
           NEW j \in 1..Len(f), NEW k \in 1..Len(topic)
    PROVE  <<Start(f, j), Explored(topic, k), TRUE>> \in R <=>
              \/ <<Start(f, j), Explored(topic, k), FALSE>> \in R
              \/ f[j] = <<NumberSign>>
              \/ f[j] = <<Plus>> /\ Continued(R, f, topic, j, k)
<1> DEFINE F == Chars(f)
           n == Len(f)
           p == Len(topic)
           a == Start(f, j)
           b == Stop(f, j)
           u == f[j]
           i == Explored(topic, k)
           e == Stop(topic, k) + 1
           N == Len(t)
           Z == Len(F)
           Cont == Continued(R, f, topic, j, k)
           next == IndexOf(t, Slash, i + 1)
<1>1. /\ a \in Nat /\ b \in 0..Z /\ Z \in Nat /\ Len(u) \in Nat /\ n \in Nat \ {0}
      /\ j \in 1..n
      /\ b = a + Len(u)
      /\ \A x \in 1..Len(u) : F[a + x] = u[x]
      /\ j < n => F[b + 1] = Slash
      /\ j = n => b = Z
      /\ u = <<NumberSign>> => j = n
  BY FilterLaid
<1>2. u \in Seq(Ordinary) \cup WildCards
  BY FiltersTyped
<1>3. /\ N \in Nat \ {0} /\ p \in Nat \ {0} /\ k \in 1..p /\ e \in 1..N /\ (k = p => e = N)
  <2>1. N \in Nat \ {0} /\ p \in Nat \ {0} /\ LevelLaid(topic, t, k)
    BY TopicLaid
  <2> QED
    BY <2>1 DEF LevelLaid
<1>4. i \in 1..N /\ next = IF k < p THEN e ELSE 0
  BY NextSlash
<1>5. \A wild \in BOOLEAN : <<b, e, wild>> \in R <=> Cont
  BY Border
<1>6. Z \in M
  BY DEF Unfolds
<1>7. a \in 0..Z
  <2> HIDE DEF a, b, Z, u
  <2> QED
    BY <1>1
<1>8. <<a, i, TRUE>> \in R <=>
        \/ <<a, i, FALSE>> \in R
        \/ a < Z /\ F[a + 1] = NumberSign /\ <<a + 1, N, TRUE>> \in R
        \/ /\ a < Z /\ F[a + 1] = Plus
           /\ IF next # 0 THEN <<a + 1, next, TRUE>> \in R
              ELSE a + 1 \in M /\ <<a + 1, N, TRUE>> \in R
  BY <1>4, <1>7 DEF Unfolds
<1>9. <<Z, N, TRUE>> \in R
  <2>1. Z \in 0..Z /\ N \in 1..N
    BY <1>1, <1>3
  <2>2. \A x \in 0..Z, y \in 1..N :
          /\ <<x, y, FALSE>> \in R => <<x, y, TRUE>> \in R
          /\ y = N /\ x = Z => <<x, y, FALSE>> \in R
    BY DEF Unfolds
  <2> QED
    BY <2>1, <2>2
<1>10. Cont <=> (j = n /\ k = p) \/ (j < n /\ k < p /\ Cont)
  BY DEF Continued
<1> HIDE DEF F, n, p, a, b, u, i, e, N, Z, Cont, next
<1>11. ASSUME NEW char \in {Plus, NumberSign}
       PROVE  /\ a < Z /\ F[a + 1] = char <=> u = <<char>>
              /\ u = <<char>> => b = a + 1
  <2>1. ASSUME u = <<char>> PROVE a < Z /\ F[a + 1] = char /\ b = a + 1
    <3>1. Len(u) = 1 /\ u[1] = char
      BY <2>1
    <3>2. 1 \in 1..Len(u)
      BY <3>1
    <3>3. F[a + 1] = u[1]
      BY <1>1, <3>2
    <3>4. b = a + 1 /\ a < Z
      BY <1>1, <3>1
    <3> QED
      BY <3>1, <3>3, <3>4
  <2>2. ASSUME a < Z, F[a + 1] = char PROVE u = <<char>>
    <3>1. CASE u \in WildCards
      <4>1. PICK other \in {Plus, NumberSign} : u = <<other>>
        BY <3>1 DEF WildCards
      <4>2. Len(u) = 1 /\ u[1] = other
        BY <4>1
      <4>3. 1 \in 1..Len(u)
        BY <4>2
      <4>4. F[a + 1] = u[1]
        BY <1>1, <4>3
      <4> QED
        BY <2>2, <4>1, <4>2, <4>4
    <3>2. CASE u \in Seq(Ordinary) /\ Len(u) # 0
      <4>1. 1 \in 1..Len(u)
        BY <1>1, <3>2
      <4>2. F[a + 1] = u[1] /\ u[1] \in Ordinary
        BY <1>1, <3>2, <4>1
      <4> QED
        BY <2>2, <4>2 DEF Ordinary
    <3>3. CASE Len(u) = 0
      <4>1. b = a /\ j # n
        BY <1>1, <2>2, <3>3
      <4>2. F[a + 1] = Slash
        BY <1>1, <4>1
      <4> QED
        BY <2>2, <4>2 DEF Slash, Plus, NumberSign
    <3> QED
      BY <1>2, <3>1, <3>2, <3>3
  <2> QED
    BY <2>1, <2>2
<1>12. a < Z /\ F[a + 1] = NumberSign /\ <<a + 1, N, TRUE>> \in R <=> u = <<NumberSign>>
  <2>1. u = <<NumberSign>> => b = a + 1 /\ b = Z
    BY <1>1, <1>11
  <2>2. u = <<NumberSign>> => <<a + 1, N, TRUE>> \in R
    BY <1>9, <2>1
  <2> QED
    BY <1>11, <2>2
<1>13. ASSUME u = <<Plus>>
       PROVE  (IF next # 0 THEN <<a + 1, next, TRUE>> \in R
               ELSE a + 1 \in M /\ <<a + 1, N, TRUE>> \in R) <=> Cont
  <2>1. b = a + 1
    BY <1>11, <1>13
  <2>2. CASE k < p
    <3>1. next = e /\ e # 0
      BY <1>3, <1>4, <2>2
    <3> QED
      BY <1>5, <2>1, <3>1
  <2>3. CASE k = p
    <3>1. next = 0 /\ e = N
      BY <1>3, <1>4, <2>3
    <3>2. <<a + 1, N, TRUE>> \in R <=> Cont
      BY <1>5, <2>1, <3>1
    <3>3. Cont => j = n
      BY <1>3, <1>10, <2>3
    <3>4. Cont => a + 1 \in M
      BY <1>1, <1>6, <2>1, <3>3
    <3> QED
      BY <3>1, <3>2, <3>4
  <2> QED
    BY <1>3, <2>2, <2>3
<1>14. <<a, i, TRUE>> \in R <=>
         <<a, i, FALSE>> \in R \/ u = <<NumberSign>> \/ (u = <<Plus>> /\ Cont)
  BY <1>8, <1>11, <1>12, <1>13
<1> QED
  BY <1>14 DEF a, i, u, Cont

\* The visits go through the filter level by level.
LEMMA LevelsUnfold ==
    ASSUME NEW f \in Filters, NEW topic \in Topics, NEW t, t = Append(Chars(topic), EndMark),
           NEW R, NEW M, Unfolds(R, M, Chars(f), t)
    PROVE  <<0, 1, TRUE>> \in R <=> \E reading \in Readings(f) : Matches(reading, topic)
<1> DEFINE n == Len(f)
           p == Len(topic)
           E == {pair \in Opposite(f, topic) : Started(R, f, topic, pair[1], pair[2])}
<1>1. /\ n \in Nat \ {0} /\ p \in Nat \ {0} /\ f[1] # <<>> /\ Start(f, 1) = 0
      /\ Start(topic, 1) = 0
  BY FilterLaid, TopicLaid
<1>2. \A j, k : <<j, k>> \in E <=>
                  <<j, k>> \in Opposite(f, topic) /\ Started(R, f, topic, j, k)
  OBVIOUS
<1> HIDE DEF E
<1>3. LevelByLevel(E, f, topic)
  <2> SUFFICES ASSUME NEW j, NEW k, <<j, k>> \in Opposite(f, topic)
               PROVE  <<j, k>> \in E <=>
                        \/ /\ f[j] = <<Plus>> \/ f[j] = topic[k]
                           /\ \/ j = n /\ k = p
                              \/ j < n /\ k < p /\ <<j + 1, k + 1>> \in E
                        \/ f[j] = <<NumberSign>>
                        \/ f[j] = <<>> /\ j < n /\ <<j + 1, k>> \in E
    BY DEF LevelByLevel
  <2>1. j \in 1..n /\ k \in 1..p /\ ((j = 1 /\ k = 1) \/ (j \in 2..n /\ k \in 2..p))
    <3>1. (j = 1 /\ k = 1) \/ (j \in 2..n /\ k \in 2..p)
      BY DEF Opposite
    <3> HIDE DEF n, p
    <3> QED
      BY <1>1, <3>1
  <2> DEFINE a == Start(f, j)
             s == Start(topic, k)
             Cont == Continued(R, f, topic, j, k)
             Wild == f[j] = <<NumberSign>> \/ (f[j] = <<Plus>> /\ Cont)
  <2>2. <<a, s + 1, FALSE>> \in R <=> f[j] = topic[k] /\ Cont
    BY <2>1, NameCompared
  <2>3. <<a, Explored(topic, k), TRUE>> \in R <=> <<a, Explored(topic, k), FALSE>> \in R \/ Wild
    BY <2>1, WildCardsTried
  <2>4. Started(R, f, topic, j, k) <=>
           <<a, s + 1, FALSE>> \in R \/ <<a, Explored(topic, k), TRUE>> \in R
    BY DEF Started, Explored
  <2>5. Cont <=> (j = n /\ k = p) \/ (j < n /\ k < p /\ <<j + 1, k + 1>> \in E)
    <3>1. ASSUME j < n, k < p PROVE <<j + 1, k + 1>> \in Opposite(f, topic)
      <4>1. j + 1 \in 2..n /\ k + 1 \in 2..p
        <5> HIDE DEF n, p
        <5> QED
          BY <1>1, <2>1, <3>1
      <4> QED
        BY <4>1 DEF Opposite
    <3> QED
      BY <1>2, <3>1 DEF Continued
  <2>6. <<a, Explored(topic, k), FALSE>> \in R <=>
           \/ k = 1 /\ <<a, s + 1, FALSE>> \in R
           \/ f[j] = <<>> /\ j < n /\ <<j + 1, k>> \in E
    <3>1. CASE k = 1
      <4>1. j = 1 /\ s + 1 = 1 /\ Explored(topic, k) = 1 /\ f[j] # <<>>
        BY <1>1, <2>1, <3>1 DEF Explored
      <4> QED
        BY <3>1, <4>1
    <3>2. CASE k # 1
      <4> DEFINE F == Chars(f)
                 N == Len(t)
                 Z == Len(F)
                 u == f[j]
                 b == Stop(f, j)
      <4>1. /\ a \in Nat /\ b \in 0..Z /\ Z \in Nat /\ Len(u) \in Nat
            /\ b = a + Len(u)
            /\ \A x \in 1..Len(u) : F[a + x] = u[x] /\ u[x] # Slash
            /\ j < n => F[b + 1] = Slash /\ b < Z /\ Start(f, j + 1) = b + 1
            /\ j = n => b = Z
        BY <2>1, FilterLaid
      <4>2. s \in 1..N - 1 /\ t[s] = Slash /\ N \in Nat /\ Explored(topic, k) = s
        <5>1. LevelLaid(topic, t, k) /\ N \in Nat \ {0}
          BY <2>1, TopicLaid
        <5> QED
          BY <3>2, <5>1 DEF LevelLaid, Explored
      <4>3. \A x \in 0..Z, i \in 1..N :
              <<x, i, FALSE>> \in R <=>
                  IF i = N THEN x = Z
                  ELSE /\ x < Z /\ F[x + 1] = t[i]
                       /\ <<x + 1, i + 1, FALSE>> \in R
                          \/ (t[i] = Slash /\ <<x + 1, i, TRUE>> \in R)
        BY DEF Unfolds
      <4>4. u = <<>> <=> Len(u) = 0
        <5>1. u \in Seq(Characters)
          BY <2>1, FiltersTyped
        <5> HIDE DEF u
        <5> QED
          BY <5>1
      <4>5. j < n =>
              (Started(R, f, topic, j + 1, k) <=>
                  <<b + 1, s + 1, FALSE>> \in R \/ <<b + 1, s, TRUE>> \in R)
        BY <3>2, <4>1 DEF Started
      <4>6. u = <<>> /\ j < n => <<j + 1, k>> \in Opposite(f, topic)
        <5>1. j < n => j + 1 \in 2..n /\ k \in 2..p
          <6> HIDE DEF n, p
          <6> QED
            BY <1>1, <2>1, <3>2
        <5> QED
          BY <5>1 DEF Opposite
      <4> HIDE DEF F, N, Z, u, b, a, s
      <4>7. a \in 0..Z /\ s \in 1..N /\ s # N
        BY <4>1, <4>2
      <4>8. <<a, s, FALSE>> \in R <=>
               /\ a < Z /\ F[a + 1] = Slash
               /\ <<a + 1, s + 1, FALSE>> \in R \/ <<a + 1, s, TRUE>> \in R
        BY <4>2, <4>3, <4>7
      <4>9. a < Z /\ F[a + 1] = Slash <=> Len(u) = 0 /\ j < n
        <5>1. CASE Len(u) = 0
          <6>1. b = a /\ (j < n \/ j = n) /\ (j = n => ~(j < n))
            <7>1. b = a
              BY <4>1, <5>1
            <7>2. j \in 1..n /\ n \in Nat
              BY <1>1, <2>1
            <7> HIDE DEF n
            <7> QED
              BY <7>1, <7>2
          <6>2. b = Z => ~(b < Z)
            BY <4>1
          <6> QED
            BY <4>1, <5>1, <6>1, <6>2
        <5>2. CASE Len(u) # 0
          <6>1. 1 \in 1..Len(u)
            BY <4>1, <5>2
          <6>2. F[a + 1] # Slash
            BY <4>1, <6>1
          <6> QED
            BY <5>2, <6>2
        <5> QED
          BY <5>1, <5>2
      <4>10. Len(u) = 0 => a + 1 = b + 1
        BY <4>1
      <4>11. <<a, s, FALSE>> \in R <=> u = <<>> /\ j < n /\ Started(R, f, topic, j + 1, k)
        BY <4>4, <4>5, <4>8, <4>9, <4>10
      <4>12. <<a, s, FALSE>> \in R <=> u = <<>> /\ j < n /\ <<j + 1, k>> \in E
        BY <1>2, <4>6, <4>11
      <4> QED
        BY <3>2, <4>2, <4>12 DEF u
    <3> QED
      BY <3>1, <3>2
  <2>7. <<j, k>> \in E <=> Started(R, f, topic, j, k)
    BY <1>2
  <2> HIDE DEF a, s, Cont
  <2>8. <<j, k>> \in E <=>
           \/ f[j] = topic[k] /\ Cont
           \/ f[j] = <<>> /\ j < n /\ <<j + 1, k>> \in E
           \/ Wild
    BY <2>2, <2>3, <2>4, <2>6, <2>7
  <2> QED
    BY <2>5, <2>8
<1>4. <<1, 1>> \in E <=> <<0, 1, TRUE>> \in R
  <2>1. <<1, 1>> \in E <=> <<0, 1, FALSE>> \in R \/ <<0, 1, TRUE>> \in R
    <3>1. <<1, 1>> \in Opposite(f, topic)
      BY DEF Opposite
    <3>2. 0 + 1 = 1
      OBVIOUS
    <3>3. Started(R, f, topic, 1, 1) <=> <<0, 1, FALSE>> \in R \/ <<0, 1, TRUE>> \in R
      BY <1>1, <3>2, Zenon DEF Started
    <3> QED
      BY <1>2, <3>1, <3>3
  <2>2. <<0, 1, FALSE>> \in R => <<0, 1, TRUE>> \in R
    <3>1. 0 \in 0..Len(Chars(f)) /\ 1 \in 1..Len(t)
      BY FilterLaid, TopicLaid
    <3> QED
      BY <3>1 DEF Unfolds
  <2> QED
    BY <2>1, <2>2
<1> QED
  BY <1>3, <1>4, LevelsMatch

-----------------------------------------------------------------------------
(* The way to a head, and what is found of it.                             *)

\* The list of a level has its head.
LEMMA HeadOfList ==
    ASSUME NEW h, NEW level, NEW rank, NEW K, Tree(h, level, rank, K), NEW n \in DOMAIN h
    PROVE  \E x \in Heads(h) : level[x] = level[n]
<1> DEFINE D == DOMAIN h
           T == {x \in D : level[x] = level[n]}
<1>1. /\ K \in Nat /\ rank \in [D -> 0..K] /\ T \in SUBSET D /\ T # {}
  BY DEF Tree, Lists
<1>2. PICK x \in T : \A y \in T : rank[y] <= rank[x]
  <2> HIDE DEF D, T
  <2> QED
    BY <1>1, HighestRank
<1>3. x \in D /\ level[x] = level[n]
  OBVIOUS
<1>4. CASE x \in Heads(h)
  BY <1>3, <1>4
<1>5. CASE x \notin Heads(h)
  <2>1. x \in Brothers(h)
    BY <1>3, <1>5 DEF Brothers
  <2>2. PICK y \in D : h[y].bro = x
    BY <2>1 DEF Tree, ParentInv
  <2>3. x # NULL
    BY <1>3, ListsTyped DEF Tree
  <2>4. level[x] = level[y] /\ rank[x] < rank[y]
    BY <2>2, <2>3 DEF Tree, Lists, ListInv
  <2>5. rank[y] <= rank[x]
    BY <1>2, <1>3, <2>4
  <2>6. rank[x] \in Nat /\ rank[y] \in Nat
    BY <1>3, <2>2, ListsTyped DEF Tree
  <2> QED
    BY <2>4, <2>5, <2>6
<1> QED
  BY <1>4, <1>5

\* The heads on the way to a head.
Way(at, h, level, m) ==
    LET F == level[m] IN
    /\ at \in [0..Len(F) -> Heads(h)]
    /\ at[0] = Root /\ at[Len(F)] = m
    /\ \A k \in 0..Len(F) : Len(level[at[k]]) = k
    /\ \A k \in 0..Len(F) - 1 : level[at[k + 1]] = Append(level[at[k]], F[k + 1])

LEMMA WayTo ==
    ASSUME NEW h, NEW level, NEW rank, NEW K, Tree(h, level, rank, K), NEW m \in Heads(h)
    PROVE  \E at : Way(at, h, level, m)
<1> DEFINE F == level[m]
           L == Len(F)
           Ahead(x, k) == x \in Heads(h) /\ Len(level[x]) = k /\ Begins(level[x], F)
           T == {d \in 0..L : \E x : Ahead(x, L - d)}
<1>1. /\ \A x \in Heads(h) : level[x] \in Seq(Nat) /\ x \in DOMAIN h
      /\ F \in Seq(Nat) /\ L \in Nat
  <2>1. \A x \in Heads(h) : level[x] \in Seq(Nat) /\ x \in DOMAIN h
    BY ListsTyped DEF Tree
  <2> QED
    BY <2>1
<1>2. /\ Root \in Heads(h) /\ level[Root] = <<>>
      /\ \A x, y \in Heads(h) : level[x] = level[y] => x = y
  BY DEF Tree, PlaceInv
<1> HIDE DEF F, L
<1>3. 0 \in T
  <2>1. L - 0 = L /\ 0 \in 0..L
    BY <1>1
  <2>2. Begins(F, F)
    BY <1>1 DEF Begins
  <2>3. Ahead(m, L)
    BY <2>2 DEF F, L
  <2> QED
    BY <2>1, <2>3
<1>4. ASSUME NEW d \in 0..L - 1, d \in T PROVE d + 1 \in T
  <2>1. L - d \in Nat \ {0} /\ d + 1 \in 0..L /\ L - (d + 1) = (L - d) - 1
    BY <1>1
  <2>2. PICK x : Ahead(x, L - d)
    BY <1>4
  <2>3. x \in Heads(h) \ {Root}
    <3>1. Len(<<>>) = 0
      OBVIOUS
    <3> QED
      BY <1>2, <2>1, <2>2, <3>1
  <2>4. PICK b \in Brothers(h) : h[b].son = x
    BY <2>3 DEF Tree, ParentInv
  <2> DEFINE c == h[b].character
  <2>5. level[x] = Append(level[b], c)
    BY <2>4 DEF Tree, SonInv
  <2>6. b \in DOMAIN h /\ c \in Nat
    BY ListsTyped DEF Tree, Characters
  <2>7. PICK y \in Heads(h) : level[y] = level[b]
    BY <2>6, HeadOfList
  <2> DEFINE u == level[y]
  <2>8. u \in Seq(Nat) /\ level[x] = Append(u, c)
    BY <1>1, <2>5, <2>7
  <2> HIDE DEF u, c
  <2>9. Len(Append(u, c)) = Len(u) + 1 /\ Len(u) \in Nat
    BY <2>8
  <2>10. Len(u) = L - (d + 1)
    BY <2>1, <2>2, <2>8, <2>9
  <2>11. Begins(u, F)
    BY <1>1, <2>2, <2>6, <2>8, BeginsOn
  <2>12. Ahead(y, L - (d + 1))
    BY <2>10, <2>11 DEF u
  <2> HIDE DEF Ahead
  <2> QED
    BY <2>1, <2>12
<1>5. T = 0..L
  <2>1. T \in SUBSET (0..L) /\ L \in Nat
    BY <1>1
  <2> HIDE DEF T
  <2> QED
    BY <1>3, <1>4, <2>1, Climb
<1>6. \A k \in 0..L : \E x : Ahead(x, k)
  <2> TAKE k \in 0..L
  <2>1. L - k \in 0..L /\ L - (L - k) = k
    BY <1>1
  <2>2. \E x : Ahead(x, L - (L - k))
    BY <1>5, <2>1
  <2> QED
    BY <2>1, <2>2
<1> DEFINE at == [k \in 0..L |-> CHOOSE x : Ahead(x, k)]
<1>7. \A k \in 0..L : Ahead(at[k], k)
  <2> HIDE DEF Ahead
  <2> QED
    BY <1>6
<1>8. at \in [0..L -> Heads(h)]
  <2>1. \A k \in 0..L : at[k] \in Heads(h)
    BY <1>7
  <2> QED
    BY <2>1
<1> HIDE DEF at
<1>9. \A k \in 0..L : /\ level[at[k]] \in Seq(Nat) /\ Len(level[at[k]]) = k
                      /\ at[k] \in Heads(h)
                      /\ \A i \in 1..k : level[at[k]][i] = F[i]
  BY <1>1, <1>7 DEF Begins
<1>10. 0 \in 0..L /\ L \in 0..L /\ \A k \in 0..L - 1 : k \in 0..L /\ k + 1 \in 0..L
  BY <1>1
<1>11. at[0] = Root
  <2>1. level[at[0]] = <<>>
    <3>1. level[at[0]] \in Seq(Nat) /\ Len(level[at[0]]) = 0
      BY <1>9, <1>10
    <3> QED
      BY <3>1
  <2> QED
    BY <1>2, <1>9, <1>10, <2>1
<1>12. at[L] = m
  <2> DEFINE u == level[at[L]]
  <2>1. u \in Seq(Nat) /\ Len(u) = L /\ at[L] \in Heads(h) /\ \A i \in 1..L : u[i] = F[i]
    BY <1>9, <1>10
  <2> HIDE DEF u
  <2>2. u = F
    BY <1>1, <2>1, SeqEqual DEF L
  <2> QED
    BY <1>2, <2>1, <2>2 DEF u, F
<1>13. ASSUME NEW k \in 0..L - 1 PROVE level[at[k + 1]] = Append(level[at[k]], F[k + 1])
  <2> DEFINE u == level[at[k]]
             v == level[at[k + 1]]
             c == F[k + 1]
  <2>1. /\ u \in Seq(Nat) /\ Len(u) = k /\ \A i \in 1..k : u[i] = F[i]
        /\ v \in Seq(Nat) /\ Len(v) = k + 1 /\ \A i \in 1..k + 1 : v[i] = F[i]
    BY <1>9, <1>10
  <2>2. c \in Nat /\ k \in Nat /\ k + 1 \in 1..k + 1
    <3>1. k \in Nat /\ k + 1 \in 1..L
      BY <1>1
    <3> QED
      BY <1>1, <3>1 DEF L
  <2>3. v[k + 1] = c
    BY <2>1, <2>2
  <2> HIDE DEF u, v, c
  <2>4. /\ Append(u, c) \in Seq(Nat) /\ Len(Append(u, c)) = k + 1 /\ Append(u, c)[k + 1] = c
        /\ \A i \in 1..k : Append(u, c)[i] = u[i]
    BY <2>1, <2>2
  <2>5. \A i \in 1..k + 1 : i = k + 1 \/ i \in 1..k
    BY <2>2
  <2>6. \A i \in 1..k + 1 : Append(u, c)[i] = v[i]
    BY <2>1, <2>3, <2>4, <2>5
  <2>7. v = Append(u, c)
    BY <2>1, <2>4, <2>6, SeqEqual
  <2> QED
    BY <2>7 DEF u, v, c
<1>14. Way(at, h, level, m)
  BY <1>8, <1>9, <1>11, <1>12, <1>13 DEF Way, F, L
<1> QED
  BY <1>14

\* The places on the way to a head from which a lookup finds it.
Places(at, level, t, m) ==
    {place \in (0..Len(level[m])) \X (1..Len(t)) \X BOOLEAN :
        m \in Range(Finds(t)[<<at[place[1]], place[2], place[3]>>])}

EndsAt(at, level, m) == {k \in 0..Len(level[m]) : heap[at[k]].character = EndMark}

\* A lookup finds a marked head as its characters and those of the topic say.
LEMMA Unfolded ==
    ASSUME NEW level, NEW rank, NEW K, Tree(heap, level, rank, K), NEW t, Marked(t),
           NEW m \in Heads(heap), heap[m].character = EndMark, level[m] \in Seq(Characters),
           NEW at, Way(at, heap, level, m)
    PROVE  Unfolds(Places(at, level, t, m), EndsAt(at, level, m), level[m], t)
<1> DEFINE F == level[m]
           L == Len(F)
           N == Len(t)
           R == Places(at, level, t, m)
           M == EndsAt(at, level, m)
           In(call) == m \in Range(Finds(t)[call])
<1>1. /\ F \in Seq(Characters) /\ L \in Nat /\ N \in Nat \ {0} /\ m \in DOMAIN heap
      /\ \A i \in 1..N : i # N => i + 1 \in 1..N
  <2>1. F \in Seq(Characters) /\ L \in Nat
    OBVIOUS
  <2>2. N \in Nat \ {0}
    BY MarkedTyped
  <2>3. \A i \in 1..N : i # N => i + 1 \in 1..N
    BY MarkedTyped
  <2>4. m \in DOMAIN heap
    BY ListsTyped DEF Tree
  <2> QED
    BY <2>1, <2>2, <2>3, <2>4
<1>2. /\ \A k \in 0..L : at[k] \in Heads(heap) /\ Len(level[at[k]]) = k
      /\ at[0] = Root /\ at[L] = m
      /\ \A k \in 0..L - 1 : level[at[k + 1]] = Append(level[at[k]], F[k + 1])
  BY DEF Way
<1>3. \A k \in 0..L, i \in 1..N, b \in BOOLEAN : <<k, i, b>> \in R <=> In(<<at[k], i, b>>)
  BY DEF Places
<1>4. L \in M
  <2>1. L \in 0..L
    BY <1>1
  <2>2. heap[at[L]].character = EndMark
    BY <1>2
  <2> QED
    BY <2>1, <2>2 DEF EndsAt
<1>5. \A k \in 0..L : k \in M <=> heap[at[k]].character = EndMark
  BY DEF EndsAt
<1> HIDE DEF F, L, N, R, M, In
<1>6. ASSUME NEW k \in 0..L, k < L
      PROVE  /\ k + 1 \in 0..L /\ F[k + 1] \in Characters
             /\ Find(heap, at[k], F[k + 1]) = at[k + 1]
             /\ at[k + 1] \in Heads(heap) /\ at[k + 1] # NULL
  <2>1. k + 1 \in 0..L /\ k + 1 \in 1..L /\ k \in 0..L - 1
    BY <1>1, <1>6
  <2>2. F[k + 1] \in Characters
    BY <1>1, <2>1 DEF L
  <2>3. level[at[k + 1]] = Append(level[at[k]], F[k + 1])
    BY <1>2, <2>1
  <2>4. at[k] \in Heads(heap) /\ at[k + 1] \in Heads(heap)
    BY <1>2, <2>1
  <2> DEFINE c == F[k + 1]
             s == at[k + 1]
             n == at[k]
  <2> HIDE DEF c, s, n
  <2>5. c \in Characters /\ s \in Heads(heap) /\ n \in Heads(heap) /\ level[s] = Append(level[n], c)
    BY <2>2, <2>3, <2>4 DEF c, s, n
  <2>6. Find(heap, n, c) = s
    BY <2>5, FindHead
  <2>7. s # NULL
    BY <2>5, ListsTyped DEF Tree
  <2> QED
    BY <2>1, <2>2, <2>4, <2>6, <2>7 DEF c, s, n
<1>7. ASSUME NEW k \in 0..L, NEW c, Through(level, at[k], c, m) PROVE k < L /\ F[k + 1] = c
  <2>1. Len(level[at[k]]) = k
    BY <1>2
  <2> QED
    BY <1>7, <2>1 DEF Through, F, L
<1>8. ASSUME NEW k \in 0..L, NEW i \in 1..N
      PROVE  /\ In(<<at[k], i, FALSE>>) <=>
                   IF i = N THEN k = L
                   ELSE /\ k < L /\ F[k + 1] = t[i]
                        /\ In(<<at[k + 1], i + 1, FALSE>>)
                           \/ (t[i] = Slash /\ In(<<at[k + 1], i, TRUE>>))
             /\ In(<<at[k], i, TRUE>>) <=>
                   \/ In(<<at[k], i, FALSE>>)
                   \/ k < L /\ F[k + 1] = NumberSign /\ In(<<at[k + 1], N, TRUE>>)
                   \/ /\ k < L /\ F[k + 1] = Plus
                      /\ LET next == IndexOf(t, Slash, i + 1) IN
                         IF next # 0 THEN In(<<at[k + 1], next, TRUE>>)
                         ELSE k + 1 \in M /\ In(<<at[k + 1], N, TRUE>>)
  <2> DEFINE n == at[k]
             NL == NextLevel(t, n, i)
             NC == NextCharacter(t, n, i)
             P == PlusWildCard(t, n, i)
             W == NumberSignWildCard(t, n)
             V == <<n, i, FALSE>>
             next == IndexOf(t, Slash, i + 1)
  <2>1. n \in Heads(heap) /\ i \in 1..Len(t) /\ (i # Len(t) <=> i # N)
    BY <1>2 DEF N
  <2>2. /\ Finds(t)[V] \in Seq(DOMAIN heap)
        /\ Finds(t)[P] \in Seq(DOMAIN heap)
        /\ In(P) => Through(level, n, Plus, m)
        /\ Finds(t)[W] \in Seq(DOMAIN heap)
        /\ In(W) => Through(level, n, NumberSign, m)
        /\ i # N =>
             /\ Finds(t)[NL] \in Seq(DOMAIN heap)
             /\ In(NL) => t[i] = Slash /\ Through(level, n, Slash, m)
             /\ Finds(t)[NC] \in Seq(DOMAIN heap)
             /\ In(NC) => Through(level, n, t[i], m)
    <3> HIDE DEF n
    <3>1. /\ \A b \in BOOLEAN : Finds(t)[<<n, i, b>>] \in Seq(DOMAIN heap)
          /\ Finds(t)[P] \in Seq(DOMAIN heap)
          /\ \A x \in Range(Finds(t)[P]) : Through(level, n, Plus, x)
          /\ Finds(t)[W] \in Seq(DOMAIN heap)
          /\ \A x \in Range(Finds(t)[W]) : Through(level, n, NumberSign, x)
          /\ i # Len(t) =>
               /\ Finds(t)[NL] \in Seq(DOMAIN heap)
               /\ \A x \in Range(Finds(t)[NL]) : t[i] = Slash /\ Through(level, n, Slash, x)
               /\ Finds(t)[NC] \in Seq(DOMAIN heap)
               /\ \A x \in Range(Finds(t)[NC]) : Through(level, n, t[i], x)
      BY <2>1, PartsBelow
    <3> HIDE DEF NL, NC, P, W
    <3> QED
      BY <2>1, <3>1 DEF In
  <2>3. i = N => (In(V) <=> k = L)
    <3> SUFFICES ASSUME i = N PROVE In(V) <=> k = L
      OBVIOUS
    <3>1. Finds(t)[V] = IF heap[n].character = EndMark THEN <<n>> ELSE <<>>
      BY <2>1, FindsFrom DEF N
    <3>2. Range(<<n>>) = {n} /\ Range(<<>>) = {}
      BY Alone
    <3>3. In(V) <=> heap[n].character = EndMark /\ m = n
      BY <3>1, <3>2 DEF In
    <3>4. m = n <=> k = L
      <4>1. m = n => k = Len(level[m])
        BY <1>2
      <4> QED
        BY <1>2, <4>1 DEF L, F
    <3> QED
      BY <3>3, <3>4
  <2>4. i # N => (In(V) <=> In(NL) \/ In(NC))
    <3> SUFFICES ASSUME i # N PROVE In(V) <=> In(NL) \/ In(NC)
      OBVIOUS
    <3> DEFINE u == Finds(t)[NL]
               v == Finds(t)[NC]
    <3>1. Finds(t)[V] = u \o v
      BY <2>1, FindsFrom
    <3>2. u \in Seq(DOMAIN heap) /\ v \in Seq(DOMAIN heap)
      BY <2>2
    <3> HIDE DEF u, v
    <3>3. Range(u \o v) = Range(u) \cup Range(v)
      BY <3>2, Joined
    <3> QED
      BY <3>1, <3>3 DEF In, u, v
  <2>5. In(<<n, i, TRUE>>) <=> In(P) \/ In(W) \/ In(V)
    <3> DEFINE u == Finds(t)[P]
               v == Finds(t)[W]
               w == Finds(t)[V]
    <3>1. Finds(t)[<<n, i, TRUE>>] = (u \o v) \o w
      BY <2>1, FindsFrom
    <3>2. u \in Seq(DOMAIN heap) /\ v \in Seq(DOMAIN heap) /\ w \in Seq(DOMAIN heap)
      BY <2>2
    <3> HIDE DEF u, v, w
    <3>3. u \o v \in Seq(DOMAIN heap) /\ Range(u \o v) = Range(u) \cup Range(v)
      BY <3>2, Joined
    <3> DEFINE q == u \o v
    <3>a. q \in Seq(DOMAIN heap)
      BY <3>3
    <3> HIDE DEF q
    <3>4. Range(q \o w) = Range(q) \cup Range(w)
      BY <3>2, <3>a, Joined
    <3>5. m \in Range((u \o v) \o w) <=> m \in Range(u) \/ m \in Range(v) \/ m \in Range(w)
      BY <3>3, <3>4 DEF q
    <3> QED
      BY <3>1, <3>5 DEF In, u, v, w
  <2>6. k < L /\ F[k + 1] = t[i] => NC = <<at[k + 1], i + 1, FALSE>>
    BY <1>6 DEF NextCharacter
  <2>7. k < L /\ F[k + 1] = Slash /\ t[i] = Slash => NL = <<at[k + 1], i, TRUE>>
    BY <1>6 DEF NextLevel
  <2>8. k < L /\ F[k + 1] = NumberSign => W = <<at[k + 1], N, TRUE>>
    BY <1>6 DEF NumberSignWildCard, N
  <2>9. k < L /\ F[k + 1] = Plus =>
           (In(P) <=> IF next # 0 THEN In(<<at[k + 1], next, TRUE>>)
                      ELSE k + 1 \in M /\ In(<<at[k + 1], N, TRUE>>))
    <3> SUFFICES ASSUME k < L, F[k + 1] = Plus
                 PROVE  In(P) <=> IF next # 0 THEN In(<<at[k + 1], next, TRUE>>)
                                  ELSE k + 1 \in M /\ In(<<at[k + 1], N, TRUE>>)
      OBVIOUS
    <3> DEFINE s == at[k + 1]
    <3>1. Find(heap, n, Plus) = s /\ s # NULL /\ s \in Heads(heap) /\ k + 1 \in 0..L
      BY <1>6
    <3>2. Find(heap, s, EndMark) = IF heap[s].character = EndMark THEN s ELSE NULL
      BY <3>1, FindEnd
    <3>3. P = IF next # 0 THEN <<s, next, TRUE>> ELSE <<Find(heap, s, EndMark), N, TRUE>>
      BY <3>1 DEF PlusWildCard, N
    <3>4. ~In(<<NULL, N, TRUE>>)
      <4>1. N \in 1..Len(t)
        BY <1>1 DEF N
      <4>2. Finds(t)[<<NULL, N, TRUE>>] = <<>>
        BY <4>1, FindsFrom
      <4>3. Range(<<>>) = {}
        BY DEF Range
      <4> QED
        BY <4>2, <4>3 DEF In
    <3>5. k + 1 \in M <=> heap[s].character = EndMark
      BY <1>5, <3>1
    <3> HIDE DEF s, P, n
    <3>6. CASE next # 0
      BY <3>3, <3>6 DEF s
    <3>7. CASE next = 0
      <4>1. CASE heap[s].character = EndMark
        <5>1. P = <<s, N, TRUE>>
          BY <3>2, <3>3, <3>7, <4>1
        <5> QED
          BY <3>5, <3>7, <4>1, <5>1 DEF s
      <4>2. CASE heap[s].character # EndMark
        <5>1. P = <<NULL, N, TRUE>>
          BY <3>2, <3>3, <3>7, <4>2
        <5> QED
          BY <3>4, <3>5, <3>7, <4>2, <5>1
      <4> QED
        BY <4>1, <4>2
    <3> QED
      BY <3>6, <3>7
  <2>10. ASSUME NEW c, Through(level, n, c, m) PROVE k < L /\ F[k + 1] = c
    BY <1>7, <2>10
  <2>11. i # N =>
           (In(NC) <=> k < L /\ F[k + 1] = t[i] /\ In(<<at[k + 1], i + 1, FALSE>>))
    <3>1. i # N /\ In(NC) => k < L /\ F[k + 1] = t[i]
      BY <2>2, <2>10
    <3> HIDE DEF NC
    <3> QED
      BY <2>6, <3>1
  <2>12. i # N =>
           (In(NL) <=> /\ k < L /\ F[k + 1] = t[i]
                       /\ t[i] = Slash /\ In(<<at[k + 1], i, TRUE>>))
    <3>1. i # N /\ In(NL) => t[i] = Slash /\ k < L /\ F[k + 1] = Slash
      BY <2>2, <2>10
    <3> HIDE DEF NL
    <3> QED
      BY <2>7, <3>1
  <2>13. In(W) <=> k < L /\ F[k + 1] = NumberSign /\ In(<<at[k + 1], N, TRUE>>)
    <3>1. In(W) => k < L /\ F[k + 1] = NumberSign
      BY <2>2, <2>10
    <3> HIDE DEF W
    <3> QED
      BY <2>8, <3>1
  <2>14. In(P) <=> /\ k < L /\ F[k + 1] = Plus
                   /\ IF next # 0 THEN In(<<at[k + 1], next, TRUE>>)
                      ELSE k + 1 \in M /\ In(<<at[k + 1], N, TRUE>>)
    <3>1. In(P) => k < L /\ F[k + 1] = Plus
      BY <2>2, <2>10
    <3> HIDE DEF P, next
    <3> QED
      BY <2>9, <3>1
  <2> HIDE DEF NL, NC, P, W, V
  <2>15. In(V) <=> IF i = N THEN k = L
                   ELSE /\ k < L /\ F[k + 1] = t[i]
                        /\ In(<<at[k + 1], i + 1, FALSE>>)
                           \/ (t[i] = Slash /\ In(<<at[k + 1], i, TRUE>>))
    BY <2>3, <2>4, <2>11, <2>12
  <2> QED
    BY <2>5, <2>13, <2>14, <2>15 DEF V
<1>9. ASSUME NEW k \in 0..L, NEW i \in 1..N
      PROVE  /\ <<k, i, FALSE>> \in R <=>
                   IF i = N THEN k = L
                   ELSE /\ k < L /\ F[k + 1] = t[i]
                        /\ <<k + 1, i + 1, FALSE>> \in R
                           \/ (t[i] = Slash /\ <<k + 1, i, TRUE>> \in R)
             /\ <<k, i, TRUE>> \in R <=>
                   \/ <<k, i, FALSE>> \in R
                   \/ k < L /\ F[k + 1] = NumberSign /\ <<k + 1, N, TRUE>> \in R
                   \/ /\ k < L /\ F[k + 1] = Plus
                      /\ LET next == IndexOf(t, Slash, i + 1) IN
                         IF next # 0 THEN <<k + 1, next, TRUE>> \in R
                         ELSE k + 1 \in M /\ <<k + 1, N, TRUE>> \in R
  <2> DEFINE next == IndexOf(t, Slash, i + 1)
  <2>1. <<k, i, FALSE>> \in R <=> In(<<at[k], i, FALSE>>)
    BY <1>3
  <2>2. <<k, i, TRUE>> \in R <=> In(<<at[k], i, TRUE>>)
    BY <1>3
  <2>3. k < L => k + 1 \in 0..L
    BY <1>6
  <2>4. k < L /\ i # N =>
          /\ <<k + 1, i + 1, FALSE>> \in R <=> In(<<at[k + 1], i + 1, FALSE>>)
          /\ <<k + 1, i, TRUE>> \in R <=> In(<<at[k + 1], i, TRUE>>)
    BY <1>1, <1>3, <2>3
  <2>5. k < L => (<<k + 1, N, TRUE>> \in R <=> In(<<at[k + 1], N, TRUE>>))
    <3>1. N \in 1..N
      BY <1>1
    <3> QED
      BY <1>3, <2>3, <3>1
  <2>6. next # 0 => next \in 1..N
    <3>1. i + 1 \in Nat \ {0} /\ t \in Seq(Nat)
      BY <1>1, MarkedTyped
    <3>2. next # 0 => next \in i + 1..N
      BY <3>1, IndexFound DEF N
    <3>3. i \in Nat /\ N \in Nat
      BY <1>1
    <3> HIDE DEF next
    <3> QED
      BY <3>2, <3>3
  <2>7. k < L /\ next # 0 => (<<k + 1, next, TRUE>> \in R <=> In(<<at[k + 1], next, TRUE>>))
    BY <1>3, <2>3, <2>6
  <2> DEFINE InPlus == IF next # 0 THEN In(<<at[k + 1], next, TRUE>>)
                       ELSE k + 1 \in M /\ In(<<at[k + 1], N, TRUE>>)
             RPlus == IF next # 0 THEN <<k + 1, next, TRUE>> \in R
                      ELSE k + 1 \in M /\ <<k + 1, N, TRUE>> \in R
  <2>8. k < L => (InPlus <=> RPlus)
    <3> HIDE DEF next
    <3> QED
      BY <2>5, <2>7
  <2>9. /\ In(<<at[k], i, FALSE>>) <=>
                   IF i = N THEN k = L
                   ELSE /\ k < L /\ F[k + 1] = t[i]
                        /\ In(<<at[k + 1], i + 1, FALSE>>)
                           \/ (t[i] = Slash /\ In(<<at[k + 1], i, TRUE>>))
        /\ In(<<at[k], i, TRUE>>) <=>
                   \/ In(<<at[k], i, FALSE>>)
                   \/ k < L /\ F[k + 1] = NumberSign /\ In(<<at[k + 1], N, TRUE>>)
                   \/ k < L /\ F[k + 1] = Plus /\ InPlus
    BY <1>8
  <2> HIDE DEF InPlus
  <2>10. <<k, i, FALSE>> \in R <=>
                   IF i = N THEN k = L
                   ELSE /\ k < L /\ F[k + 1] = t[i]
                        /\ <<k + 1, i + 1, FALSE>> \in R
                           \/ (t[i] = Slash /\ <<k + 1, i, TRUE>> \in R)
    BY <2>1, <2>4, <2>9
  <2>11. <<k, i, TRUE>> \in R <=>
                   \/ <<k, i, FALSE>> \in R
                   \/ k < L /\ F[k + 1] = NumberSign /\ <<k + 1, N, TRUE>> \in R
                   \/ k < L /\ F[k + 1] = Plus /\ RPlus
    <3> HIDE DEF RPlus
    <3> QED
      BY <2>1, <2>2, <2>5, <2>8, <2>9
  <2> QED
    BY <2>10, <2>11
<1> QED
  BY <1>4, <1>9 DEF Unfolds, F, L, N, R, M

\* A lookup finds the head of a filter exactly when a reading of it matches the topic.
LEMMA FoundAsRuled ==
    ASSUME NEW level, NEW rank, NEW K, Tree(heap, level, rank, K), NEW topic \in Topics,
           NEW f \in Filters, NEW m \in Heads(heap), heap[m].character = EndMark,
           level[m] = Chars(f)
    PROVE  m \in Range(GetSubscribed(Chars(topic))) <=>
              \E reading \in Readings(f) : Matches(reading, topic)
<1> DEFINE t == Append(Chars(topic), EndMark)
           visit == <<Root, 1, TRUE>>
<1>1. /\ Marked(t) /\ visit \in Visits(t)
      /\ GetSubscribed(Chars(topic)) = Finds(t)[visit]
  BY LookedUp DEF PlainTopic
<1>2. PICK at : Way(at, heap, level, m)
  BY WayTo
<1>3. level[m] \in Seq(Characters)
  BY FilterLaid
<1> DEFINE R == Places(at, level, t, m)
           M == EndsAt(at, level, m)
<1>4. Unfolds(R, M, Chars(f), t)
  <2> HIDE DEF t
  <2> QED
    BY <1>1, <1>2, <1>3, Unfolded
<1>5. <<0, 1, TRUE>> \in R <=> \E reading \in Readings(f) : Matches(reading, topic)
  <2> HIDE DEF R, M
  <2> QED
    BY <1>4, LevelsUnfold
<1>6. <<0, 1, TRUE>> \in R <=> m \in Range(Finds(t)[visit])
  <2>1. at[0] = Root
    BY <1>2 DEF Way
  <2>2. 0 \in 0..Len(level[m]) /\ 1 \in 1..Len(t)
    <3>1. Len(level[m]) \in Nat
      BY <1>3
    <3> HIDE DEF t
    <3>2. Len(t) \in Nat \ {0}
      BY <1>1, MarkedTyped
    <3> QED
      BY <3>1, <3>2
  <2> HIDE DEF t
  <2> QED
    BY <2>1, <2>2 DEF Places
<1> QED
  BY <1>1, <1>5, <1>6

\* A publication reaches the clients with a matching subscription and no others, whatever
\* the filters are, in whichever order they came and whoever has left since.
THEOREM RoutesAsRuled == Spec => []RoutesExactly
<1>1. TrieInv => RoutesExactly
  <2> SUFFICES ASSUME TrieInv, NEW topic \in Topics
               PROVE  UNION {heap[n].subscribedClients :
                                n \in Range(GetSubscribed(Chars(topic)))}
                         = {s[1] : s \in {p \in subscriptions :
                               \E reading \in Readings(p[2]) : Matches(reading, topic)}}
    BY DEF RoutesExactly
  <2>1. PICK level, rank, K : /\ Tree(heap, level, rank, K)
                              /\ Routes(heap, level, subscriptions)
    BY DEF TrieInv
  <2> DEFINE found == Range(GetSubscribed(Chars(topic)))
             Ruled(p) == \E reading \in Readings(p[2]) : Matches(reading, topic)
  <2>2. found \subseteq DOMAIN heap
    <3> DEFINE t == Append(Chars(topic), EndMark)
               visit == <<Root, 1, TRUE>>
    <3>1. Marked(t) /\ visit \in Visits(t) /\ GetSubscribed(Chars(topic)) = Finds(t)[visit]
      BY <2>1, LookedUp DEF PlainTopic
    <3> HIDE DEF t, visit
    <3>2. Finds(t)[visit] \in Seq(DOMAIN heap)
      BY <2>1, <3>1, FindsSolved
    <3> QED
      BY <3>1, <3>2, Joined
  <2>3. ASSUME NEW p \in subscriptions, NEW m \in Heads(heap), heap[m].character = EndMark,
               level[m] = Chars(p[2])
        PROVE  m \in found <=> Ruled(p)
    <3>1. p[2] \in Filters
      BY DEF TrieInv
    <3> QED
      BY <2>1, <2>3, <3>1, FoundAsRuled
  <2>4. \A n \in DOMAIN heap : heap[n].character = EndMark => n \in Heads(heap)
    BY DEF Heads
  <2> HIDE DEF found, Ruled
  <2>5. ASSUME NEW n \in found, NEW c \in heap[n].subscribedClients
        PROVE  c \in {s[1] : s \in {p \in subscriptions : Ruled(p)}}
    <3>1. n \in DOMAIN heap
      BY <2>2
    <3>2. heap[n].character = EndMark
      BY <2>1, <3>1 DEF Routes
    <3>3. PICK s \in {p \in subscriptions : Chars(p[2]) = level[n]} : c = s[1]
      BY <2>1, <3>1, <3>2 DEF Routes
    <3>4. Ruled(s)
      BY <2>3, <2>4, <3>1, <3>2, <3>3
    <3> QED
      BY <3>3, <3>4
  <2>6. ASSUME NEW s \in subscriptions, Ruled(s)
        PROVE  \E n \in found : s[1] \in heap[n].subscribedClients
    <3>1. PICK n \in Heads(heap) : heap[n].character = EndMark /\ level[n] = Chars(s[2])
      BY <2>1 DEF Routes
    <3>2. n \in found
      BY <2>3, <2>6, <3>1
    <3>3. s[1] \in heap[n].subscribedClients
      BY <2>1, <2>2, <3>1, <3>2 DEF Routes
    <3> QED
      BY <3>2, <3>3
  <2>7. UNION {heap[n].subscribedClients : n \in found}
           = {s[1] : s \in {p \in subscriptions : Ruled(p)}}
    BY <2>5, <2>6
  <2> QED
    BY <2>7 DEF found, Ruled
<1> QED
  BY TrieCorrect, <1>1, PTL

=============================================================================
