--------------------------- MODULE CJsonHelper_proof ---------------------------
(***************************************************************************)
(* Proofs about CJsonHelper for any number of items, objects, keys and      *)
(* indexes, with callers that keep the four obligations and use no two keys *)
(* that differ in case only: that every item and every wrapper has one      *)
(* owner, that no wrapper is stale, and that get reads what set wrote.      *)
(***************************************************************************)
EXTENDS CJsonHelper, SequenceTheorems, WellFoundedInduction, TLAPS

-----------------------------------------------------------------------------
(* Forests: that trees are disjoint, and what becomes of a forest when one    *)
(* is added, a tree is removed, or children of an element become roots.       *)

(* The least set that holds n and is closed under next.                       *)
LEMMA BelowFacts ==
  ASSUME NEW N, NEW next \in [N -> SUBSET N], NEW n \in N
  PROVE  /\ n \in Below(next, n) /\ Below(next, n) \subseteq N
         /\ \A p \in Below(next, n) : next[p] \subseteq Below(next, n)
         /\ \A S \in SUBSET N : n \in S /\ (\A p \in S : next[p] \subseteq S)
              => Below(next, n) \subseteq S
<1> DEFINE closed == {S \in SUBSET N : n \in S /\ \A p \in S : next[p] \subseteq S}
<1>1. Below(next, n) = {m \in N : \A S \in closed : m \in S}
  BY DEF Below
<1>2. ASSUME NEW p \in Below(next, n), NEW c \in next[p] PROVE c \in Below(next, n)
  <2>1. ASSUME NEW S \in closed PROVE c \in S
    BY <1>1, <1>2, <2>1
  <2> QED BY <1>1, <1>2, <2>1
<1> QED BY <1>1, <1>2

(* What is below n, other than n, is a child of something below n.            *)
LEMMA BelowParent ==
  ASSUME NEW N, NEW next \in [N -> SUBSET N], NEW n \in N, NEW m \in Below(next, n), m # n
  PROVE  \E p \in Below(next, n) : m \in next[p]
<1> DEFINE S == {n} \cup {c \in Below(next, n) : \E p \in Below(next, n) : c \in next[p]}
<1>1. S \in SUBSET N /\ n \in S /\ S \subseteq Below(next, n)
  BY BelowFacts
<1>2. ASSUME NEW p \in S, NEW c \in next[p] PROVE c \in S
  <2>1. p \in Below(next, n) /\ c \in Below(next, n)
    BY <1>1, <1>2, BelowFacts
  <2> QED BY <1>2, <2>1
<1>3. Below(next, n) \subseteq S
  <2> HIDE DEF S
  <2> QED BY <1>1, <1>2, BelowFacts
<1> QED BY <1>3

LEMMA BelowTrans ==
  ASSUME NEW N, NEW next \in [N -> SUBSET N], NEW n \in N, NEW m \in Below(next, n)
  PROVE  m \in N /\ Below(next, m) \subseteq Below(next, n)
BY BelowFacts

(* Below n only what is below n matters.                                      *)
LEMMA BelowLocal ==
  ASSUME NEW N, NEW next \in [N -> SUBSET N], NEW other \in [N -> SUBSET N], NEW n \in N,
         \A p \in Below(next, n) : other[p] = next[p]
  PROVE  Below(other, n) = Below(next, n)
<1>1. Below(other, n) \subseteq Below(next, n)
  <2>1. Below(next, n) \in SUBSET N /\ n \in Below(next, n)
    BY BelowFacts
  <2>2. \A p \in Below(next, n) : other[p] \subseteq Below(next, n)
    BY BelowFacts
  <2> QED BY <2>1, <2>2, BelowFacts
<1>2. Below(next, n) \subseteq Below(other, n)
  <2>1. Below(other, n) \in SUBSET N /\ n \in Below(other, n)
    BY BelowFacts
  <2>2. \A p \in Below(other, n) : next[p] \subseteq Below(other, n)
    BY <1>1, BelowFacts
  <2> QED BY <2>1, <2>2, BelowFacts
<1> QED BY <1>1, <1>2

(* The trees are disjoint, and what is held is what is below the roots.       *)
LEMMA TreesDisjoint ==
  ASSUME NEW N, NEW next \in [N -> SUBSET N], NEW held, NEW roots, IsForest(next, held, roots),
         NEW r \in roots, NEW s \in roots, r # s
  PROVE  Below(next, r) \cap Below(next, s) = {}
<1> DEFINE S == Below(next, s) \ Below(next, r)
<1>0. r \in N /\ s \in N
  BY DEF IsForest
<1>1. s \notin Below(next, r)
  <2>1. \A p \in Below(next, r) : s \notin next[p]
    BY <1>0, BelowFacts DEF IsForest
  <2> QED BY <1>0, <2>1, BelowParent
<1>2. S \in SUBSET N /\ s \in S
  BY <1>0, <1>1, BelowFacts
<1>3. ASSUME NEW p \in S, NEW c \in next[p] PROVE c \in S
  <2>1. c \in Below(next, s) /\ p \in N /\ c # r
    BY <1>0, <1>3, BelowFacts DEF IsForest
  <2>2. ASSUME c \in Below(next, r) PROVE FALSE
    <3>1. PICK q \in Below(next, r) : c \in next[q]
      BY <1>0, <2>1, <2>2, BelowParent
    <3>2. q \in N
      BY <1>0, BelowFacts
    <3>3. q = p
      BY <1>3, <2>1, <3>1, <3>2 DEF IsForest
    <3> QED BY <3>3
  <2> QED BY <2>1, <2>2
<1>4. Below(next, s) \subseteq S
  <2> HIDE DEF S
  <2> QED BY <1>0, <1>2, <1>3, BelowFacts
<1> QED BY <1>4

LEMMA BelowLive ==
  ASSUME NEW N, NEW next \in [N -> SUBSET N], NEW held, NEW roots, IsForest(next, held, roots),
         NEW n \in held
  PROVE  n \in N /\ Below(next, n) \subseteq held
<1>1. n \in N /\ held \in SUBSET N /\ \A p \in held : next[p] \subseteq held
  BY DEF IsForest
<1> QED BY <1>1, BelowFacts

(* No element is below one of its children.                                   *)
LEMMA Acyclic ==
  ASSUME NEW N, NEW next \in [N -> SUBSET N], NEW held, NEW roots, IsForest(next, held, roots),
         NEW p \in held, NEW c \in next[p]
  PROVE  p \notin Below(next, c)
<1> SUFFICES ASSUME p \in Below(next, c) PROVE FALSE
  OBVIOUS
<1>0. p \in N /\ c \in N /\ c \in held
  BY DEF IsForest
<1>1. PICK r \in roots : c \in Below(next, r)
  BY <1>0 DEF IsForest
<1> DEFINE S == N \ Below(next, c)
<1>2. r \in S
  <2>1. r \in N /\ r # c /\ \A q \in N : r \notin next[q]
    BY DEF IsForest
  <2> QED BY <1>0, <2>1, BelowParent, BelowFacts
<1>3. ASSUME NEW q \in S, NEW d \in next[q] PROVE d \in S
  <2>1. d \in N /\ q \in N
    BY <1>3
  <2>2. ASSUME d \in Below(next, c) PROVE FALSE
    <3>1. \E b \in Below(next, c) : d \in next[b]
      BY <1>0, <2>2, BelowParent
    <3>2. PICK b \in Below(next, c) : b \in N /\ d \in next[b]
      BY <1>0, <3>1, BelowFacts
    <3>3. b = q
      BY <1>3, <2>1, <3>2 DEF IsForest
    <3> QED BY <3>3
  <2> QED BY <2>1, <2>2
<1>4. Below(next, r) \subseteq S
  <2>1. S \in SUBSET N /\ r \in N
    BY DEF IsForest
  <2> HIDE DEF S
  <2> QED BY <1>2, <1>3, <2>1, BelowFacts
<1>5. c \in Below(next, c)
  BY <1>0, BelowFacts
<1> QED BY <1>1, <1>4, <1>5

-----------------------------------------------------------------------------
(* Children C of a become roots, and the roots M children of a.               *)
Rewires(N, next, held, roots, a, C, M, other, left) ==
  /\ left = (roots \ M) \cup C
  /\ a \in held /\ C \subseteq next[a] /\ M \subseteq roots /\ \A m \in M : a \notin Below(next, m)
  /\ other[a] = (next[a] \ C) \cup M /\ \A p \in N \ {a} : other[p] = next[p]

LEMMA Rewire ==
  ASSUME NEW N, NEW next \in [N -> SUBSET N], NEW held, NEW roots, IsForest(next, held, roots),
         NEW other \in [N -> SUBSET N],
         NEW a, NEW C, NEW M, NEW left, Rewires(N, next, held, roots, a, C, M, other, left)
  PROVE  /\ IsForest(other, held, left)
         /\ \A n \in C \cup M : Below(other, n) = Below(next, n)
<1> USE DEF Rewires
<1> DEFINE G == UNION {Below(next, c) : c \in C}
<1>0. /\ held \subseteq N /\ roots \subseteq held /\ a \in N /\ C \subseteq held \ roots
      /\ \A p \in N : next[p] \subseteq held
  BY DEF IsForest
<1>1. \A n \in C \cup M : a \notin Below(next, n)
  BY Acyclic
<1>2. ASSUME NEW n \in C \cup M PROVE Below(other, n) = Below(next, n)
  <2>1. n \in N /\ Below(next, n) \subseteq N
    BY <1>0, BelowFacts
  <2>2. \A p \in Below(next, n) : other[p] = next[p]
    BY <1>1, <2>1
  <2> QED BY <2>1, <2>2, BelowLocal
<1>3. /\ G \subseteq N /\ C \subseteq G /\ a \notin G /\ \A p \in G : next[p] \subseteq G
  BY <1>0, <1>1, BelowFacts
<1>4. ASSUME NEW r \in held PROVE Below(next, r) \subseteq Below(other, r) \cup G
  <2> DEFINE S == Below(other, r) \cup G
  <2>1. S \in SUBSET N /\ r \in S /\ r \in N
    BY <1>0, <1>3, BelowFacts
  <2>2. ASSUME NEW p \in S PROVE next[p] \subseteq S
    <3>1. CASE p \in G
      BY <1>3, <3>1
    <3>2. CASE p \in Below(other, r)
      <4>1. other[p] \subseteq Below(other, r) /\ p \in N
        BY <1>0, <3>2, BelowFacts
      <4> QED BY <1>3, <4>1
    <3> QED BY <3>1, <3>2
  <2> HIDE DEF S
  <2>3. Below(next, r) \subseteq S
    BY <2>1, <2>2, BelowFacts
  <2> QED BY <2>3 DEF S
<1>5. ASSUME NEW n \in held PROVE \E r \in (roots \ M) \cup C : n \in Below(other, r)
  <2>1. PICK r \in roots : n \in Below(next, r)
    BY DEF IsForest
  <2>2. CASE n \in G
    BY <1>2, <2>2
  <2>3. CASE n \notin G /\ r \notin M
    BY <1>0, <1>4, <2>1, <2>3
  <2>4. CASE n \notin G /\ r \in M
    <3>1. PICK s \in roots : a \in Below(next, s)
      BY DEF IsForest
    <3>2. s \in roots \ M /\ s \in N /\ s \in held
      BY <1>0, <3>1
    <3>3. a \in Below(other, s)
      BY <1>3, <1>4, <3>1, <3>2
    <3>4. r \in Below(other, s)
      BY <2>4, <3>2, <3>3, BelowFacts
    <3>5. n \in Below(other, s)
      BY <1>0, <1>4, <2>1, <2>4, <3>2, <3>4, BelowTrans
    <3> QED BY <3>2, <3>5
  <2> QED BY <2>2, <2>3, <2>4
<1>6. \A p \in N : other[p] \subseteq IF p \in held THEN held \ ((roots \ M) \cup C) ELSE {}
  <2>1. \A p \in N \ {a} : next[p] \cap C = {}
    BY <1>0 DEF IsForest
  <2> QED BY <1>0, <2>1 DEF IsForest
<1>7. \A p, q \in N : other[p] \cap other[q] # {} => p = q
  <2>1. \A p \in N : next[p] \cap M = {}
    BY <1>0 DEF IsForest
  <2> QED BY <1>0, <2>1 DEF IsForest
<1>8. (roots \ M) \cup C \subseteq held
  BY <1>0
<1>9. DOMAIN other = N
  OBVIOUS
<1> QED BY <1>0, <1>2, <1>5, <1>6, <1>7, <1>8, <1>9 DEF IsForest

(* The trees of the roots D are removed, G is what they consist of.           *)
Drops(N, next, roots, D, G, other) ==
  /\ D \subseteq roots
  /\ \A x : x \in G <=> \E d \in D : x \in Below(next, d)
  /\ \A p \in N : other[p] = IF p \in G THEN {} ELSE next[p]

LEMMA Drop ==
  ASSUME NEW N, NEW next \in [N -> SUBSET N], NEW held, NEW roots, IsForest(next, held, roots),
         NEW other \in [N -> SUBSET N], NEW D, NEW G, Drops(N, next, roots, D, G, other)
  PROVE  /\ IsForest(other, held \ G, roots \ D)
         /\ \A n \in held \ G : Below(other, n) = Below(next, n) /\ Below(next, n) \cap G = {}
         /\ G \subseteq held
<1> USE DEF Drops
<1>0. /\ held \subseteq N /\ roots \subseteq held
      /\ \A p \in N : next[p] \subseteq held
  BY DEF IsForest
<1>1. G \subseteq held
  BY <1>0, BelowLive
<1>2. ASSUME NEW n \in held \ G
      PROVE  /\ \E r \in roots \ D : n \in Below(next, r)
             /\ Below(other, n) = Below(next, n) /\ Below(next, n) \cap G = {}
  <2>1. PICK r \in roots : n \in Below(next, r)
    BY DEF IsForest
  <2>2. r \notin D
    BY <2>1
  <2>3. Below(next, r) \cap G = {}
    BY <2>2, TreesDisjoint
  <2>4. Below(next, n) \cap G = {} /\ Below(next, n) \subseteq N
    BY <1>0, <2>1, <2>3, BelowTrans, BelowFacts
  <2>5. Below(other, n) = Below(next, n)
    BY <1>0, <2>4, BelowLocal
  <2> QED BY <2>1, <2>2, <2>4, <2>5
<1>3. ASSUME NEW n \in held \ G PROVE \E r \in roots \ D : n \in Below(other, r)
  <2>1. PICK r \in roots \ D : n \in Below(next, r)
    BY <1>2
  <2>2. r \in held \ G
    <3>1. r \in Below(next, r) /\ \A d \in D : Below(next, r) \cap Below(next, d) = {}
      BY <1>0, TreesDisjoint, BelowFacts
    <3> QED BY <1>0, <3>1
  <2> QED BY <1>2, <2>1, <2>2
<1>4. \A d \in D : d \in G
  BY <1>0, BelowFacts
<1>5. ASSUME NEW p \in N
      PROVE  other[p] \subseteq IF p \in held \ G THEN (held \ G) \ (roots \ D) ELSE {}
  <2>1. CASE p \in held \ G
    <3>1. next[p] \subseteq Below(next, p)
      BY <1>0, <2>1, BelowFacts
    <3> QED BY <1>2, <2>1, <3>1 DEF IsForest
  <2>2. CASE p \notin held \ G
    BY <2>2 DEF IsForest
  <2> QED BY <2>1, <2>2
<1>6. \A p, q \in N : other[p] \cap other[q] # {} => p = q
  BY DEF IsForest
<1>7. roots \ D \subseteq held \ G
  <2>1. ASSUME NEW r \in roots \ D, NEW d \in D PROVE r \notin Below(next, d)
    <3>1. r \in Below(next, r) /\ Below(next, r) \cap Below(next, d) = {}
      BY <1>0, TreesDisjoint, BelowFacts
    <3> QED BY <3>1
  <2> QED BY <1>0, <2>1
<1>8. held \ G \subseteq N /\ DOMAIN other = N
  BY <1>0
<1> QED BY <1>1, <1>2, <1>3, <1>5, <1>6, <1>7, <1>8 DEF IsForest

(* Rewire, and the trees of the former children C are removed.                *)
Exchanges(N, next, held, roots, a, C, M, G, other) ==
  /\ a \in held /\ C \subseteq next[a] /\ M \subseteq roots /\ \A m \in M : a \notin Below(next, m)
  /\ \A x : x \in G <=> \E c \in C : x \in Below(next, c)
  /\ \A p \in N : other[p] = IF p \in G THEN {}
                             ELSE IF p = a THEN (next[a] \ C) \cup M ELSE next[p]

LEMMA Exchange ==
  ASSUME NEW N, NEW next \in [N -> SUBSET N], NEW held, NEW roots, IsForest(next, held, roots),
         NEW other \in [N -> SUBSET N],
         NEW a, NEW C, NEW M, NEW G, Exchanges(N, next, held, roots, a, C, M, G, other)
  PROVE  IsForest(other, held \ G, roots \ M)
<1> DEFINE mids == (roots \ M) \cup C
<1>0. a \in N /\ roots \subseteq N /\ C \cap roots = {}
  BY DEF IsForest, Exchanges
<1>1. PICK mid \in [N -> SUBSET N] :
        mid[a] = (next[a] \ C) \cup M /\ \A p \in N \ {a} : mid[p] = next[p]
  <2> DEFINE f == [next EXCEPT ![a] = (next[a] \ C) \cup M]
  <2>1. f \in [N -> SUBSET N] /\ f[a] = (next[a] \ C) \cup M /\ \A p \in N \ {a} : f[p] = next[p]
    BY <1>0 DEF Exchanges
  <2> HIDE DEF f
  <2> QED BY <2>1
<1>2. Rewires(N, next, held, roots, a, C, M, mid, mids)
  BY <1>1 DEF Rewires, Exchanges
<1>4. /\ IsForest(mid, held, mids)
      /\ \A n \in C \cup M : Below(mid, n) = Below(next, n)
  BY <1>2, Rewire
<1>5. C \subseteq mids /\ mids \ C = roots \ M
  BY <1>0 DEF Exchanges
<1>6. Drops(N, mid, mids, C, G, other)
  BY <1>1, <1>4, <1>5 DEF Drops, Exchanges
<1>7. IsForest(other, held \ G, mids \ C)
  BY <1>1, <1>4, <1>6, Drop
<1> QED BY <1>5, <1>7

(* Another forest is added.                                                   *)
Grows(N, next, held, next2, held2, other) ==
  /\ held \cap held2 = {}
  /\ \A p \in N : other[p] = IF p \in held2 THEN next2[p] ELSE next[p]

LEMMA Grow ==
  ASSUME NEW N, NEW next \in [N -> SUBSET N], NEW held, NEW roots, IsForest(next, held, roots),
         NEW next2 \in [N -> SUBSET N], NEW held2, NEW roots2, IsForest(next2, held2, roots2),
         NEW other \in [N -> SUBSET N], Grows(N, next, held, next2, held2, other)
  PROVE  /\ IsForest(other, held \cup held2, roots \cup roots2)
         /\ \A n \in held : Below(other, n) = Below(next, n)
         /\ \A n \in held2 : Below(other, n) = Below(next2, n)
<1> USE DEF Grows
<1>0. /\ held \subseteq N /\ roots \subseteq held /\ held2 \subseteq N /\ roots2 \subseteq held2
      /\ DOMAIN other = N
  BY DEF IsForest
<1>1. ASSUME NEW n \in held PROVE Below(other, n) = Below(next, n)
  <2>1. n \in N /\ \A p \in Below(next, n) : p \in N /\ other[p] = next[p]
    BY <1>0, BelowLive
  <2> QED BY <2>1, BelowLocal
<1>2. ASSUME NEW n \in held2 PROVE Below(other, n) = Below(next2, n)
  <2>1. n \in N /\ \A p \in Below(next2, n) : p \in N /\ other[p] = next2[p]
    BY <1>0, BelowLive
  <2> QED BY <2>1, BelowLocal
<1>3. ASSUME NEW n \in held \cup held2 PROVE \E r \in roots \cup roots2 : n \in Below(other, r)
  <2>1. CASE n \in held
    <3>1. PICK r \in roots : n \in Below(next, r)
      BY <2>1 DEF IsForest
    <3> QED BY <1>0, <1>1, <3>1
  <2>2. CASE n \in held2
    <3>1. PICK r \in roots2 : n \in Below(next2, r)
      BY <2>2 DEF IsForest
    <3> QED BY <1>0, <1>2, <3>1
  <2> QED BY <2>1, <2>2
<1>4. \A p \in N : other[p] \subseteq IF p \in held \cup held2
                                     THEN (held \cup held2) \ (roots \cup roots2) ELSE {}
  BY <1>0 DEF IsForest
<1>5. \A p, q \in N : other[p] \cap other[q] # {} => p = q
  BY <1>0, <1>4 DEF IsForest
<1> QED BY <1>0, <1>1, <1>2, <1>3, <1>4, <1>5 DEF IsForest

(* One element without children.                                              *)
LEMMA Single ==
  ASSUME NEW N, NEW n \in N
  PROVE  IsForest([p \in N |-> {}], {n}, {n})
<1> DEFINE next == [p \in N |-> {}]
<1>1. next \in [N -> SUBSET N]
  OBVIOUS
<1>2. n \in Below(next, n)
  BY <1>1, BelowFacts
<1> QED BY <1>2 DEF IsForest

(* A root without children is added.                                          *)
LEMMA GrowOne ==
  ASSUME NEW N, NEW next \in [N -> SUBSET N], NEW held, NEW roots, IsForest(next, held, roots),
         NEW n \in N \ held
  PROVE  IsForest(next, held \cup {n}, roots \cup {n})
<1>1. IsForest([p \in N |-> {}], {n}, {n}) /\ [p \in N |-> {}] \in [N -> SUBSET N]
  BY Single
<1>2. next[n] = {}
  BY DEF IsForest
<1>3. Grows(N, next, held, [p \in N |-> {}], {n}, next)
  BY <1>2 DEF Grows
<1> QED BY <1>1, <1>3, Grow

(* A child without children is added to p.                                    *)
Bears(N, next, held, p, n, other) ==
  /\ p \in held /\ n \in N \ held
  /\ other[p] = next[p] \cup {n} /\ \A q \in N \ {p} : other[q] = next[q]

LEMMA GrowBelow ==
  ASSUME NEW N, NEW next \in [N -> SUBSET N], NEW held, NEW roots, IsForest(next, held, roots),
         NEW other \in [N -> SUBSET N], NEW p, NEW n, Bears(N, next, held, p, n, other)
  PROVE  IsForest(other, held \cup {n}, roots)
<1>1. IsForest(next, held \cup {n}, roots \cup {n})
  BY GrowOne DEF Bears
<1>2. /\ p \in held /\ n \in N /\ n \notin held /\ p # n /\ roots \subseteq held
      /\ next[n] = {}
  BY DEF IsForest, Bears
<1>3. Below(next, n) \subseteq {n}
  <2>1. {n} \in SUBSET N /\ \A q \in {n} : next[q] \subseteq {n}
    BY <1>2
  <2> QED BY <1>2, <2>1, BelowFacts
<1> DEFINE left == ((roots \cup {n}) \ {n}) \cup {}
<1>4. Rewires(N, next, held \cup {n}, roots \cup {n}, p, {}, {n}, other, left)
  BY <1>2, <1>3 DEF Rewires, Bears
<1>5. left = roots
  BY <1>2
<1> HIDE DEF left
<1>6. IsForest(other, held \cup {n}, left)
  BY <1>1, <1>4, Rewire
<1> QED BY <1>5, <1>6

(* The image of a tree under an injection.                                    *)
Images(N, next, r, copy, other, all) ==
  /\ copy \in [Below(next, r) -> N] /\ all = {copy[p] : p \in Below(next, r)}
  /\ \A p, q \in Below(next, r) : copy[p] = copy[q] => p = q
  /\ \A p \in Below(next, r) : other[copy[p]] = {copy[c] : c \in next[p]}
  /\ \A m \in N \ all : other[m] = {}

LEMMA Image ==
  ASSUME NEW N, NEW next \in [N -> SUBSET N], NEW held, NEW roots, IsForest(next, held, roots),
         NEW r \in held, NEW other \in [N -> SUBSET N], NEW copy, NEW all,
         Images(N, next, r, copy, other, all)
  PROVE  IsForest(other, all, {copy[r]})
<1> USE DEF Images
<1>0. /\ r \in N /\ r \in Below(next, r) /\ all \subseteq N /\ DOMAIN other = N
      /\ \A p \in Below(next, r) : p \in N /\ p \in held /\ next[p] \subseteq Below(next, r)
  BY BelowFacts, BelowLive
<1>1. \A p \in Below(next, r) : r \notin next[p]
  BY <1>0, Acyclic
<1>2. \A m \in N : other[m] \subseteq IF m \in all THEN all \ {copy[r]} ELSE {}
  BY <1>0, <1>1
<1>3. ASSUME NEW m \in N, NEW k \in N, other[m] \cap other[k] # {} PROVE m = k
  <2>1. PICK p \in Below(next, r), q \in Below(next, r) : m = copy[p] /\ k = copy[q]
    BY <1>3
  <2>2. PICK c \in next[p], d \in next[q] : copy[c] = copy[d]
    BY <1>3, <2>1
  <2>3. c = d
    BY <1>0, <2>2
  <2>4. p = q
    BY <1>0, <2>2, <2>3 DEF IsForest
  <2> QED BY <2>1, <2>4
<1>4. ASSUME NEW x \in Below(next, r) PROVE copy[x] \in Below(other, copy[r])
  <2> DEFINE S == {p \in Below(next, r) : copy[p] \in Below(other, copy[r])}
  <2>1. S \in SUBSET N /\ r \in S
    BY <1>0, BelowFacts
  <2>2. ASSUME NEW p \in S, NEW c \in next[p] PROVE c \in S
    <3>1. copy[c] \in other[copy[p]] /\ c \in Below(next, r)
      BY <1>0, <2>2
    <3>2. other[copy[p]] \subseteq Below(other, copy[r])
      BY <1>0, BelowFacts
    <3> QED BY <3>1, <3>2
  <2> HIDE DEF S
  <2>3. Below(next, r) \subseteq S
    BY <1>0, <2>1, <2>2, BelowFacts
  <2> QED BY <2>3 DEF S
<1> QED BY <1>0, <1>2, <1>3, <1>4 DEF IsForest

-----------------------------------------------------------------------------
(* The wrappers and their trees.                                              *)

Types == {"none", "bool", "number", "string"}
Items == [children : Seq(Nodes), key : Keys \cup {NULL}, type : Types]

Objs == [m_bRoot : BOOLEAN, m_pJsonData : Pointers,
         obj : [Keys -> Helpers \cup {NULL}], arr : [Indexes -> Helpers \cup {NULL}]]

(* The parts of the invariant, of a tree t with the items L and of the used    *)
(* objects U among h; a call of several steps passes through such states,     *)
(* with X the tops of trees that no object owns yet.                          *)
Typed(t, L, h, U) ==
  /\ t \in [Nodes -> Items] /\ L \subseteq Nodes
  /\ h \in [Helpers -> Objs] /\ U \subseteq Helpers

(* The documents are trees, one for each root.                                *)
Documents(t, L, R) ==
  /\ IsForest(Children(t), L, R)
  /\ \A n \in Nodes : IsInjective(t[n].children)

(* The wrappers are trees below the owners, each in one place of one map; no  *)
(* two objects lead to one item.                                             *)
OwnersOf(h, U) == {w \in U : h[w].m_bRoot}
RootsOf(h, U) == {h[w].m_pJsonData : w \in OwnersOf(h, U)} \ {NULL}
Wrapping(h, U) ==
  /\ IsForest(Wrapped(h), U, OwnersOf(h, U))
  /\ \A w \in Helpers :
       /\ \A k, l \in Keys : h[w].obj[k] = h[w].obj[l] => h[w].obj[k] = NULL \/ k = l
       /\ \A i, j \in Indexes : h[w].arr[i] = h[w].arr[j] => h[w].arr[i] = NULL \/ i = j
  /\ \A u, w \in U :
       h[u].m_pJsonData = h[w].m_pJsonData => h[u].m_pJsonData = NULL \/ u = w
  /\ \A v \in Helpers \ U : h[v] = NewHelper(TRUE, NULL)

(* The first member whose name is k but for the case; NULL if there is none.   *)
First(t, o, k) == ItemAt(t, o, Member(t, o, k))

(* The maps of the object u have the items of the tree.                       *)
Current(t, h, u) ==
  LET n == h[u].m_pJsonData IN
  /\ \A k \in Keys : h[u].obj[k] # NULL =>
       n \in Objects /\ h[h[u].obj[k]].m_pJsonData = First(t, n, k)
  /\ \A i \in Indexes : h[u].arr[i] # NULL =>
       /\ n \in Nodes \ (Objects \cup Values) /\ i + 1 \in DOMAIN t[n].children
       /\ h[h[u].arr[i]].m_pJsonData = t[n].children[i + 1]

InStep(t, L, h, U, X) ==
  /\ Typed(t, L, h, U) /\ Wrapping(h, U)
  /\ Documents(t, L, RootsOf(h, U) \cup X) /\ X \cap RootsOf(h, U) = {}
  /\ \A u \in U : h[u].m_pJsonData \in L \cup {NULL} /\ Current(t, h, u)

IInv == InStep(tree, live, helper, used, {})

-----------------------------------------------------------------------------
(* Lists of items                                                            *)

LEMMA RemoveFacts ==
  ASSUME NEW S, NEW s \in Seq(S), NEW i \in DOMAIN s
  PROVE  /\ RemoveAt(s, i) \in Seq(S) /\ Len(RemoveAt(s, i)) = Len(s) - 1
         /\ DOMAIN RemoveAt(s, i) = 1 .. Len(s) - 1
         /\ \A j \in 1 .. Len(s) - 1 :
              RemoveAt(s, i)[j] = IF j < i THEN s[j] ELSE s[j + 1]
<1>1. i \in 1 .. Len(s) /\ Len(s) \in Nat
  OBVIOUS
<1>2. /\ SubSeq(s, 1, i - 1) \in Seq(S) /\ Len(SubSeq(s, 1, i - 1)) = i - 1
      /\ \A j \in 1 .. i - 1 : SubSeq(s, 1, i - 1)[j] = s[j]
  BY <1>1
<1>3. /\ SubSeq(s, i + 1, Len(s)) \in Seq(S) /\ Len(SubSeq(s, i + 1, Len(s))) = Len(s) - i
      /\ \A j \in 1 .. Len(s) - i : SubSeq(s, i + 1, Len(s))[j] = s[i + j]
  BY <1>1
<1> DEFINE p == SubSeq(s, 1, i - 1)
           q == SubSeq(s, i + 1, Len(s))
<1>4. RemoveAt(s, i) = p \o q
  BY DEF RemoveAt
<1> HIDE DEF p, q
<1>a. p \in Seq(S) /\ q \in Seq(S) /\ Len(p) = i - 1 /\ Len(q) = Len(s) - i
  BY <1>2, <1>3 DEF p, q
<1> DEFINE r == RemoveAt(s, i)
<1>b. /\ r \in Seq(S) /\ Len(r) = Len(p) + Len(q)
      /\ \A j \in 1 .. Len(p) + Len(q) : r[j] = IF j <= Len(p) THEN p[j] ELSE q[j - Len(p)]
  BY <1>4, <1>a, ConcatProperties
<1> HIDE DEF r
<1>5. /\ r \in Seq(S) /\ Len(r) = Len(s) - 1 /\ DOMAIN r = 1 .. Len(s) - 1
      /\ \A j \in 1 .. Len(s) - 1 : r[j] = IF j <= Len(p) THEN p[j] ELSE q[j - Len(p)]
  <2>1. Len(p) + Len(q) = Len(s) - 1
    BY <1>1, <1>a
  <2>2. r \in Seq(S) /\ Len(r) = Len(s) - 1
    BY <1>b, <2>1
  <2>3. DOMAIN r = 1 .. Len(s) - 1
    BY <2>2
  <2> QED BY <1>b, <2>1, <2>2, <2>3
<1>6. ASSUME NEW j \in 1 .. Len(s) - 1
      PROVE  r[j] = IF j < i THEN s[j] ELSE s[j + 1]
  <2>1. CASE j < i
    <3>1. j \in 1 .. i - 1 /\ j <= Len(p)
      BY <1>1, <1>a, <2>1
    <3>2. p[j] = s[j]
      BY <1>2, <3>1 DEF p
    <3> QED BY <1>5, <2>1, <3>1, <3>2
  <2>2. CASE ~ (j < i)
    <3>1. j - Len(p) \in 1 .. Len(s) - i /\ ~ (j <= Len(p)) /\ i + (j - Len(p)) = j + 1
      BY <1>1, <1>a, <2>2
    <3>2. q[j - Len(p)] = s[j + 1]
      BY <1>3, <3>1 DEF q
    <3> QED BY <1>5, <2>2, <3>1, <3>2
  <2> QED BY <2>1, <2>2
<1> QED BY <1>5, <1>6 DEF r

LEMMA RemoveSet ==
  ASSUME NEW S, NEW s \in Seq(S), NEW i \in DOMAIN s, IsInjective(s)
  PROVE  ToSet(RemoveAt(s, i)) = ToSet(s) \ {s[i]} /\ IsInjective(RemoveAt(s, i))
<1> DEFINE r == RemoveAt(s, i)
<1>0. i \in 1 .. Len(s) /\ Len(s) \in Nat /\ DOMAIN s = 1 .. Len(s)
  OBVIOUS
<1>1. /\ DOMAIN r = 1 .. Len(s) - 1
      /\ \A j \in 1 .. Len(s) - 1 : r[j] = IF j < i THEN s[j] ELSE s[j + 1]
  BY RemoveFacts
<1> HIDE DEF r
<1>2. IsInjective(r)
  <2>1. ASSUME NEW j \in 1 .. Len(s) - 1, NEW l \in 1 .. Len(s) - 1, r[j] = r[l]
        PROVE  j = l
    <3>1. j \in DOMAIN s /\ j + 1 \in DOMAIN s /\ l \in DOMAIN s /\ l + 1 \in DOMAIN s
      BY <1>0
    <3>2. \A x, y \in DOMAIN s : s[x] = s[y] => x = y
      BY DEF IsInjective
    <3>3. CASE j < i
      BY <1>0, <1>1, <2>1, <3>1, <3>2, <3>3
    <3>4. CASE ~ (j < i)
      BY <1>0, <1>1, <2>1, <3>1, <3>2, <3>4
    <3> QED BY <3>3, <3>4
  <2> QED BY <1>1, <2>1 DEF IsInjective
<1>3. \A x \in ToSet(r) : x \in ToSet(s) /\ x # s[i]
  <2>1. ASSUME NEW j \in 1 .. Len(s) - 1 PROVE r[j] \in ToSet(s) /\ r[j] # s[i]
    <3>1. j \in DOMAIN s /\ j + 1 \in DOMAIN s
      BY <1>0
    <3>2. CASE j < i
      BY <1>0, <1>1, <3>1, <3>2 DEF ToSet, IsInjective
    <3>3. CASE ~ (j < i)
      BY <1>0, <1>1, <3>1, <3>3 DEF ToSet, IsInjective
    <3> QED BY <3>2, <3>3
  <2> QED BY <1>1, <2>1 DEF ToSet
<1>4. ASSUME NEW x \in ToSet(s), x # s[i] PROVE x \in ToSet(r)
  <2>1. PICK j \in 1 .. Len(s) : x = s[j] /\ j # i
    BY <1>0, <1>4 DEF ToSet
  <2>2. CASE j < i
    BY <1>0, <1>1, <2>1, <2>2 DEF ToSet
  <2>3. CASE j > i
    <3>1. j - 1 \in 1 .. Len(s) - 1 /\ ~ (j - 1 < i) /\ (j - 1) + 1 = j
      BY <1>0, <2>1, <2>3
    <3> QED BY <1>1, <2>1, <3>1 DEF ToSet
  <2> QED BY <1>0, <2>1, <2>2, <2>3
<1> QED BY <1>2, <1>3, <1>4 DEF r

LEMMA ReplaceSet ==
  ASSUME NEW S, NEW s \in Seq(S), NEW i \in DOMAIN s, IsInjective(s), NEW n \in S,
         n \notin ToSet(s)
  PROVE  /\ ToSet(ReplaceAt(s, i, n)) = (ToSet(s) \ {s[i]}) \cup {n}
         /\ IsInjective(ReplaceAt(s, i, n)) /\ ReplaceAt(s, i, n) \in Seq(S)
         /\ Len(ReplaceAt(s, i, n)) = Len(s) /\ ReplaceAt(s, i, n)[i] = n
         /\ \A j \in DOMAIN s : j # i => ReplaceAt(s, i, n)[j] = s[j]
<1> DEFINE r == ReplaceAt(s, i, n)
<1>1. /\ DOMAIN r = DOMAIN s /\ r[i] = n /\ \A j \in DOMAIN s : j # i => r[j] = s[j]
      /\ r \in Seq(S) /\ Len(r) = Len(s)
  BY DEF ReplaceAt
<1> HIDE DEF r
<1>2. IsInjective(r)
  BY <1>1 DEF IsInjective, ToSet
<1>3. ToSet(r) = (ToSet(s) \ {s[i]}) \cup {n}
  BY <1>1 DEF IsInjective, ToSet
<1> QED BY <1>1, <1>2, <1>3 DEF r

LEMMA AppendSet ==
  ASSUME NEW S, NEW s \in Seq(S), IsInjective(s), NEW n \in S, n \notin ToSet(s)
  PROVE  /\ ToSet(Append(s, n)) = ToSet(s) \cup {n}
         /\ IsInjective(Append(s, n)) /\ Append(s, n) \in Seq(S)
         /\ Len(Append(s, n)) = Len(s) + 1 /\ Append(s, n)[Len(s) + 1] = n
         /\ \A j \in DOMAIN s : Append(s, n)[j] = s[j]
<1> DEFINE r == Append(s, n)
<1>0. Len(s) \in Nat /\ DOMAIN s = 1 .. Len(s)
  OBVIOUS
<1>1. /\ DOMAIN r = 1 .. Len(s) + 1 /\ r[Len(s) + 1] = n /\ \A j \in DOMAIN s : r[j] = s[j]
      /\ r \in Seq(S) /\ Len(r) = Len(s) + 1
  OBVIOUS
<1> HIDE DEF r
<1>a. \A j \in DOMAIN r : j \in DOMAIN s \/ j = Len(s) + 1
  BY <1>0, <1>1
<1>2. IsInjective(r)
  BY <1>0, <1>1, <1>a DEF IsInjective, ToSet
<1>3. ToSet(r) = ToSet(s) \cup {n}
  BY <1>0, <1>1, <1>a DEF ToSet
<1> QED BY <1>1, <1>2, <1>3 DEF r

(* There is a least element (WFMin is proved by induction).                   *)
LEMMA LeastNat ==
  ASSUME NEW S \in SUBSET Nat, S # {}
  PROVE  Min(S) \in S /\ \A m \in S : Min(S) <= m
<1> DEFINE R == OpToRel(<, Nat)
<1>1. \A x, y \in Nat : <<x, y>> \in R <=> x < y
  BY DEF OpToRel
<1>2. IsWellFoundedOn(R, Nat)
  BY NatLessThanWellFounded
<1> HIDE DEF R
<1>3. PICK n \in S : \A y \in S : ~ (<<y, n>> \in R)
  BY <1>2, WFMin
<1>4. n \in S /\ \A m \in S : n <= m
  <2>1. ASSUME NEW m \in S PROVE n <= m
    <3>1. m \in Nat /\ n \in Nat /\ ~ (<<m, n>> \in R)
      BY <1>3
    <3> QED BY <1>1, <3>1
  <2> QED BY <2>1
<1>5. \E x \in S : \A y \in S : x <= y
  BY <1>4
<1> QED BY <1>5 DEF Min

Has(t, n, k) == t[n].key # NULL /\ Fold[t[n].key] = Fold[k]

LEMMA MemberFacts ==
  ASSUME NEW t, NEW o, NEW k, t[o].children \in Seq(Nodes)
  PROVE  /\ Member(t, o, k) \in 0 .. Len(t[o].children)
         /\ Member(t, o, k) = 0 => \A j \in DOMAIN t[o].children : ~ Has(t, t[o].children[j], k)
         /\ Member(t, o, k) # 0 =>
              /\ Member(t, o, k) \in DOMAIN t[o].children
              /\ Has(t, t[o].children[Member(t, o, k)], k)
              /\ \A j \in DOMAIN t[o].children :
                   j < Member(t, o, k) => ~ Has(t, t[o].children[j], k)
<1> DEFINE s == t[o].children
           I == {j \in 1 .. Len(s) : Has(t, s[j], k)}
<1>1. Member(t, o, k) = IF I # {} THEN Min(I) ELSE 0
  BY DEF Member, SelectInSeq, Has
<1>2. I \in SUBSET Nat /\ Len(s) \in Nat /\ DOMAIN s = 1 .. Len(s)
  OBVIOUS
<1>3. CASE I = {}
  BY <1>1, <1>2, <1>3
<1>4. CASE I # {}
  <2>1. Member(t, o, k) \in I /\ \A m \in I : Member(t, o, k) <= m
    BY <1>1, <1>2, <1>4, LeastNat
  <2>2. Member(t, o, k) \in 1 .. Len(s) /\ Has(t, s[Member(t, o, k)], k)
    BY <2>1
  <2>3. ASSUME NEW j \in DOMAIN s, j < Member(t, o, k) PROVE ~ Has(t, s[j], k)
    <3>1. j \notin I
      BY <1>2, <2>1, <2>2, <2>3
    <3> QED BY <1>2, <3>1
  <2> QED BY <1>2, <2>2, <2>3
<1> QED BY <1>3, <1>4

LEMMA MemberIs ==
  ASSUME NEW t, NEW o, NEW k, t[o].children \in Seq(Nodes), NEW i \in DOMAIN t[o].children,
         Has(t, t[o].children[i], k),
         \A j \in DOMAIN t[o].children : j < i => ~ Has(t, t[o].children[j], k)
  PROVE  Member(t, o, k) = i
<1>1. i \in Nat /\ DOMAIN t[o].children = 1 .. Len(t[o].children) /\ Len(t[o].children) \in Nat
  OBVIOUS
<1>2. Member(t, o, k) # 0
  BY MemberFacts
<1>3. Member(t, o, k) \in DOMAIN t[o].children /\ ~ (i < Member(t, o, k))
      /\ ~ (Member(t, o, k) < i)
  BY <1>2, MemberFacts
<1> QED BY <1>1, <1>3

LEMMA FirstFacts ==
  ASSUME NEW t, NEW o, NEW k, t[o].children \in Seq(Nodes), NULL \notin Nodes
  PROVE  /\ First(t, o, k) = NULL <=> \A c \in ToSet(t[o].children) : ~ Has(t, c, k)
         /\ First(t, o, k) # NULL => First(t, o, k) \in ToSet(t[o].children)
                                     /\ Has(t, First(t, o, k), k)
<1>0. \A j \in DOMAIN t[o].children : t[o].children[j] \in Nodes
  OBVIOUS
<1>1. CASE Member(t, o, k) = 0
  <2>1. 0 \notin DOMAIN t[o].children
    OBVIOUS
  <2> QED BY <1>1, <2>1, MemberFacts DEF First, ItemAt, ToSet
<1>2. CASE Member(t, o, k) # 0
  <2>1. First(t, o, k) = t[o].children[Member(t, o, k)] /\ First(t, o, k) # NULL
    BY <1>0, <1>2, MemberFacts DEF First, ItemAt
  <2> QED BY <1>2, <2>1, MemberFacts DEF ToSet
<1> QED BY <1>1, <1>2

-----------------------------------------------------------------------------
(* A document under one call of cJSON                                        *)

LEMMA ChildrenType ==
  ASSUME NEW t \in [Nodes -> Items]
  PROVE  /\ Children(t) \in [Nodes -> SUBSET Nodes]
         /\ \A n \in Nodes : /\ t[n].children \in Seq(Nodes) /\ t[n] \in Items
                             /\ Children(t)[n] = ToSet(t[n].children)
BY DEF Children, Items, ToSet

LEMMA NewItemType == NewItem \in Items /\ NewItem.children = <<>> /\ ToSet(<<>>) = {}
                     /\ IsInjective(<<>>)
BY DEF NewItem, Items, Types, ToSet, IsInjective

(* The item in the place i of a and all below it.                             *)
Dropped(t, a, i) == IF i \in DOMAIN t[a].children THEN {t[a].children[i]} ELSE {}

LEMMA GoneFacts ==
  ASSUME NEW t \in [Nodes -> Items], NEW L, NEW R, IsForest(Children(t), L, R),
         NEW a \in L, NEW i
  PROVE  /\ Gone(t, a, i) = UNION {Subtree(t, c) : c \in Dropped(t, a, i)}
         /\ Gone(t, a, i) \subseteq L \ R /\ a \notin Gone(t, a, i) /\ a \in Nodes
         /\ Dropped(t, a, i) \subseteq Children(t)[a] /\ Dropped(t, a, i) \subseteq Gone(t, a, i)
         /\ \A m \in L \ Gone(t, a, i), c \in Gone(t, a, i) :
              c \in Children(t)[m] => m = a /\ c \in Dropped(t, a, i)
<1> DEFINE next == Children(t)
           G == Gone(t, a, i)
<1>1. a \in Nodes /\ L \subseteq Nodes /\ R \subseteq L /\ next \in [Nodes -> SUBSET Nodes]
      /\ \A p \in Nodes : next[p] \subseteq L \ R
  BY ChildrenType DEF IsForest
<1>2. Dropped(t, a, i) \subseteq next[a]
  BY <1>1, ChildrenType DEF Dropped, ToSet
<1>3. G = UNION {Subtree(t, c) : c \in Dropped(t, a, i)}
  BY DEF Gone, Dropped
<1> HIDE DEF next, G
<1>4. ASSUME NEW c \in Dropped(t, a, i)
      PROVE  /\ c \in L /\ Subtree(t, c) \subseteq L \ R /\ a \notin Subtree(t, c)
             /\ c \in Subtree(t, c)
             /\ \A d \in Subtree(t, c) \ {c} : \E p \in Subtree(t, c) : d \in next[p]
  <2>1. c \in next[a] /\ c \in L /\ c \in Nodes /\ c \notin R
    BY <1>1, <1>2
  <2>2. IsForest(next, L, R) /\ Subtree(t, c) = Below(next, c)
    BY DEF next, Subtree
  <2>3. a \notin Below(next, c)
    BY <1>1, <2>1, <2>2, Acyclic
  <2>4. \A d \in Below(next, c) \ {c} : \E p \in Below(next, c) : d \in next[p]
    BY <1>1, <2>1, BelowParent
  <2>5. c \in Below(next, c) /\ Below(next, c) \subseteq L
    BY <1>1, <2>1, <2>2, BelowLive, BelowFacts
  <2> QED BY <1>1, <2>1, <2>2, <2>3, <2>4, <2>5
<1>5. ASSUME NEW m \in L \ G, NEW c \in G, c \in next[m]
      PROVE  m = a /\ c \in Dropped(t, a, i)
  <2>1. PICK d \in Dropped(t, a, i) : c \in Subtree(t, d)
    BY <1>3
  <2>2. \A p, q \in Nodes : next[p] \cap next[q] # {} => p = q
    BY <1>1 DEF IsForest, next
  <2>3. CASE c = d
    BY <1>1, <1>2, <1>5, <2>2, <2>3
  <2>4. CASE c # d
    <3>1. PICK p \in Subtree(t, d) : c \in next[p]
      BY <1>4, <2>1, <2>4
    <3>2. p \in G /\ p \in Nodes
      BY <1>1, <1>3, <1>4, <3>1
    <3> QED BY <1>1, <1>5, <2>2, <3>1, <3>2
  <2> QED BY <2>3, <2>4
<1> QED BY <1>1, <1>2, <1>3, <1>4, <1>5 DEF next, G

(* The list r is s with n in the place i, or at the end.                      *)
Placed(s, r, i, n) ==
  /\ s \in Seq(Nodes) /\ r \in Seq(Nodes)
  /\ IF i \in DOMAIN s
     THEN Len(r) = Len(s) /\ r[i] = n /\ \A j \in DOMAIN s : j # i => r[j] = s[j]
     ELSE Len(r) = Len(s) + 1 /\ r[Len(s) + 1] = n /\ \A j \in DOMAIN s : r[j] = s[j]

(* A root n with the key k is put into the place i of a.                      *)
Puts(t, L, R, a, i, n, k, G, u) ==
  /\ t \in [Nodes -> Items] /\ Documents(t, L, R)
  /\ a \in L /\ n \in R /\ a \notin Subtree(t, n) /\ k \in Keys \cup {NULL}
  /\ G = Gone(t, a, i) /\ u = Put(t, a, i, n, k)

IsPut(t, L, R, a, i, n, k, G, u) ==
  /\ u \in [Nodes -> Items] /\ Documents(u, L \ G, R \ {n})
  /\ n \notin G /\ a \notin G /\ n # a
  /\ Placed(t[a].children, u[a].children, i, n)
  /\ \A m \in Nodes \ (G \cup {a, n}) : u[m] = t[m]
  /\ u[a].key = t[a].key /\ u[a].type = t[a].type
  /\ u[n].children = t[n].children /\ u[n].key = k /\ u[n].type = t[n].type

LEMMA PutFacts ==
  ASSUME HelperAssumption, NEW t, NEW L, NEW R, NEW a, NEW i, NEW n, NEW k, NEW G, NEW u,
         Puts(t, L, R, a, i, n, k, G, u)
  PROVE  IsPut(t, L, R, a, i, n, k, G, u)
<1>p. /\ t \in [Nodes -> Items] /\ IsForest(Children(t), L, R)
      /\ \A m \in Nodes : IsInjective(t[m].children)
      /\ a \in L /\ n \in R /\ a \notin Subtree(t, n) /\ k \in Keys \cup {NULL}
      /\ G = Gone(t, a, i) /\ u = Put(t, a, i, n, k)
  BY DEF Puts, Documents
<1> DEFINE next == Children(t)
           C == Dropped(t, a, i)
           list == IF i \in DOMAIN t[a].children
                   THEN ReplaceAt(t[a].children, i, n) ELSE Append(t[a].children, n)
<1>1. /\ a \in Nodes /\ L \subseteq Nodes /\ R \subseteq L /\ n \in Nodes
      /\ next \in [Nodes -> SUBSET Nodes] /\ \A p \in Nodes : n \notin next[p]
  BY <1>p, ChildrenType DEF IsForest
<1>2. /\ G = UNION {Subtree(t, c) : c \in C} /\ G \subseteq L \ R /\ a \notin G
      /\ C \subseteq next[a]
  BY <1>p, GoneFacts
<1>3. n \notin G /\ n # a /\ n \notin ToSet(t[a].children) /\ n \in Subtree(t, n)
  BY <1>p, <1>1, <1>2, BelowFacts, ChildrenType DEF Subtree
<1>4. list \in Seq(Nodes) /\ IsInjective(list) /\ ToSet(list) = (next[a] \ C) \cup {n}
  BY <1>p, <1>1, <1>3, ChildrenType, ReplaceSet, AppendSet DEF Dropped
<1>5. /\ \A m \in Nodes \ (G \cup {a, n}) : u[m] = t[m]
      /\ \A m \in G : u[m] = NewItem
  BY <1>p, <1>1, <1>2, <1>3 DEF Put, Freed
<1> HIDE DEF list
<1>6. /\ u[a] \in Items /\ u[a].children = list /\ u[a].key = t[a].key /\ u[a].type = t[a].type
      /\ u[n] \in Items /\ u[n].children = t[n].children /\ u[n].key = k /\ u[n].type = t[n].type
  <2>1. u[a] = [t[a] EXCEPT !.children = list] /\ u[n] = [t[n] EXCEPT !.key = k]
    BY <1>p, <1>1, <1>2, <1>3 DEF Put, Freed, list
  <2>2. t[a] \in Items /\ t[n] \in Items /\ list \in Seq(Nodes)
    BY <1>p, <1>1, <1>4
  <2> QED BY <1>p, <2>1, <2>2 DEF Items
<1>7. u \in [Nodes -> Items]
  <2>1. \A m \in Nodes : u[m] \in Items
    BY <1>p, <1>5, <1>6, NewItemType
  <2>2. u = [m \in Nodes |-> u[m]]
    BY <1>p DEF Put, Freed
  <2> QED BY <2>1, <2>2
<1>8. \A m \in Nodes : IsInjective(u[m].children)
  BY <1>p, <1>4, <1>5, <1>6, NewItemType
<1>9. \A p \in Nodes : Children(u)[p] = IF p \in G THEN {}
                                       ELSE IF p = a THEN (next[a] \ C) \cup {n} ELSE next[p]
  <2>1. \A p \in Nodes : Children(u)[p] = ToSet(u[p].children) /\ next[p] = ToSet(t[p].children)
    BY <1>p, <1>7, ChildrenType
  <2>2. \A p \in G : Children(u)[p] = {}
    BY <1>1, <1>2, <1>5, <2>1, NewItemType
  <2>3. \A p \in Nodes \ (G \cup {a}) : u[p].children = t[p].children
    BY <1>5, <1>6
  <2>4. Children(u)[a] = (next[a] \ C) \cup {n} /\ a \notin G
    BY <1>1, <1>2, <1>4, <1>6, <2>1
  <2> HIDE DEF next, C
  <2> QED BY <2>1, <2>2, <2>3, <2>4
<1>10. IsForest(Children(u), L \ G, R \ {n})
  <2>1. Children(u) \in [Nodes -> SUBSET Nodes] /\ IsForest(next, L, R)
    BY <1>p, <1>7, ChildrenType
  <2>2. /\ {n} \subseteq R /\ C \subseteq next[a] /\ \A m \in {n} : a \notin Below(next, m)
        /\ \A x : x \in G <=> \E c \in C : x \in Below(next, c)
    BY <1>p, <1>1, <1>2 DEF Subtree
  <2> HIDE DEF next, C
  <2>3. Exchanges(Nodes, next, L, R, a, C, {n}, G, Children(u))
    BY <1>p, <1>9, <2>2 DEF Exchanges
  <2> QED BY <1>1, <2>1, <2>3, Exchange
<1>11. Placed(t[a].children, u[a].children, i, n)
  <2>1. t[a].children \in Seq(Nodes)
    BY <1>p, <1>1, ChildrenType
  <2> QED BY <1>p, <1>1, <1>3, <1>6, <2>1, ReplaceSet, AppendSet DEF Placed, list
<1>12. Documents(u, L \ G, R \ {n})
  BY <1>8, <1>10 DEF Documents
<1> HIDE DEF next, C
<1> QED BY <1>2, <1>3, <1>5, <1>6, <1>7, <1>11, <1>12 DEF IsPut

(* The item in the place i of a is deleted.                                   *)
IsCut(t, L, R, a, i, G, u) ==
  /\ u \in [Nodes -> Items] /\ Documents(u, L \ G, R) /\ a \notin G
  /\ u[a].children = IF i \in DOMAIN t[a].children
                     THEN RemoveAt(t[a].children, i) ELSE t[a].children
  /\ \A m \in Nodes \ (G \cup {a}) : u[m] = t[m]
  /\ u[a].key = t[a].key /\ u[a].type = t[a].type

LEMMA CutFacts ==
  ASSUME NEW t, NEW L, NEW R, t \in [Nodes -> Items], Documents(t, L, R),
         NEW a \in L, NEW i, NEW G, G = Gone(t, a, i), NEW u, u = Cut(t, a, i)
  PROVE  IsCut(t, L, R, a, i, G, u)
<1>p. IsForest(Children(t), L, R) /\ \A m \in Nodes : IsInjective(t[m].children)
  BY DEF Documents
<1> DEFINE next == Children(t)
           C == Dropped(t, a, i)
           list == RemoveAt(t[a].children, i)
<1>0. CASE i \notin DOMAIN t[a].children
  <2>1. u = t /\ G = {}
    BY <1>0 DEF Cut, Gone
  <2> QED BY <1>0, <2>1 DEF IsCut
<1>a. CASE i \in DOMAIN t[a].children
  <2>1. /\ a \in Nodes /\ L \subseteq Nodes /\ R \subseteq L
        /\ next \in [Nodes -> SUBSET Nodes]
    BY <1>p, ChildrenType DEF IsForest
  <2>2. /\ G = UNION {Subtree(t, c) : c \in C} /\ G \subseteq L \ R /\ a \notin G
        /\ C \subseteq next[a]
    BY <1>p, GoneFacts
  <2>4. list \in Seq(Nodes) /\ IsInjective(list) /\ ToSet(list) = next[a] \ C
    BY <1>p, <1>a, <2>1, ChildrenType, RemoveFacts, RemoveSet DEF Dropped
  <2>5. /\ \A m \in Nodes \ (G \cup {a}) : u[m] = t[m]
        /\ \A m \in G : u[m] = NewItem
        /\ u = [m \in Nodes |-> u[m]]
    BY <1>a, <2>1, <2>2 DEF Cut, Freed
  <2> HIDE DEF list
  <2>6. /\ u[a] \in Items /\ u[a].children = list
        /\ u[a].key = t[a].key /\ u[a].type = t[a].type
    <3>1. u[a] = [t[a] EXCEPT !.children = list]
      BY <1>a, <2>1, <2>2 DEF Cut, Freed, list
    <3>2. t[a] \in Items /\ list \in Seq(Nodes)
      BY <2>1, <2>4
    <3> QED BY <3>1, <3>2 DEF Items
  <2>7. u \in [Nodes -> Items]
    <3>1. \A m \in Nodes : u[m] \in Items
      BY <2>5, <2>6, NewItemType
    <3> QED BY <2>5, <3>1
  <2>8. \A m \in Nodes : IsInjective(u[m].children)
    BY <1>p, <2>4, <2>5, <2>6, NewItemType
  <2>9. \A p \in Nodes : Children(u)[p] = IF p \in G THEN {}
                                         ELSE IF p = a THEN (next[a] \ C) \cup {} ELSE next[p]
    <3>1. \A p \in Nodes : Children(u)[p] = ToSet(u[p].children) /\ next[p] = ToSet(t[p].children)
      BY <2>7, ChildrenType
    <3>2. \A p \in G : Children(u)[p] = {}
      <4>1. \A p \in G : p \in Nodes /\ u[p].children = <<>>
        BY <2>1, <2>2, <2>5, NewItemType
      <4> QED BY <3>1, <4>1, NewItemType
    <3>3. \A p \in Nodes \ (G \cup {a}) : u[p].children = t[p].children
      BY <2>5
    <3>4. Children(u)[a] = (next[a] \ C) \cup {} /\ a \notin G
      BY <2>1, <2>2, <2>4, <2>6, <3>1
    <3> HIDE DEF next, C
    <3> QED BY <3>1, <3>2, <3>3, <3>4
  <2>10. IsForest(Children(u), L \ G, R)
    <3>1. Children(u) \in [Nodes -> SUBSET Nodes] /\ IsForest(next, L, R)
      BY <1>p, <2>7, ChildrenType
    <3>2. /\ C \subseteq next[a]
          /\ \A x : x \in G <=> \E c \in C : x \in Below(next, c)
      BY <2>2 DEF Subtree
    <3> HIDE DEF next, C
    <3>3. Exchanges(Nodes, next, L, R, a, C, {}, G, Children(u))
      BY <2>9, <3>2 DEF Exchanges
    <3>4. IsForest(Children(u), L \ G, R \ {})
      BY <2>1, <3>1, <3>3, Exchange
    <3> QED BY <3>4
  <2>11. Documents(u, L \ G, R)
    BY <2>8, <2>10 DEF Documents
  <2> QED BY <1>a, <2>2, <2>5, <2>6, <2>7, <2>11 DEF list, IsCut
<1> QED BY <1>0, <1>a

-----------------------------------------------------------------------------
(* One state                                                                 *)

LEMMA WrappedType ==
  ASSUME HelperAssumption, NEW h \in [Helpers -> Objs]
  PROVE  /\ Wrapped(h) \in [Helpers -> SUBSET Helpers]
         /\ \A w \in Helpers :
              /\ h[w] \in Objs /\ Wrapped(h)[w] = Cached(h, w) /\ NULL \notin Cached(h, w)
              /\ \A v : v \in Cached(h, w) <=>
                   /\ v \in Helpers
                   /\ \/ \E k \in Keys : v = h[w].obj[k]
                      \/ \E i \in Indexes : v = h[w].arr[i]
<1>1. NULL \notin Helpers
  BY DEF HelperAssumption
<1>2. ASSUME NEW w \in Helpers
      PROVE  \A v : v \in Cached(h, w) <=>
               /\ v \in Helpers
               /\ \/ \E k \in Keys : v = h[w].obj[k]
                  \/ \E i \in Indexes : v = h[w].arr[i]
  <2>1. h[w].obj \in [Keys -> Helpers \cup {NULL}] /\ h[w].arr \in [Indexes -> Helpers \cup {NULL}]
    BY DEF Objs
  <2> QED BY <1>1, <2>1 DEF Cached, Range
<1> QED BY <1>1, <1>2 DEF Wrapped

(* The wrappers of w are the objects in its maps.                             *)
InMaps(h, w) ==
  \A x : x \in Cached(h, w) <=>
    x \in Helpers /\ ((\E k \in Keys : x = h[w].obj[k]) \/ \E i \in Indexes : x = h[w].arr[i])

LEMMA CachedIs ==
  ASSUME HelperAssumption, NEW h \in [Helpers -> Objs], NEW w \in Helpers
  PROVE  InMaps(h, w)
<1>1. \A x : x \in Cached(h, w) <=>
        /\ x \in Helpers
        /\ \/ \E k \in Keys : x = h[w].obj[k]
           \/ \E i \in Indexes : x = h[w].arr[i]
  BY WrappedType
<1> QED BY <1>1 DEF InMaps

LEMMA MapFacts ==
  ASSUME HelperAssumption, NEW h \in [Helpers -> Objs], NEW x \in Helpers
  PROVE  /\ \A k \in Keys : h[x].obj[k] # NULL => h[x].obj[k] \in Cached(h, x)
         /\ \A i \in Indexes : h[x].arr[i] # NULL => h[x].arr[i] \in Cached(h, x)
<1>1. h[x].obj \in [Keys -> Helpers \cup {NULL}] /\ h[x].arr \in [Indexes -> Helpers \cup {NULL}]
  BY DEF Objs
<1> QED BY <1>1, WrappedType

(* The wrappers: each is cached by one used object, none is an owner.          *)
LEMMA WrapperFacts ==
  ASSUME HelperAssumption, NEW h \in [Helpers -> Objs], NEW U, Wrapping(h, U)
  PROVE  /\ U \subseteq Helpers
         /\ \A w \in Helpers : Cached(h, w) \subseteq U \ OwnersOf(h, U)
         /\ \A w \in Helpers \ U : Cached(h, w) = {}
         /\ \A x, y \in Helpers : Cached(h, x) \cap Cached(h, y) # {} => x = y
         /\ \A v \in U \ OwnersOf(h, U) : \E w \in U : v \in Cached(h, w)
<1>0. IsForest(Wrapped(h), U, OwnersOf(h, U)) /\ Wrapped(h) \in [Helpers -> SUBSET Helpers]
  BY WrappedType DEF Wrapping
<1> HIDE DEF OwnersOf
<1>1. U \subseteq Helpers /\ OwnersOf(h, U) \subseteq U
  BY <1>0 DEF IsForest
<1>2. \A w \in Helpers : Cached(h, w) \subseteq IF w \in U THEN U \ OwnersOf(h, U) ELSE {}
  BY <1>0, WrappedType DEF IsForest
<1>3. ASSUME NEW x \in Helpers, NEW y \in Helpers, NEW v, v \in Cached(h, x), v \in Cached(h, y)
      PROVE  x = y
  <2>1. Wrapped(h)[x] \cap Wrapped(h)[y] # {}
    BY <1>3, WrappedType
  <2> QED BY <1>0, <2>1 DEF IsForest
<1>4. ASSUME NEW v \in U \ OwnersOf(h, U) PROVE \E w \in U : v \in Cached(h, w)
  <2>1. PICK r \in OwnersOf(h, U) : v \in Below(Wrapped(h), r)
    BY <1>0 DEF IsForest
  <2>2. PICK w \in Below(Wrapped(h), r) : v \in Wrapped(h)[w]
    BY <1>0, <1>1, <2>1, BelowParent
  <2>3. w \in U
    BY <1>0, <1>1, <2>1, <2>2, BelowLive
  <2> QED BY <1>1, <2>2, <2>3, WrappedType
<1> QED BY <1>1, <1>2, <1>3, <1>4

(* What an object and its wrappers lead to.                                   *)
Shape(t, L, h, U, X) ==
  /\ t \in [Nodes -> Items] /\ L \subseteq Nodes
  /\ h \in [Helpers -> Objs] /\ U \subseteq Helpers
  /\ X \subseteq L /\ RootsOf(h, U) \subseteq L /\ NULL \notin Nodes
  /\ \A u \in U : h[u].m_pJsonData \in L \cup {NULL} /\ h[u].m_pJsonData \notin X
  /\ \A w \in U : \A v \in Cached(h, w) :
       /\ h[w].m_pJsonData \in L
       /\ h[v].m_pJsonData \in Children(t)[h[w].m_pJsonData] \cup {NULL}
  /\ \A n \in Nodes : Children(t)[n] \cap (X \cup RootsOf(h, U)) = {}
  /\ IsForest(Children(t), L, RootsOf(h, U) \cup X) /\ Wrapping(h, U)
  /\ Children(t) \in [Nodes -> SUBSET Nodes]
  /\ \A n \in Nodes : IsInjective(t[n].children)
  /\ \A u, w \in U :
       h[u].m_pJsonData = h[w].m_pJsonData => h[u].m_pJsonData = NULL \/ u = w
  /\ \A u \in U : Current(t, h, u)

LEMMA StepFacts ==
  ASSUME HelperAssumption, NEW t, NEW L, NEW h, NEW U, NEW X, InStep(t, L, h, U, X)
  PROVE  Shape(t, L, h, U, X)
<1>0. /\ t \in [Nodes -> Items] /\ L \subseteq Nodes
      /\ h \in [Helpers -> Objs] /\ U \subseteq Helpers
      /\ Wrapping(h, U) /\ NULL \notin Nodes
  BY DEF InStep, Typed, HelperAssumption
<1>1. /\ X \subseteq L /\ RootsOf(h, U) \subseteq L
      /\ \A n \in Nodes : Children(t)[n] \subseteq L \ (X \cup RootsOf(h, U))
  <2>1. IsForest(Children(t), L, RootsOf(h, U) \cup X)
    BY DEF InStep, Documents
  <2> QED BY <1>0, <2>1, ChildrenType DEF IsForest
<1>2. ASSUME NEW w \in U, NEW v, v \in Cached(h, w)
      PROVE  /\ h[w].m_pJsonData \in L
             /\ h[v].m_pJsonData \in Children(t)[h[w].m_pJsonData] \cup {NULL}
  <2> DEFINE n == h[w].m_pJsonData
  <2>1. Current(t, h, w) /\ n \in L \cup {NULL}
    BY DEF InStep
  <2>2. CASE \E k \in Keys : v = h[w].obj[k]
    <3>1. PICK k \in Keys : v = h[w].obj[k]
      BY <2>2
    <3>2. v # NULL
      BY <1>0, <1>2, WrappedType
    <3>3. n \in Objects /\ h[v].m_pJsonData = First(t, n, k)
      BY <2>1, <3>1, <3>2 DEF Current
    <3>4. n \in Nodes /\ n \in L
      BY <1>0, <2>1, <3>3 DEF HelperAssumption
    <3>5. t[n].children \in Seq(Nodes) /\ Children(t)[n] = ToSet(t[n].children)
      BY <1>0, <3>4, ChildrenType
    <3>6. First(t, n, k) \in Children(t)[n] \cup {NULL}
      BY <1>0, <3>5, FirstFacts
    <3> QED BY <3>3, <3>4, <3>6
  <2>3. CASE \E i \in Indexes : v = h[w].arr[i]
    <3>1. PICK i \in Indexes : v = h[w].arr[i]
      BY <2>3
    <3>2. v # NULL
      BY <1>0, <1>2, WrappedType
    <3>3. n \in Nodes /\ i + 1 \in DOMAIN t[n].children /\ h[v].m_pJsonData = t[n].children[i + 1]
      BY <2>1, <3>1, <3>2 DEF Current
    <3>4. n \in L /\ Children(t)[n] = ToSet(t[n].children)
      BY <1>0, <2>1, <3>3, ChildrenType
    <3> QED BY <3>3, <3>4 DEF ToSet
  <2>4. w \in Helpers
    BY <1>0
  <2> QED BY <1>0, <1>2, <2>2, <2>3, <2>4, WrappedType
<1>3. ASSUME NEW u \in U PROVE h[u].m_pJsonData \in L \cup {NULL} /\ h[u].m_pJsonData \notin X
  <2>1. h[u].m_pJsonData \in L \cup {NULL} /\ X \cap RootsOf(h, U) = {}
    BY DEF InStep
  <2>2. CASE u \in OwnersOf(h, U)
    <3>1. h[u].m_pJsonData = NULL \/ h[u].m_pJsonData \in RootsOf(h, U)
      BY <2>2 DEF RootsOf
    <3> QED BY <1>0, <1>1, <2>1, <3>1
  <2>3. CASE u \notin OwnersOf(h, U)
    <3>1. PICK w \in U : u \in Cached(h, w)
      BY <1>0, <2>3, WrapperFacts
    <3>2. h[u].m_pJsonData \in Children(t)[h[w].m_pJsonData] \cup {NULL}
          /\ h[w].m_pJsonData \in Nodes
      BY <1>0, <1>2, <3>1
    <3> QED BY <1>0, <1>1, <2>1, <3>2
  <2> QED BY <2>2, <2>3
<1>4. /\ IsForest(Children(t), L, RootsOf(h, U) \cup X)
      /\ \A n \in Nodes : IsInjective(t[n].children)
  BY DEF InStep, Documents
<1>5. \A u, w \in U :
        h[u].m_pJsonData = h[w].m_pJsonData => h[u].m_pJsonData = NULL \/ u = w
  BY <1>0 DEF Wrapping
<1>6. Children(t) \in [Nodes -> SUBSET Nodes]
  BY <1>0, ChildrenType
<1>7. \A u \in U : Current(t, h, u)
  BY DEF InStep
<1> QED BY <1>0, <1>1, <1>2, <1>3, <1>4, <1>5, <1>6, <1>7 DEF Shape

(* An object that leads to a child of what w leads to is a wrapper of w.       *)
LEMMA ParentData ==
  ASSUME HelperAssumption, NEW t, NEW L, NEW h, NEW U, NEW X, InStep(t, L, h, U, X),
         NEW u \in U, NEW p \in Nodes, h[u].m_pJsonData \in Children(t)[p]
  PROVE  \E w \in U : u \in Cached(h, w) /\ h[w].m_pJsonData = p
<1>s. Shape(t, L, h, U, X)
  BY StepFacts
<1>0. /\ t \in [Nodes -> Items] /\ L \subseteq Nodes /\ h \in [Helpers -> Objs]
      /\ U \subseteq Helpers /\ NULL \notin Nodes /\ Wrapping(h, U)
      /\ IsForest(Children(t), L, RootsOf(h, U) \cup X)
      /\ Children(t) \in [Nodes -> SUBSET Nodes]
  BY <1>s DEF Shape
<1>1. h[u].m_pJsonData \in Nodes /\ h[u].m_pJsonData \notin RootsOf(h, U)
  BY <1>0, <1>s DEF Shape
<1>2. u \notin OwnersOf(h, U)
  BY <1>0, <1>1 DEF RootsOf
<1>3. PICK w \in U : u \in Cached(h, w)
  BY <1>0, <1>2, WrapperFacts
<1>4. /\ h[w].m_pJsonData \in Nodes
      /\ h[u].m_pJsonData \in Children(t)[h[w].m_pJsonData]
  BY <1>0, <1>1, <1>3, <1>s DEF Shape
<1>5. h[w].m_pJsonData = p
  BY <1>0, <1>4 DEF IsForest
<1> QED BY <1>3, <1>5

(* What leads into the tree below c: what leads to c and what is cached below.  *)
LEMMA IntoSubtree ==
  ASSUME HelperAssumption, NEW t, NEW L, NEW h, NEW U, NEW X, InStep(t, L, h, U, X),
         NEW c \in Nodes, NEW S, \A x \in S \cap U : Cached(h, x) \subseteq S,
         \A u \in U : h[u].m_pJsonData = c => u \in S
  PROVE  \A u \in U : h[u].m_pJsonData \in Subtree(t, c) => u \in S
<1>s. Shape(t, L, h, U, X)
  BY StepFacts
<1>0. /\ t \in [Nodes -> Items] /\ L \subseteq Nodes /\ h \in [Helpers -> Objs]
      /\ U \subseteq Helpers /\ NULL \notin Nodes
      /\ Children(t) \in [Nodes -> SUBSET Nodes]
  BY <1>s DEF Shape
<1> DEFINE D == {n \in Subtree(t, c) : \A u \in U : h[u].m_pJsonData = n => u \in S}
           next == Children(t)
<1>1. Subtree(t, c) = Below(next, c)
  BY DEF Subtree
<1> HIDE DEF next
<1>2. D \in SUBSET Nodes /\ c \in Subtree(t, c)
  BY <1>0, <1>1, BelowFacts DEF next
<1>3. c \in D
  BY <1>2
<1>4. ASSUME NEW p \in D, NEW d \in next[p] PROVE d \in D
  <2>0. d \in Subtree(t, c) /\ p \in Nodes
    BY <1>0, <1>1, <1>2, BelowFacts DEF next
  <2>1. ASSUME NEW u \in U, h[u].m_pJsonData = d PROVE u \in S
    <3>1. PICK x \in U : u \in Cached(h, x) /\ h[x].m_pJsonData = p
      BY <2>0, <2>1, ParentData DEF next
    <3> QED BY <3>1
  <2> QED BY <2>0, <2>1
<1>5. Below(next, c) \subseteq D
  <2> HIDE DEF D
  <2> QED BY <1>0, <1>2, <1>3, <1>4, BelowFacts DEF next
<1> QED BY <1>1, <1>5

(* An object without data has no wrappers; one that is an object or an array   *)
(* only those of its kind.                                                   *)
LEMMA KindOfMaps ==
  ASSUME HelperAssumption, NEW t, NEW L, NEW h, NEW U, NEW X, InStep(t, L, h, U, X),
         NEW w \in U
  PROVE  /\ h[w].m_pJsonData \notin Objects => \A k \in Keys : h[w].obj[k] = NULL
         /\ h[w].m_pJsonData \in Objects \cup Values \cup {NULL} =>
              \A i \in Indexes : h[w].arr[i] = NULL
BY DEF InStep, Current, HelperAssumption

-----------------------------------------------------------------------------
(* The steps that the calls are made of                                      *)

(* g is h with another value n of m_pJsonData of w.                           *)
Moves(h, g, w, n) ==
  /\ g \in [Helpers -> Objs] /\ g[w].m_pJsonData = n
  /\ \A x \in Helpers : /\ g[x].obj = h[x].obj /\ g[x].arr = h[x].arr
                        /\ g[x].m_bRoot = h[x].m_bRoot
                        /\ x # w => g[x] = h[x]
  /\ Wrapped(g) = Wrapped(h) /\ \A x \in Helpers : Cached(g, x) = Cached(h, x)

LEMMA DataChange ==
  ASSUME HelperAssumption, NEW h \in [Helpers -> Objs], NEW w \in Helpers, NEW n \in Pointers,
         NEW g, g = [h EXCEPT ![w].m_pJsonData = n]
  PROVE  Moves(h, g, w, n)
<1>1. g[w] = [h[w] EXCEPT !.m_pJsonData = n] /\ \A x \in Helpers : x # w => g[x] = h[x]
  OBVIOUS
<1>2. /\ g[w] \in Objs /\ g[w].m_pJsonData = n /\ g[w].obj = h[w].obj /\ g[w].arr = h[w].arr
      /\ g[w].m_bRoot = h[w].m_bRoot
  BY <1>1 DEF Objs
<1>3. g \in [Helpers -> Objs]
  <2>1. \A x \in Helpers : g[x] \in Objs
    BY <1>1, <1>2
  <2>2. g = [x \in Helpers |-> g[x]]
    OBVIOUS
  <2> QED BY <2>1, <2>2
<1>4. \A x \in Helpers : g[x].obj = h[x].obj /\ g[x].arr = h[x].arr /\ g[x].m_bRoot = h[x].m_bRoot
  BY <1>1, <1>2
<1>5. \A x \in Helpers : Cached(g, x) = Cached(h, x)
  BY <1>4 DEF Cached
<1> QED BY <1>1, <1>2, <1>3, <1>4, <1>5 DEF Wrapped, Moves

LEMMA SameFirst ==
  ASSUME NEW t, NEW u, NEW o, NEW k, t[o].children \in Seq(Nodes), u[o].children = t[o].children,
         \A c \in ToSet(t[o].children) : u[c].key = t[c].key
  PROVE  First(u, o, k) = First(t, o, k)
<1> DEFINE s == t[o].children
           I(x) == {j \in 1 .. Len(s) : x[s[j]].key # NULL /\ Fold[x[s[j]].key] = Fold[k]}
<1>1. \A j \in 1 .. Len(s) : u[s[j]].key = t[s[j]].key
  BY DEF ToSet
<1>2. I(u) = I(t)
  BY <1>1
<1>3. Member(u, o, k) = Member(t, o, k)
  BY <1>2 DEF Member, SelectInSeq
<1> QED BY <1>3 DEF First, ItemAt

(* Where neither the children nor the wrappers change, the maps stay current.  *)
LEMMA CurrentKept ==
  ASSUME HelperAssumption, NEW t \in [Nodes -> Items], NEW h \in [Helpers -> Objs],
         NEW x \in Helpers, Current(t, h, x), h[x].m_pJsonData \in Pointers, NEW u, NEW g,
         g[x].m_pJsonData = h[x].m_pJsonData, g[x].obj = h[x].obj, g[x].arr = h[x].arr,
         \A v \in Cached(h, x) : g[v].m_pJsonData = h[v].m_pJsonData,
         h[x].m_pJsonData # NULL =>
           /\ u[h[x].m_pJsonData].children = t[h[x].m_pJsonData].children
           /\ \A c \in Children(t)[h[x].m_pJsonData] : u[c].key = t[c].key
  PROVE  Current(u, g, x)
<1> DEFINE n == h[x].m_pJsonData
<1>0. /\ \A k \in Keys : h[x].obj[k] # NULL => h[x].obj[k] \in Cached(h, x)
      /\ \A i \in Indexes : h[x].arr[i] # NULL => h[x].arr[i] \in Cached(h, x)
  BY MapFacts
<1>1. CASE n = NULL
  BY <1>0, <1>1 DEF Current, HelperAssumption
<1>2. CASE n # NULL
  <2>1. n \in Nodes /\ t[n].children \in Seq(Nodes) /\ Children(t)[n] = ToSet(t[n].children)
    BY <1>2, ChildrenType DEF Pointers
  <2>2. \A k : First(u, n, k) = First(t, n, k)
    BY <1>2, <2>1, SameFirst
  <2> QED BY <1>0, <1>2, <2>2 DEF Current
<1> QED BY <1>1, <1>2

(* A new object, without data.                                                *)
LEMMA ConstructStep ==
  ASSUME HelperAssumption, NEW t, NEW L, NEW h, NEW U, NEW X, InStep(t, L, h, U, X),
         NEW w \in Helpers \ U
  PROVE  InStep(t, L, h, U \cup {w}, X)
<1>s. Shape(t, L, h, U, X)
  BY StepFacts
<1> DEFINE V == U \cup {w}
<1>1. /\ h[w] = NewHelper(TRUE, NULL) /\ h[w].m_pJsonData = NULL /\ h[w].m_bRoot = TRUE
      /\ \A k \in Keys : h[w].obj[k] = NULL
      /\ \A i \in Indexes : h[w].arr[i] = NULL
  BY <1>s DEF Shape, Wrapping, NewHelper
<1>2. OwnersOf(h, V) = OwnersOf(h, U) \cup {w} /\ RootsOf(h, V) = RootsOf(h, U)
  BY <1>1 DEF OwnersOf, RootsOf
<1>3. IsForest(Wrapped(h), V, OwnersOf(h, V))
  <2>1. IsForest(Wrapped(h), U, OwnersOf(h, U)) /\ Wrapped(h) \in [Helpers -> SUBSET Helpers]
    BY <1>s, WrappedType DEF Shape, Wrapping
  <2>2. IsForest(Wrapped(h), U \cup {w}, OwnersOf(h, U) \cup {w})
    BY <2>1, GrowOne
  <2> QED BY <1>2, <2>2
<1>4. Wrapping(h, V)
  BY <1>s, <1>1, <1>3 DEF Shape, Wrapping
<1>5. Current(t, h, w)
  BY <1>1 DEF Current
<1> QED BY <1>1, <1>2, <1>4, <1>5 DEF InStep, Typed

(* New items, in a tree with the top n.                                       *)
Creates(t, L, R, u, new, n) ==
  /\ u \in [Nodes -> Items] /\ new \cap L = {} /\ n \in new
  /\ \A m \in Nodes \ new : u[m] = t[m]
  /\ Documents(u, L \cup new, R \cup {n})

LEMMA CreateStep ==
  ASSUME HelperAssumption, NEW t, NEW L, NEW h, NEW U, NEW X, InStep(t, L, h, U, X),
         NEW u, NEW new, NEW n, Creates(t, L, RootsOf(h, U) \cup X, u, new, n)
  PROVE  InStep(u, L \cup new, h, U, X \cup {n})
<1>s. Shape(t, L, h, U, X)
  BY StepFacts
<1>0. /\ u \in [Nodes -> Items] /\ new \cap L = {} /\ n \in new
      /\ \A m \in Nodes \ new : u[m] = t[m]
      /\ Documents(u, L \cup new, (RootsOf(h, U) \cup X) \cup {n})
  BY DEF Creates
<1>1. L \cup new \subseteq Nodes
  <2>1. Children(u) \in [Nodes -> SUBSET Nodes]
    BY <1>0, ChildrenType
  <2> QED BY <1>0, <2>1 DEF Documents, IsForest
<1>2. \A m \in L : m \in Nodes /\ u[m] = t[m]
  BY <1>0, <1>s DEF Shape
<1>3. ASSUME NEW x \in U PROVE Current(u, h, x)
  <2>1. /\ x \in Helpers /\ Current(t, h, x) /\ h[x].m_pJsonData \in L \cup {NULL}
        /\ t \in [Nodes -> Items] /\ h \in [Helpers -> Objs] /\ h[x].m_pJsonData \in Pointers
    BY <1>s DEF Shape, Pointers
  <2>2. h[x].m_pJsonData # NULL => /\ h[x].m_pJsonData \in L
                                   /\ Children(t)[h[x].m_pJsonData] \subseteq L
    BY <1>s, <2>1 DEF Shape, IsForest
  <2> QED BY <1>2, <2>1, <2>2, CurrentKept
<1>4. n \notin RootsOf(h, U)
  BY <1>0, <1>s DEF Shape
<1>5. Documents(u, L \cup new, RootsOf(h, U) \cup (X \cup {n}))
  <2>1. (RootsOf(h, U) \cup X) \cup {n} = RootsOf(h, U) \cup (X \cup {n})
    OBVIOUS
  <2> QED BY <1>0, <2>1
<1>6. (X \cup {n}) \cap RootsOf(h, U) = {}
  BY <1>4 DEF InStep
<1>7. Typed(u, L \cup new, h, U) /\ Wrapping(h, U)
  BY <1>s, <1>0, <1>1 DEF Typed, Shape
<1>8. \A x \in U : h[x].m_pJsonData \in (L \cup new) \cup {NULL}
  BY <1>s DEF Shape
<1> HIDE DEF RootsOf, Documents, Typed, Wrapping
<1> QED BY <1>3, <1>5, <1>6, <1>7, <1>8 DEF InStep

LEMMA CreateOne ==
  ASSUME HelperAssumption, NEW t, NEW L, NEW h, NEW U, NEW X, InStep(t, L, h, U, X),
         NEW n \in Nodes \ L
  PROVE  InStep(t, L \cup {n}, h, U, X \cup {n})
<1>s. Shape(t, L, h, U, X)
  BY StepFacts
<1>1. IsForest(Children(t), L \cup {n}, (RootsOf(h, U) \cup X) \cup {n})
  BY <1>s, GrowOne DEF Shape
<1>2. Documents(t, L \cup {n}, (RootsOf(h, U) \cup X) \cup {n})
  BY <1>s, <1>1 DEF Documents, Shape
<1>3. Creates(t, L, RootsOf(h, U) \cup X, t, {n}, n)
  BY <1>s, <1>2 DEF Creates, Shape
<1> QED BY <1>3, CreateStep

(* An object without data gets a tree that none owns.                         *)
LEMMA OwnStep ==
  ASSUME HelperAssumption, NEW t, NEW L, NEW h, NEW U, NEW X, InStep(t, L, h, U, X),
         NEW w \in U, h[w].m_bRoot, h[w].m_pJsonData = NULL, NEW o \in X,
         NEW g, g = [h EXCEPT ![w].m_pJsonData = o]
  PROVE  InStep(t, L, g, U, X \ {o})
<1>s. Shape(t, L, h, U, X)
  BY StepFacts
<1>0. /\ h \in [Helpers -> Objs] /\ w \in Helpers /\ U \subseteq Helpers /\ o \in Pointers
      /\ o # NULL /\ o \in L /\ t \in [Nodes -> Items] /\ L \subseteq Nodes
  BY <1>s DEF Shape, Pointers
<1>1. /\ g \in [Helpers -> Objs] /\ g[w].m_pJsonData = o
      /\ \A x \in Helpers : /\ g[x].obj = h[x].obj /\ g[x].arr = h[x].arr
                            /\ g[x].m_bRoot = h[x].m_bRoot
                            /\ x # w => g[x] = h[x]
      /\ Wrapped(g) = Wrapped(h) /\ \A x \in Helpers : Cached(g, x) = Cached(h, x)
  <2>1. Moves(h, g, w, o)
    BY <1>0, DataChange
  <2> QED BY <2>1 DEF Moves
<1>2. OwnersOf(g, U) = OwnersOf(h, U) /\ w \in OwnersOf(h, U)
  BY <1>0, <1>1 DEF OwnersOf
<1>3. RootsOf(g, U) = RootsOf(h, U) \cup {o}
  <2>1. \A x \in OwnersOf(h, U) : x \in Helpers
    BY <1>0 DEF OwnersOf
  <2> QED BY <1>0, <1>1, <1>2, <2>1 DEF RootsOf
<1>4. Wrapping(g, U)
  <2>1. \A x, y \in U : g[x].m_pJsonData = g[y].m_pJsonData => g[x].m_pJsonData = NULL \/ x = y
    <3>1. \A x \in U : h[x].m_pJsonData # o
      BY <1>s DEF Shape
    <3>2. \A x, y \in U : h[x].m_pJsonData = h[y].m_pJsonData => h[x].m_pJsonData = NULL \/ x = y
      BY <1>s DEF Shape
    <3>3. /\ g[w].m_pJsonData = o
          /\ \A x \in U \ {w} : g[x].m_pJsonData = h[x].m_pJsonData
      BY <1>0, <1>1
    <3>4. ASSUME NEW x \in U, NEW y \in U, g[x].m_pJsonData = g[y].m_pJsonData
          PROVE  g[x].m_pJsonData = NULL \/ x = y
      <4>1. CASE x # w /\ y # w
        BY <3>2, <3>3, <3>4, <4>1
      <4>2. CASE x = w \/ y = w
        BY <3>1, <3>3, <3>4, <4>2
      <4> QED BY <4>1, <4>2
    <3> QED BY <3>4
  <2>2. \A x \in Helpers \ U : g[x] = NewHelper(TRUE, NULL)
    <3>1. \A x \in Helpers \ U : h[x] = NewHelper(TRUE, NULL) /\ x # w
      BY <1>s DEF Shape, Wrapping
    <3> QED BY <1>1, <3>1
  <2>3. /\ IsForest(Wrapped(g), U, OwnersOf(g, U))
        /\ \A x \in Helpers :
             /\ \A k, l \in Keys : g[x].obj[k] = g[x].obj[l] => g[x].obj[k] = NULL \/ k = l
             /\ \A i, j \in Indexes : g[x].arr[i] = g[x].arr[j] => g[x].arr[i] = NULL \/ i = j
    BY <1>s, <1>1, <1>2 DEF Shape, Wrapping
  <2> QED BY <2>1, <2>2, <2>3 DEF Wrapping
<1>5. ASSUME NEW x \in U PROVE Current(t, g, x)
  <2>1. Current(t, h, x) /\ x \in Helpers /\ h[x].m_pJsonData \in Pointers
    BY <1>s DEF Shape, Pointers
  <2>2. CASE x = w
    <3>1. /\ \A k \in Keys : g[w].obj[k] = NULL
          /\ \A i \in Indexes : g[w].arr[i] = NULL
      BY <1>0, <1>1, KindOfMaps DEF HelperAssumption
    <3> QED BY <2>2, <3>1 DEF Current
  <2>3. CASE x # w
    <3>1. \A v \in Cached(h, x) : v \in Helpers /\ v # w
      BY <1>s, <1>0, <1>2, WrapperFacts DEF Shape
    <3> QED BY <1>0, <1>1, <2>1, <2>3, <3>1, CurrentKept
  <2> QED BY <2>2, <2>3
<1>6. /\ Documents(t, L, RootsOf(g, U) \cup (X \ {o})) /\ (X \ {o}) \cap RootsOf(g, U) = {}
  <2>1. RootsOf(g, U) \cup (X \ {o}) = RootsOf(h, U) \cup X
    BY <1>3
  <2>2. Documents(t, L, RootsOf(h, U) \cup X) /\ X \cap RootsOf(h, U) = {}
    BY DEF InStep
  <2> QED BY <1>3, <2>1, <2>2
<1>7. Typed(t, L, g, U)
  BY <1>s, <1>1 DEF Typed, Shape
<1>8. \A x \in U : g[x].m_pJsonData \in L \cup {NULL}
  BY <1>s, <1>0, <1>1 DEF Shape
<1> QED BY <1>4, <1>5, <1>6, <1>7, <1>8 DEF InStep

(* The items in the other places keep their names.                            *)
KeysKept(t, u, a, i) ==
  \A j \in DOMAIN t[a].children : j # i => u[t[a].children[j]].key = t[t[a].children[j]].key

(* Another name finds the item it found before.                               *)
LEMMA PutOther ==
  ASSUME NULL \notin Nodes, NEW t, NEW u, NEW a, NEW i, NEW n, NEW l,
         Placed(t[a].children, u[a].children, i, n),
         KeysKept(t, u, a, i), ~ Has(u, n, l),
         i \in DOMAIN t[a].children => ~ Has(t, t[a].children[i], l)
  PROVE  First(u, a, l) = First(t, a, l)
<1> DEFINE s == t[a].children
           r == u[a].children
           m == Member(t, a, l)
<1>0. /\ s \in Seq(Nodes) /\ r \in Seq(Nodes) /\ Len(s) \in Nat
      /\ DOMAIN s = 1 .. Len(s) /\ DOMAIN r = 1 .. Len(r)
      /\ DOMAIN s \subseteq DOMAIN r
      /\ \A j \in DOMAIN r : r[j] = n \/ (j \in DOMAIN s /\ j # i /\ r[j] = s[j])
      /\ \A j \in DOMAIN s : j # i => r[j] = s[j]
      /\ 0 \notin DOMAIN s /\ 0 \notin DOMAIN r
  BY DEF Placed
<1> HIDE DEF s, r
<1>1. \A j \in DOMAIN s : j # i => (Has(u, s[j], l) <=> Has(t, s[j], l))
  BY DEF Has, s, KeysKept
<1>2. CASE m = 0
  <2>1. \A j \in DOMAIN s : ~ Has(t, s[j], l)
    BY <1>0, <1>2, MemberFacts DEF s
  <2>2. \A j \in DOMAIN r : ~ Has(u, r[j], l)
    BY <1>0, <1>1, <2>1
  <2>3. Member(u, a, l) = 0
    BY <1>0, <2>2, MemberFacts DEF r
  <2> QED BY <1>0, <1>2, <2>3 DEF First, ItemAt, s, r
<1>3. CASE m # 0
  <2>1. /\ m \in DOMAIN s /\ Has(t, s[m], l) /\ \A j \in DOMAIN s : j < m => ~ Has(t, s[j], l)
    BY <1>0, <1>3, MemberFacts DEF s
  <2>2. m # i /\ r[m] = s[m] /\ Has(u, r[m], l) /\ m \in DOMAIN r
    BY <1>0, <1>1, <2>1 DEF s
  <2>3. \A j \in DOMAIN r : j < m => ~ Has(u, r[j], l)
    BY <1>0, <1>1, <2>1
  <2>4. Member(u, a, l) = m
    BY <1>0, <2>2, <2>3, MemberIs DEF r
  <2> QED BY <2>1, <2>2, <2>4 DEF First, ItemAt, s, r
<1> QED BY <1>2, <1>3

(* The name it was put under finds n.                                         *)
LEMMA PutSame ==
  ASSUME NEW t, NEW u, NEW a, NEW n, NEW k, k # NULL, u[n].key = k, NEW i, i = Member(t, a, k),
         Placed(t[a].children, u[a].children, i, n), KeysKept(t, u, a, i)
  PROVE  First(u, a, k) = n
<1> DEFINE s == t[a].children
           r == u[a].children
           m == IF i \in DOMAIN s THEN i ELSE Len(s) + 1
<1>0. /\ s \in Seq(Nodes) /\ r \in Seq(Nodes) /\ Len(s) \in Nat
      /\ DOMAIN s = 1 .. Len(s)
      /\ m \in DOMAIN r /\ r[m] = n
      /\ \A j \in DOMAIN r : j < m => j \in DOMAIN s /\ j # i /\ r[j] = s[j]
  BY DEF Placed
<1>1. Has(u, n, k)
  BY DEF Has
<1>2. \A j \in DOMAIN s : j < m => ~ Has(t, s[j], k)
  BY <1>0, MemberFacts
<1>3. \A j \in DOMAIN r : j < m => ~ Has(u, r[j], k)
  BY <1>0, <1>2 DEF Has, KeysKept
<1> HIDE DEF m
<1>4. Member(u, a, k) = m
  BY <1>0, <1>1, <1>3, MemberIs
<1> QED BY <1>0, <1>4 DEF First, ItemAt

(* The item in the place i is taken out: other names find what they found.     *)
LEMMA CutOther ==
  ASSUME NULL \notin Nodes, NEW t, NEW u, NEW a, NEW l,
         t[a].children \in Seq(Nodes), NEW i \in DOMAIN t[a].children,
         u[a].children = RemoveAt(t[a].children, i),
         KeysKept(t, u, a, i), ~ Has(t, t[a].children[i], l)
  PROVE  First(u, a, l) = First(t, a, l)
<1> DEFINE s == t[a].children
           r == u[a].children
           m == Member(t, a, l)
           d == IF m < i THEN m ELSE m - 1
<1>0. /\ s \in Seq(Nodes) /\ Len(s) \in Nat /\ DOMAIN s = 1 .. Len(s) /\ i \in 1 .. Len(s)
      /\ 0 \notin DOMAIN s
  OBVIOUS
<1>a. /\ r \in Seq(Nodes) /\ DOMAIN r = 1 .. Len(s) - 1 /\ 0 \notin DOMAIN r
      /\ \A j \in 1 .. Len(s) - 1 : r[j] = IF j < i THEN s[j] ELSE s[j + 1]
  <2>1. /\ RemoveAt(s, i) \in Seq(Nodes) /\ DOMAIN RemoveAt(s, i) = 1 .. Len(s) - 1
        /\ \A j \in 1 .. Len(s) - 1 : RemoveAt(s, i)[j] = IF j < i THEN s[j] ELSE s[j + 1]
    <3> HIDE DEF s
    <3> QED BY RemoveFacts DEF s
  <2>2. r = RemoveAt(s, i)
    OBVIOUS
  <2>3. 0 \notin 1 .. Len(s) - 1
    OBVIOUS
  <2> HIDE DEF r, s
  <2> QED BY <2>1, <2>2, <2>3
<1> HIDE DEF s, r
<1>1. \A j \in DOMAIN s : j # i => (Has(u, s[j], l) <=> Has(t, s[j], l))
  BY DEF Has, s, KeysKept
<1>2. CASE m = 0
  <2>1. \A j \in DOMAIN s : ~ Has(t, s[j], l)
    BY <1>0, <1>2, MemberFacts DEF s
  <2>2. ASSUME NEW j \in DOMAIN r PROVE ~ Has(u, r[j], l)
    <3>1. CASE j < i
      <4>1. j \in DOMAIN s /\ j # i /\ r[j] = s[j]
        BY <1>0, <1>a, <2>2, <3>1
      <4> QED BY <1>1, <2>1, <4>1
    <3>2. CASE ~ (j < i)
      <4>1. j + 1 \in DOMAIN s /\ j + 1 # i /\ r[j] = s[j + 1]
        BY <1>0, <1>a, <2>2, <3>2
      <4> QED BY <1>1, <2>1, <4>1
    <3> QED BY <3>1, <3>2
  <2>3. Member(u, a, l) = 0
    BY <1>a, <2>2, MemberFacts DEF r
  <2> QED BY <1>0, <1>a, <1>2, <2>3 DEF First, ItemAt, s, r
<1>3. CASE m # 0
  <2>1. /\ m \in DOMAIN s /\ Has(t, s[m], l) /\ \A j \in DOMAIN s : j < m => ~ Has(t, s[j], l)
    BY <1>0, <1>3, MemberFacts DEF s
  <2>2. m # i /\ d \in 1 .. Len(s) - 1 /\ r[d] = s[m] /\ Has(u, r[d], l)
    <3>1. m # i
      BY <2>1 DEF s
    <3>2. d \in 1 .. Len(s) - 1 /\ (IF d < i THEN d ELSE d + 1) = m
      BY <1>0, <2>1, <3>1
    <3> QED BY <1>0, <1>a, <1>1, <2>1, <3>1, <3>2
  <2>3. ASSUME NEW j \in DOMAIN r, j < d PROVE ~ Has(u, r[j], l)
    <3>1. CASE j < i
      <4>1. j \in DOMAIN s /\ j < m /\ j # i /\ r[j] = s[j]
        BY <1>0, <1>a, <2>1, <2>2, <2>3, <3>1
      <4> QED BY <1>1, <2>1, <4>1
    <3>2. CASE ~ (j < i)
      <4>1. j + 1 \in DOMAIN s /\ j + 1 < m /\ j + 1 # i /\ r[j] = s[j + 1]
        BY <1>0, <1>a, <2>1, <2>2, <2>3, <3>2
      <4> QED BY <1>1, <2>1, <4>1
    <3> QED BY <3>1, <3>2
  <2> HIDE DEF d
  <2>4. Member(u, a, l) = d
    BY <1>a, <2>2, <2>3, MemberIs DEF r
  <2> QED BY <1>0, <1>a, <2>1, <2>2, <2>4 DEF First, ItemAt, s, r
<1> QED BY <1>2, <1>3

DistinctKeys == \A k, l \in Keys : Fold[k] = Fold[l] => k = l

(* Where the maps of w keep the wrapper v of the item in the place i, which has *)
(* or gets the name k: of a member of an object, or of the items of an array.  *)
KeyPlace(t, h, w, i, k, v) ==
  /\ h[w].m_pJsonData \in Objects /\ k \in Keys /\ v = h[w].obj[k]
  /\ i = Member(t, h[w].m_pJsonData, k) \/ (i = 0 /\ v = NULL)
IndexPlace(t, h, w, i, v) ==
  /\ h[w].m_pJsonData \in Nodes \ (Objects \cup Values)
  /\ \/ i = 0 /\ v = NULL
     \/ \E x \in Indexes :
          i = x + 1 /\ i \in DOMAIN t[h[w].m_pJsonData].children /\ v = h[w].arr[x]
Place(t, h, w, i, k, v) ==
  KeyPlace(t, h, w, i, k, v) \/ (k = NULL /\ IndexPlace(t, h, w, i, v))

(* The wrappers of the item in a place.                                       *)
LEMMA PlaceFacts ==
  ASSUME HelperAssumption, DistinctKeys,
         NEW t, NEW L, NEW h, NEW U, NEW X, InStep(t, L, h, U, X),
         NEW w \in U, NEW i, NEW k, NEW v, Place(t, h, w, i, k, v)
  PROVE  /\ h[w].m_pJsonData \in L /\ h[w].m_pJsonData \in Nodes /\ w \in Helpers
         /\ v # NULL => v \in Cached(h, w) /\ v \in U \ OwnersOf(h, U) /\ v \in Helpers
         /\ i \in DOMAIN t[h[w].m_pJsonData].children =>
              \A y \in Cached(h, w) :
                h[y].m_pJsonData = t[h[w].m_pJsonData].children[i] => y = v
<1>s. Shape(t, L, h, U, X)
  BY StepFacts
<1> DEFINE a == h[w].m_pJsonData
           s == t[a].children
<1>0. /\ h \in [Helpers -> Objs] /\ t \in [Nodes -> Items] /\ Wrapping(h, U) /\ NULL \notin Nodes
      /\ w \in Helpers /\ Current(t, h, w) /\ a \in L \cup {NULL}
  BY <1>s DEF Shape
<1>1. a \in L /\ a \in Nodes /\ a # NULL
  BY <1>s, <1>0 DEF Place, KeyPlace, IndexPlace, HelperAssumption, Shape
<1>2. ASSUME v # NULL PROVE v \in Cached(h, w)
  <2>1. h[w].obj \in [Keys -> Helpers \cup {NULL}] /\ h[w].arr \in [Indexes -> Helpers \cup {NULL}]
    BY <1>0 DEF Objs
  <2> QED BY <1>0, <1>2, <2>1, WrappedType DEF Place, KeyPlace, IndexPlace
<1>3. s \in Seq(Nodes) /\ IsInjective(s)
  BY <1>s, <1>0, <1>1, ChildrenType DEF Shape
<1>4. ASSUME i \in DOMAIN s, NEW y \in Cached(h, w), h[y].m_pJsonData = s[i]
      PROVE  y = v
  <2>0. y # NULL /\ \/ \E l \in Keys : y = h[w].obj[l]
                    \/ \E j \in Indexes : y = h[w].arr[j]
    BY <1>0, WrappedType
  <2>1. CASE KeyPlace(t, h, w, i, k, v)
    <3>1. \A j \in Indexes : h[w].arr[j] = NULL
      BY <2>1, KindOfMaps DEF KeyPlace
    <3>2. PICK l \in Keys : y = h[w].obj[l]
      BY <2>0, <3>1
    <3>3. s[i] = First(t, a, l) /\ s[i] # NULL
      BY <1>0, <1>3, <1>4, <2>0, <3>2 DEF Current
    <3>4. Has(t, s[i], l)
      BY <1>0, <1>3, <3>3, FirstFacts
    <3>5. i = Member(t, a, k) /\ i # 0
      BY <1>4, <2>1, <1>3 DEF KeyPlace
    <3>6. Has(t, s[i], k)
      BY <1>3, <3>5, MemberFacts
    <3>7. l = k
      BY <2>1, <3>4, <3>6 DEF Has, KeyPlace, DistinctKeys
    <3> QED BY <2>1, <3>2, <3>7 DEF KeyPlace
  <2>2. CASE IndexPlace(t, h, w, i, v)
    <3>1. \A l \in Keys : h[w].obj[l] = NULL
      BY <2>2, KindOfMaps DEF IndexPlace
    <3>2. PICK j \in Indexes : y = h[w].arr[j]
      BY <2>0, <3>1
    <3>3. j + 1 \in DOMAIN s /\ s[i] = s[j + 1]
      BY <1>0, <1>4, <2>0, <3>2 DEF Current
    <3>4. i = j + 1
      BY <1>3, <1>4, <3>3 DEF IsInjective
    <3>5. i # 0
      BY <1>3, <1>4
    <3>6. PICK x \in Indexes : i = x + 1 /\ v = h[w].arr[x]
      BY <2>2, <3>5 DEF IndexPlace
    <3>7. x = j
      BY <3>4, <3>6 DEF HelperAssumption
    <3> QED BY <3>2, <3>6, <3>7
  <2> QED BY <2>1, <2>2 DEF Place
<1>5. v # NULL => v \in U \ OwnersOf(h, U) /\ v \in Helpers
  BY <1>0, <1>2, WrapperFacts
<1> QED BY <1>0, <1>1, <1>2, <1>4, <1>5

(* What leads to an item that goes with the one in a place is v or below it.   *)
LEMMA IntoGone ==
  ASSUME HelperAssumption, DistinctKeys,
         NEW t, NEW L, NEW h, NEW U, NEW X, InStep(t, L, h, U, X),
         NEW w \in U, NEW i, NEW k, NEW v, Place(t, h, w, i, k, v),
         NEW S, \A x \in S \cap U : Cached(h, x) \subseteq S, v # NULL => v \in S,
         NEW x \in U, h[x].m_pJsonData \in Gone(t, h[w].m_pJsonData, i)
  PROVE  x \in S
<1> DEFINE a == h[w].m_pJsonData
           s == t[a].children
<1>1. i \in DOMAIN s /\ h[x].m_pJsonData \in Subtree(t, s[i])
  BY DEF Gone
<1>2. /\ a \in L /\ a \in Nodes /\ w \in Helpers
      /\ \A y \in Cached(h, w) : h[y].m_pJsonData = s[i] => y = v
  BY <1>1, PlaceFacts
<1>s. Shape(t, L, h, U, X)
  BY StepFacts
<1>3. s[i] \in Children(t)[a] /\ s[i] \in Nodes /\ NULL \notin L
  BY <1>s, <1>1, <1>2, ChildrenType DEF Shape, ToSet
<1>4. ASSUME NEW u \in U, h[u].m_pJsonData = s[i] PROVE u \in S
  <2>1. PICK y \in U : u \in Cached(h, y) /\ h[y].m_pJsonData = a
    BY <1>2, <1>3, <1>4, ParentData
  <2>2. y = w
    <3>1. h[y].m_pJsonData = h[w].m_pJsonData => h[y].m_pJsonData = NULL \/ y = w
      BY <1>s DEF Shape
    <3> QED BY <1>2, <1>3, <2>1, <3>1
  <2>3. u # NULL
    BY <1>s, <1>2, <2>1, <2>2, WrappedType DEF Shape
  <2> QED BY <1>2, <1>4, <2>1, <2>2, <2>3
<1>5. \A u \in U : h[u].m_pJsonData \in Subtree(t, s[i]) => u \in S
  BY <1>3, <1>4, IntoSubtree
<1> QED BY <1>1, <1>5

(* g is h with v, if it is an object, leading to n.                           *)
LEMMA PointFacts ==
  ASSUME HelperAssumption, NEW h \in [Helpers -> Objs], NEW v \in Helpers \cup {NULL},
         NEW n \in Pointers, NEW g, g = Point(h, v, n)
  PROVE  IF v = NULL THEN g = h ELSE Moves(h, g, v, n)
<1>1. v # NULL => g = [h EXCEPT ![v].m_pJsonData = n]
  BY DEF Point
<1> QED BY <1>1, DataChange DEF Point

(* An item without an owner replaces one, or is put at the end.               *)
PutsIn(t, L, h, U, X, w, i, k, v, n, G, u, g) ==
  /\ InStep(t, L, h, U, X) /\ w \in U /\ Place(t, h, w, i, k, v) /\ n \in X
  /\ h[w].m_pJsonData \notin Subtree(t, n)
  /\ v # NULL => Cached(h, v) = {}
  /\ G = Gone(t, h[w].m_pJsonData, i)
  /\ u = Put(t, h[w].m_pJsonData, i, n, k) /\ g = Point(h, v, n)

LEMMA PutStep ==
  ASSUME HelperAssumption, DistinctKeys,
         NEW t, NEW L, NEW h, NEW U, NEW X, NEW w, NEW i, NEW k, NEW v, NEW n,
         NEW G, NEW u, NEW g, PutsIn(t, L, h, U, X, w, i, k, v, n, G, u, g)
  PROVE  InStep(u, L \ G, g, U, X \ {n})
<1>h. /\ InStep(t, L, h, U, X) /\ w \in U /\ Place(t, h, w, i, k, v) /\ n \in X
      /\ h[w].m_pJsonData \notin Subtree(t, n)
      /\ v # NULL => Cached(h, v) = {}
      /\ G = Gone(t, h[w].m_pJsonData, i)
      /\ u = Put(t, h[w].m_pJsonData, i, n, k) /\ g = Point(h, v, n)
  BY DEF PutsIn
<1> USE <1>h
<1>s. Shape(t, L, h, U, X)
  BY StepFacts
<1> DEFINE a == h[w].m_pJsonData
           s == t[a].children
           R == RootsOf(h, U) \cup X
<1>0. /\ t \in [Nodes -> Items] /\ L \subseteq Nodes /\ h \in [Helpers -> Objs]
      /\ U \subseteq Helpers /\ NULL \notin Nodes /\ NULL \notin Helpers
      /\ w \in Helpers /\ Wrapping(h, U) /\ n \in L /\ n \in Pointers
      /\ Children(t) \in [Nodes -> SUBSET Nodes]
  BY <1>s DEF Shape, HelperAssumption, Pointers
<1>v. /\ v \in Helpers \cup {NULL} /\ a \in L /\ a \in Nodes
      /\ v # NULL => v \in Cached(h, w) /\ v \in U \ OwnersOf(h, U)
  BY PlaceFacts
<1>2. IsPut(t, L, R, a, i, n, k, G, u)
  <2>1. k \in Keys \cup {NULL}
    BY DEF Place, KeyPlace
  <2>2. Documents(t, L, R)
    BY DEF InStep
  <2>3. Puts(t, L, R, a, i, n, k, G, u)
    BY <1>0, <1>v, <2>1, <2>2 DEF Puts
  <2> HIDE DEF R, a
  <2> QED BY <2>3, PutFacts
<1>3. /\ g \in [Helpers -> Objs]
      /\ \A x \in Helpers : /\ g[x].obj = h[x].obj /\ g[x].arr = h[x].arr
                            /\ g[x].m_bRoot = h[x].m_bRoot
                            /\ x # v => g[x] = h[x]
      /\ Wrapped(g) = Wrapped(h)
      /\ v # NULL => g[v].m_pJsonData = n
  <2>1. IF v = NULL THEN g = h ELSE Moves(h, g, v, n)
    BY <1>0, <1>v, PointFacts
  <2> QED BY <1>0, <2>1 DEF Moves
<1>4. /\ u \in [Nodes -> Items] /\ Documents(u, L \ G, R \ {n}) /\ n \notin G /\ a \notin G /\ n # a
      /\ Placed(s, u[a].children, i, n)
      /\ \A m \in Nodes \ (G \cup {a, n}) : u[m] = t[m]
      /\ u[a].key = t[a].key /\ u[n].key = k
  BY <1>2 DEF IsPut
<1>5. \A x \in U : h[x].m_pJsonData \in G => x = v
  <2> DEFINE S == {v} \ {NULL}
  <2>1. /\ \A x \in S \cap U : Cached(h, x) \subseteq S
        /\ v # NULL => v \in S
    OBVIOUS
  <2> HIDE DEF S
  <2>2. ASSUME NEW x \in U, h[x].m_pJsonData \in G PROVE x \in S
    BY <2>1, <2>2, IntoGone
  <2> QED BY <2>2 DEF S
<1>6. OwnersOf(g, U) = OwnersOf(h, U) /\ RootsOf(g, U) = RootsOf(h, U)
  <2>1. OwnersOf(g, U) = OwnersOf(h, U)
    BY <1>0, <1>3 DEF OwnersOf
  <2>2. \A x \in OwnersOf(h, U) : g[x] = h[x]
    BY <1>0, <1>3, <1>v DEF OwnersOf
  <2> QED BY <2>1, <2>2 DEF RootsOf
<1>7. \A x \in U : /\ h[x].m_pJsonData \in L \cup {NULL} /\ h[x].m_pJsonData # n
                   /\ Current(t, h, x)
  BY <1>s DEF Shape
<1>8. Wrapping(g, U)
  <2>1. \A x, y \in U : g[x].m_pJsonData = g[y].m_pJsonData => g[x].m_pJsonData = NULL \/ x = y
    <3>1. \A x, y \in U : h[x].m_pJsonData = h[y].m_pJsonData => h[x].m_pJsonData = NULL \/ x = y
      BY <1>s DEF Shape
    <3> QED BY <1>0, <1>3, <1>7, <1>v, <3>1
  <2>2. \A x \in Helpers \ U : g[x] = NewHelper(TRUE, NULL)
    <3>1. \A x \in Helpers \ U : g[x] = h[x]
      BY <1>0, <1>3, <1>v
    <3> QED BY <1>0, <3>1 DEF Wrapping
  <2>3. /\ IsForest(Wrapped(g), U, OwnersOf(g, U))
        /\ \A x \in Helpers :
             /\ \A l, m \in Keys : g[x].obj[l] = g[x].obj[m] => g[x].obj[l] = NULL \/ l = m
             /\ \A l, m \in Indexes : g[x].arr[l] = g[x].arr[m] => g[x].arr[l] = NULL \/ l = m
    BY <1>0, <1>3, <1>6 DEF Wrapping
  <2> QED BY <2>1, <2>2, <2>3 DEF Wrapping
<1>9. \A x \in U : g[x].m_pJsonData \in (L \ G) \cup {NULL}
  BY <1>0, <1>3, <1>4, <1>5, <1>7, <1>v
<1>10. Documents(u, L \ G, RootsOf(g, U) \cup (X \ {n}))
       /\ (X \ {n}) \cap RootsOf(g, U) = {}
  <2>1. X \cap RootsOf(h, U) = {}
    BY DEF InStep
  <2>2. R \ {n} = RootsOf(g, U) \cup (X \ {n})
    BY <1>6, <2>1
  <2> QED BY <1>4, <1>6, <2>1, <2>2
<1>c. /\ IsForest(Children(t), L, R)
      /\ \A m \in L \ G, c \in G : c \in Children(t)[m] => m = a /\ c \in Dropped(t, a, i)
      /\ \A m \in Nodes : n \notin Children(t)[m]
  <2>1. IsForest(Children(t), L, R) /\ \A m \in Nodes : n \notin Children(t)[m]
    BY <1>s DEF Shape
  <2> QED BY <1>0, <1>v, <2>1, GoneFacts
<1>11. ASSUME NEW x \in U, x # w PROVE Current(u, g, x)
  <2>1. CASE x = v
    <3>1. x \in Helpers /\ Cached(h, x) = {}
      BY <1>0, <2>1
    <3>2. (\A l \in Keys : h[x].obj[l] = NULL) /\ \A j \in Indexes : h[x].arr[j] = NULL
      BY <1>0, <3>1, MapFacts
    <3> QED BY <1>3, <3>1, <3>2 DEF Current
  <2>2. CASE x # v
    <3>1. /\ x \in Helpers /\ g[x] = h[x] /\ Current(t, h, x) /\ h[x].m_pJsonData \in Pointers
      BY <1>0, <1>3, <1>7, <2>2 DEF Pointers
    <3>2. \A y \in Cached(h, x) : g[y] = h[y]
      <4>1. \A y \in Cached(h, x) : y \in Helpers /\ y # v
        BY <1>0, <1>11, <1>v, <3>1, WrapperFacts
      <4> QED BY <1>3, <4>1
    <3>3. ASSUME h[x].m_pJsonData # NULL
          PROVE  /\ u[h[x].m_pJsonData] = t[h[x].m_pJsonData]
                 /\ \A c \in Children(t)[h[x].m_pJsonData] : u[c].key = t[c].key
      <4> DEFINE m == h[x].m_pJsonData
      <4>1. m \in L /\ m \notin G /\ m # n
        BY <1>5, <1>7, <2>2, <3>3
      <4>2. m # a
        BY <1>s, <1>11, <3>3 DEF Shape
      <4>3. u[m] = t[m]
        BY <1>0, <1>4, <4>1, <4>2
      <4>4. ASSUME NEW c \in Children(t)[m] PROVE u[c].key = t[c].key
        <5>1. c \in Nodes /\ c \notin G /\ c # n
          BY <1>0, <1>c, <4>1, <4>2
        <5> QED BY <1>4, <5>1
      <4> QED BY <4>3, <4>4
    <3> QED BY <1>0, <3>1, <3>2, <3>3, CurrentKept
  <2> QED BY <2>1, <2>2
<1>12. Current(u, g, w)
  <2>0. /\ v # w /\ g[w] = h[w] /\ Current(t, h, w)
        /\ s \in Seq(Nodes) /\ IsInjective(s) /\ Children(t)[a] = ToSet(s)
    <3>1. v # w
      <4>1. CASE v = NULL
        BY <1>0, <4>1
      <4>2. CASE v # NULL
        BY <1>v, <4>2
      <4> QED BY <4>1, <4>2
    <3>2. IsInjective(s)
      BY <1>s, <1>v DEF Shape
    <3> QED BY <1>0, <1>3, <1>7, <1>v, <3>1, <3>2, ChildrenType
  <2>1. KeysKept(t, u, a, i)
    <3>1. ASSUME NEW j \in DOMAIN s, j # i PROVE s[j] \in Nodes /\ s[j] \notin G /\ s[j] # n
      <4>1. s[j] \in Children(t)[a] /\ s[j] \in Nodes
        BY <1>0, <1>v, <2>0 DEF ToSet
      <4>2. s[j] \notin Dropped(t, a, i)
        BY <2>0, <3>1 DEF Dropped, IsInjective
      <4> QED BY <1>4, <1>c, <1>v, <4>1, <4>2
    <3> QED BY <1>4, <3>1 DEF KeysKept
  <2>2. CASE KeyPlace(t, h, w, i, k, v)
    <3>1. /\ a \in Objects /\ k \in Keys /\ v = h[w].obj[k]
          /\ i = Member(t, a, k) \/ (i = 0 /\ v = NULL)
      BY <2>2 DEF KeyPlace
    <3>2. \A j \in Indexes : h[w].arr[j] = NULL
      BY <3>1, KindOfMaps
    <3>3. ASSUME NEW l \in Keys, h[w].obj[l] # NULL
          PROVE  g[h[w].obj[l]].m_pJsonData = First(u, a, l)
      <4>0. h[h[w].obj[l]].m_pJsonData = First(t, a, l) /\ h[w].obj[l] \in Helpers
        BY <1>0, <2>0, <3>3, MapFacts, WrappedType DEF Current
      <4>1. CASE l = k
        <5>1. v # NULL /\ i = Member(t, a, k) /\ k # NULL
          BY <3>1, <3>3, <4>1 DEF HelperAssumption
        <5>2. First(u, a, k) = n
          BY <1>4, <2>1, <5>1, PutSame
        <5> QED BY <1>3, <3>1, <4>1, <5>1, <5>2
      <4>2. CASE l # k
        <5>1. h[w].obj[l] # v
          BY <1>0, <3>1, <3>3, <4>2 DEF Wrapping
        <5>2. ~ Has(u, n, l)
          BY <1>4, <3>1, <4>2 DEF Has, DistinctKeys
        <5>3. i \in DOMAIN s => ~ Has(t, s[i], l)
          <6>1. ASSUME i \in DOMAIN s PROVE ~ Has(t, s[i], l)
            <7>1. i # 0
              BY <2>0, <6>1
            <7>2. Has(t, s[i], k)
              BY <2>0, <3>1, <7>1, MemberFacts
            <7> QED BY <3>1, <4>2, <7>2 DEF Has, DistinctKeys
          <6> QED BY <6>1
        <5>4. First(u, a, l) = First(t, a, l)
          BY <1>0, <1>4, <2>1, <5>2, <5>3, PutOther
        <5> QED BY <1>3, <4>0, <5>1, <5>4
      <4> QED BY <4>1, <4>2
    <3> QED BY <2>0, <3>1, <3>2, <3>3 DEF Current
  <2>3. CASE IndexPlace(t, h, w, i, v)
    <3>1. \A l \in Keys : h[w].obj[l] = NULL
      BY <2>3, KindOfMaps DEF IndexPlace
    <3>2. ASSUME NEW j \in Indexes, h[w].arr[j] # NULL
          PROVE  /\ j + 1 \in DOMAIN u[a].children
                 /\ g[h[w].arr[j]].m_pJsonData = u[a].children[j + 1]
      <4>0. /\ j + 1 \in DOMAIN s /\ h[h[w].arr[j]].m_pJsonData = s[j + 1]
            /\ h[w].arr[j] \in Helpers
        <5>1. j + 1 \in DOMAIN s /\ h[h[w].arr[j]].m_pJsonData = s[j + 1]
          BY <2>0, <3>2 DEF Current
        <5>2. h[w] \in Objs
          BY <1>0
        <5>3. h[w].arr[j] \in Helpers \cup {NULL}
          BY <5>2 DEF Objs
        <5> QED BY <3>2, <5>1, <5>3
      <4>1. j + 1 \in DOMAIN u[a].children
        <5>1. /\ s \in Seq(Nodes) /\ u[a].children \in Seq(Nodes)
              /\ Len(u[a].children) = Len(s) \/ Len(u[a].children) = Len(s) + 1
          BY <1>4 DEF Placed
        <5> QED BY <4>0, <5>1
      <4>2. CASE j + 1 = i
        <5>1. i # 0 /\ u[a].children[i] = n
          <6>1. i \in DOMAIN s /\ i # 0
            BY <2>0, <4>0, <4>2
          <6>2. Placed(s, u[a].children, i, n)
            BY <1>4
          <6> QED BY <6>1, <6>2 DEF Placed
        <5>2. PICK x \in Indexes : i = x + 1 /\ v = h[w].arr[x]
          BY <2>3, <5>1 DEF IndexPlace
        <5>3. x = j
          BY <4>2, <5>2 DEF HelperAssumption
        <5> QED BY <1>3, <3>2, <4>1, <4>2, <5>1, <5>2, <5>3
      <4>3. CASE j + 1 # i
        <5>1. u[a].children[j + 1] = s[j + 1]
          BY <1>4, <4>0, <4>3 DEF Placed
        <5>2. h[w].arr[j] # v
          <6>1. CASE v = NULL
            BY <3>2, <6>1
          <6>2. CASE v # NULL
            <7>1. PICK x \in Indexes : i = x + 1 /\ v = h[w].arr[x]
              BY <2>3, <6>2 DEF IndexPlace
            <7> QED BY <1>0, <3>2, <4>3, <7>1 DEF Wrapping
          <6> QED BY <6>1, <6>2
        <5> QED BY <1>3, <4>0, <4>1, <5>1, <5>2
      <4> QED BY <4>2, <4>3
    <3>3. a \in Nodes \ (Objects \cup Values)
      BY <2>3 DEF IndexPlace
    <3> QED BY <2>0, <3>1, <3>2, <3>3 DEF Current
  <2> QED BY <2>2, <2>3 DEF Place
<1>13. Typed(u, L \ G, g, U)
  BY <1>0, <1>3, <1>4 DEF Typed
<1> QED BY <1>8, <1>9, <1>10, <1>11, <1>12, <1>13 DEF InStep

(* operator[]: w caches the new wrapper v of its item c, or of no item.        *)
WrapsKey(t, h, g, w, v, c, k) ==
  /\ h[w].m_pJsonData \in Objects /\ h[w].obj[k] = NULL /\ c = First(t, h[w].m_pJsonData, k)
  /\ g = [h EXCEPT ![w].obj[k] = v, ![v] = NewHelper(FALSE, c)]
WrapsIndex(t, h, g, w, v, c, i) ==
  /\ h[w].m_pJsonData \in Nodes \ (Objects \cup Values) /\ h[w].arr[i] = NULL
  /\ i + 1 \in DOMAIN t[h[w].m_pJsonData].children
  /\ c = t[h[w].m_pJsonData].children[i + 1]
  /\ g = [h EXCEPT ![w].arr[i] = v, ![v] = NewHelper(FALSE, c)]
Wraps(t, h, g, w, v, c) ==
  \/ \E k \in Keys : WrapsKey(t, h, g, w, v, c, k)
  \/ \E i \in Indexes : WrapsIndex(t, h, g, w, v, c, i)

IsWrapped(t, h, g, w, v, c) ==
  LET a == h[w].m_pJsonData IN
  /\ g \in [Helpers -> Objs] /\ g[v] = NewHelper(FALSE, c) /\ g[w].m_pJsonData = a
  /\ g[w].m_bRoot = h[w].m_bRoot /\ \A x \in Helpers \ {w, v} : g[x] = h[x]
  /\ \A k \in Keys : \/ g[w].obj[k] = h[w].obj[k]
                     \/ a \in Objects /\ g[w].obj[k] = v /\ c = First(t, a, k)
  /\ \A i \in Indexes : \/ g[w].arr[i] = h[w].arr[i]
                        \/ /\ a \in Nodes \ (Objects \cup Values) /\ g[w].arr[i] = v
                           /\ i + 1 \in DOMAIN t[a].children /\ c = t[a].children[i + 1]
  /\ \A k, l \in Keys : g[w].obj[k] = v /\ g[w].obj[l] = v => k = l
  /\ \A i, j \in Indexes : g[w].arr[i] = v /\ g[w].arr[j] = v => i = j
  /\ Cached(g, w) = Cached(h, w) \cup {v}

LEMMA WrapFacts ==
  ASSUME HelperAssumption, NEW t, NEW h \in [Helpers -> Objs], NEW g, NEW w \in Helpers,
         NEW v \in Helpers \ {w}, v \notin Cached(h, w), NEW c \in Pointers,
         Wraps(t, h, g, w, v, c)
  PROVE  IsWrapped(t, h, g, w, v, c)
<1>0. /\ h[w] \in Objs /\ h[w].obj \in [Keys -> Helpers \cup {NULL}]
      /\ h[w].arr \in [Indexes -> Helpers \cup {NULL}] /\ NULL \notin Helpers
      /\ \A k \in Keys : h[w].obj[k] # v
      /\ \A i \in Indexes : h[w].arr[i] # v
  <2>1. h[w] \in Objs /\ NULL \notin Helpers
    BY DEF HelperAssumption
  <2>2. /\ \A k \in Keys : h[w].obj[k] # v
        /\ \A i \in Indexes : h[w].arr[i] # v
    BY <2>1, MapFacts
  <2> QED BY <2>1, <2>2 DEF Objs
<1>1. NewHelper(FALSE, c) \in Objs
  BY DEF NewHelper, Objs
<1>2. ASSUME NEW k \in Keys, WrapsKey(t, h, g, w, v, c, k) PROVE IsWrapped(t, h, g, w, v, c)
  <2>1. /\ g[w] = [h[w] EXCEPT !.obj = [h[w].obj EXCEPT ![k] = v]] /\ g[v] = NewHelper(FALSE, c)
        /\ \A x \in Helpers \ {w, v} : g[x] = h[x]
        /\ g = [x \in Helpers |-> g[x]]
    BY <1>2 DEF WrapsKey
  <2>2. [h[w].obj EXCEPT ![k] = v] \in [Keys -> Helpers \cup {NULL}]
    BY <1>0
  <2>3. /\ g[w] \in Objs /\ g[w].obj = [h[w].obj EXCEPT ![k] = v] /\ g[w].arr = h[w].arr
        /\ g[w].m_bRoot = h[w].m_bRoot /\ g[w].m_pJsonData = h[w].m_pJsonData
    BY <1>0, <2>1, <2>2 DEF Objs
  <2>4. g[w].obj[k] = v /\ \A l \in Keys : l # k => g[w].obj[l] = h[w].obj[l]
    BY <1>0, <2>3
  <2>5. g \in [Helpers -> Objs]
    <3>1. \A x \in Helpers : g[x] \in Objs
      BY <1>1, <2>1, <2>3
    <3> QED BY <2>1, <3>1
  <2>6. Cached(g, w) = Cached(h, w) \cup {v}
    <3>1. h[w].obj[k] = NULL
      BY <1>2 DEF WrapsKey
    <3>2. \A x : x \in Cached(g, w) <=>
            x \in Helpers /\ ((\E l \in Keys : x = g[w].obj[l])
                              \/ \E j \in Indexes : x = g[w].arr[j])
      <4>1. InMaps(g, w)
        BY <2>5, CachedIs
      <4> QED BY <4>1 DEF InMaps
    <3>3. \A x : x \in Cached(h, w) <=>
            x \in Helpers /\ ((\E l \in Keys : x = h[w].obj[l])
                              \/ \E j \in Indexes : x = h[w].arr[j])
      <4>1. InMaps(h, w)
        BY CachedIs
      <4> QED BY <4>1 DEF InMaps
    <3>4. ASSUME NEW x \in Cached(g, w) PROVE x \in Cached(h, w) \cup {v}
      BY <2>3, <2>4, <3>2, <3>3, <3>4
    <3>5. ASSUME NEW x \in Cached(h, w) PROVE x \in Cached(g, w)
      BY <1>0, <2>3, <2>4, <3>1, <3>2, <3>3, <3>5
    <3>6. v \in Cached(g, w)
      BY <2>4, <3>2
    <3> QED BY <3>4, <3>5, <3>6
  <2>7. h[w].m_pJsonData \in Objects /\ c = First(t, h[w].m_pJsonData, k)
    BY <1>2 DEF WrapsKey
  <2> QED BY <1>0, <2>1, <2>3, <2>4, <2>5, <2>6, <2>7 DEF IsWrapped
<1>3. ASSUME NEW i \in Indexes, WrapsIndex(t, h, g, w, v, c, i) PROVE IsWrapped(t, h, g, w, v, c)
  <2>1. /\ g[w] = [h[w] EXCEPT !.arr = [h[w].arr EXCEPT ![i] = v]] /\ g[v] = NewHelper(FALSE, c)
        /\ \A x \in Helpers \ {w, v} : g[x] = h[x]
        /\ g = [x \in Helpers |-> g[x]]
    BY <1>3 DEF WrapsIndex
  <2>2. [h[w].arr EXCEPT ![i] = v] \in [Indexes -> Helpers \cup {NULL}]
    BY <1>0
  <2>3. /\ g[w] \in Objs /\ g[w].arr = [h[w].arr EXCEPT ![i] = v] /\ g[w].obj = h[w].obj
        /\ g[w].m_bRoot = h[w].m_bRoot /\ g[w].m_pJsonData = h[w].m_pJsonData
    BY <1>0, <2>1, <2>2 DEF Objs
  <2>4. g[w].arr[i] = v /\ \A j \in Indexes : j # i => g[w].arr[j] = h[w].arr[j]
    BY <1>0, <2>3
  <2>5. g \in [Helpers -> Objs]
    <3>1. \A x \in Helpers : g[x] \in Objs
      BY <1>1, <2>1, <2>3
    <3> QED BY <2>1, <3>1
  <2>6. Cached(g, w) = Cached(h, w) \cup {v}
    <3>1. h[w].arr[i] = NULL
      BY <1>3 DEF WrapsIndex
    <3>2. \A x : x \in Cached(g, w) <=>
            x \in Helpers /\ ((\E l \in Keys : x = g[w].obj[l])
                              \/ \E j \in Indexes : x = g[w].arr[j])
      <4>1. InMaps(g, w)
        BY <2>5, CachedIs
      <4> QED BY <4>1 DEF InMaps
    <3>3. \A x : x \in Cached(h, w) <=>
            x \in Helpers /\ ((\E l \in Keys : x = h[w].obj[l])
                              \/ \E j \in Indexes : x = h[w].arr[j])
      <4>1. InMaps(h, w)
        BY CachedIs
      <4> QED BY <4>1 DEF InMaps
    <3>4. ASSUME NEW x \in Cached(g, w) PROVE x \in Cached(h, w) \cup {v}
      BY <2>3, <2>4, <3>2, <3>3, <3>4
    <3>5. ASSUME NEW x \in Cached(h, w) PROVE x \in Cached(g, w)
      BY <1>0, <2>3, <2>4, <3>1, <3>2, <3>3, <3>5
    <3>6. v \in Cached(g, w)
      BY <2>4, <3>2
    <3> QED BY <3>4, <3>5, <3>6
  <2>7. /\ h[w].m_pJsonData \in Nodes \ (Objects \cup Values)
        /\ i + 1 \in DOMAIN t[h[w].m_pJsonData].children
        /\ c = t[h[w].m_pJsonData].children[i + 1]
    BY <1>3 DEF WrapsIndex
  <2> QED BY <1>0, <2>1, <2>3, <2>4, <2>5, <2>6, <2>7 DEF IsWrapped
<1> QED BY <1>2, <1>3 DEF Wraps

(* What is wrapped has no wrapper yet.                                        *)
LEMMA NotYetWrapped ==
  ASSUME HelperAssumption, DistinctKeys,
         NEW t, NEW L, NEW h, NEW U, NEW X, InStep(t, L, h, U, X),
         NEW w \in U, NEW g, NEW v, NEW c, Wraps(t, h, g, w, v, c)
  PROVE  /\ h[w].m_pJsonData \in L /\ c \in L \cup {NULL}
         /\ \A u \in U : h[u].m_pJsonData = c => c = NULL
<1>s. Shape(t, L, h, U, X)
  BY StepFacts
<1> DEFINE a == h[w].m_pJsonData
           s == t[a].children
<1>0. \E i, k : Place(t, h, w, i, k, NULL) /\ c = ItemAt(t, a, i)
  <2>1. ASSUME NEW k \in Keys, WrapsKey(t, h, g, w, v, c, k)
        PROVE  Place(t, h, w, Member(t, a, k), k, NULL) /\ c = ItemAt(t, a, Member(t, a, k))
    BY <2>1 DEF WrapsKey, Place, KeyPlace, First
  <2>2. ASSUME NEW i \in Indexes, WrapsIndex(t, h, g, w, v, c, i)
        PROVE  Place(t, h, w, i + 1, NULL, NULL) /\ c = ItemAt(t, a, i + 1)
    BY <2>2 DEF WrapsIndex, Place, IndexPlace, ItemAt
  <2> QED BY <2>1, <2>2 DEF Wraps
<1>1. PICK i, k : Place(t, h, w, i, k, NULL) /\ c = ItemAt(t, a, i)
  BY <1>0
<1>2. /\ a \in L /\ a \in Nodes /\ w \in Helpers
      /\ i \in DOMAIN s => \A y \in Cached(h, w) : h[y].m_pJsonData = s[i] => y = NULL
  BY <1>1, PlaceFacts
<1>3. CASE i \notin DOMAIN s
  BY <1>1, <1>2, <1>3 DEF ItemAt
<1>4. CASE i \in DOMAIN s
  <2>1. c = s[i] /\ s[i] \in Children(t)[a] /\ s[i] \in L /\ c # NULL
    <3>1. Children(t)[a] = ToSet(s) /\ Children(t)[a] \subseteq L /\ NULL \notin L
      BY <1>s, <1>2, ChildrenType DEF Shape, IsForest
    <3> QED BY <1>1, <1>4, <3>1 DEF ItemAt, ToSet
  <2>2. ASSUME NEW u \in U, h[u].m_pJsonData = c PROVE FALSE
    <3>1. PICK x \in U : u \in Cached(h, x) /\ h[x].m_pJsonData = a
      BY <1>2, <2>1, <2>2, ParentData
    <3>2. x = w
      <4>1. NULL \notin L /\ (h[x].m_pJsonData = h[w].m_pJsonData =>
                                h[x].m_pJsonData = NULL \/ x = w)
        BY <1>s DEF Shape
      <4> QED BY <1>2, <3>1, <4>1
    <3>3. u = NULL /\ NULL \notin Cached(h, w)
      BY <1>s, <1>2, <1>4, <2>1, <2>2, <3>1, <3>2, WrappedType DEF Shape
    <3> QED BY <3>1, <3>2, <3>3
  <2> QED BY <1>2, <2>1, <2>2
<1> QED BY <1>3, <1>4

LEMMA WrapStep ==
  ASSUME HelperAssumption, DistinctKeys,
         NEW t, NEW L, NEW h, NEW U, NEW X, InStep(t, L, h, U, X),
         NEW w \in U, NEW v \in Helpers \ U, NEW c, NEW g, Wraps(t, h, g, w, v, c)
  PROVE  InStep(t, L, g, U \cup {v}, X)
<1>s. Shape(t, L, h, U, X)
  BY StepFacts
<1> DEFINE a == h[w].m_pJsonData
           V == U \cup {v}
<1>0. /\ t \in [Nodes -> Items] /\ L \subseteq Nodes /\ h \in [Helpers -> Objs]
      /\ U \subseteq Helpers /\ NULL \notin Nodes /\ NULL \notin Helpers
      /\ w \in Helpers /\ v # w /\ Wrapping(h, U) /\ a \in L /\ c \in L \cup {NULL}
      /\ \A u \in U : h[u].m_pJsonData = c => c = NULL
      /\ \A x \in Helpers : Cached(h, x) \subseteq U
  BY <1>s, NotYetWrapped, WrapperFacts DEF Shape, HelperAssumption
<1>1. IsWrapped(t, h, g, w, v, c)
  BY <1>0, WrapFacts DEF Pointers
<1>2. /\ g \in [Helpers -> Objs] /\ g[w].m_pJsonData = a
      /\ g[v] = NewHelper(FALSE, c) /\ g[v].m_pJsonData = c /\ g[v].m_bRoot = FALSE
      /\ \A k \in Keys : g[v].obj[k] = NULL
      /\ \A i \in Indexes : g[v].arr[i] = NULL
      /\ g[w].m_bRoot = h[w].m_bRoot /\ \A x \in Helpers \ {w, v} : g[x] = h[x]
      /\ \A x \in U : g[x].m_pJsonData = h[x].m_pJsonData /\ g[x].m_bRoot = h[x].m_bRoot
      /\ Cached(g, w) = Cached(h, w) \cup {v}
  BY <1>0, <1>1 DEF IsWrapped, NewHelper
<1>3. OwnersOf(g, V) = OwnersOf(h, U) /\ RootsOf(g, V) = RootsOf(h, U)
  <2>1. OwnersOf(g, V) = OwnersOf(h, U)
    BY <1>0, <1>2 DEF OwnersOf
  <2>2. \A x \in OwnersOf(h, U) : g[x].m_pJsonData = h[x].m_pJsonData
    BY <1>2 DEF OwnersOf
  <2> QED BY <2>1, <2>2 DEF RootsOf
<1>4. IsForest(Wrapped(g), V, OwnersOf(g, V))
  <2>1. Wrapped(g) \in [Helpers -> SUBSET Helpers] /\ Wrapped(h) \in [Helpers -> SUBSET Helpers]
        /\ IsForest(Wrapped(h), U, OwnersOf(h, U))
    BY <1>0, <1>2, WrappedType DEF Wrapping
  <2>2. \A x \in Helpers : Wrapped(g)[x] = Cached(g, x) /\ Wrapped(h)[x] = Cached(h, x)
    BY <1>0, <1>2, WrappedType
  <2>3. Cached(g, v) = {} /\ Cached(h, v) = {}
    <3>1. Cached(h, v) = {}
      BY <1>0, WrapperFacts
    <3>2. \A x : x \in Cached(g, v) <=>
            x \in Helpers /\ ((\E l \in Keys : x = g[v].obj[l])
                              \/ \E j \in Indexes : x = g[v].arr[j])
      <4>1. InMaps(g, v)
        BY <1>2, CachedIs
      <4> QED BY <4>1 DEF InMaps
    <3>3. ASSUME NEW x \in Cached(g, v) PROVE FALSE
      <4>1. x \in Helpers /\ x # NULL
        BY <1>0, <3>2, <3>3
      <4> QED BY <1>2, <3>2, <3>3, <4>1
    <3> QED BY <3>1, <3>3
  <2>4. \A x \in Helpers \ {w, v} : Cached(g, x) = Cached(h, x)
    BY <1>2 DEF Cached
  <2>5. Bears(Helpers, Wrapped(h), U, w, v, Wrapped(g))
    <3>1. \A q \in Helpers \ {w} : Wrapped(g)[q] = Wrapped(h)[q]
      BY <2>2, <2>3, <2>4
    <3>2. Wrapped(g)[w] = Wrapped(h)[w] \cup {v}
      BY <1>0, <1>2, <2>2
    <3> QED BY <1>0, <3>1, <3>2 DEF Bears
  <2>6. IsForest(Wrapped(g), U \cup {v}, OwnersOf(h, U))
    BY <2>1, <2>5, GrowBelow
  <2> QED BY <1>3, <2>6
<1>5. Wrapping(g, V)
  <2>1. \A x, y \in V : g[x].m_pJsonData = g[y].m_pJsonData => g[x].m_pJsonData = NULL \/ x = y
    <3>1. \A x, y \in U : h[x].m_pJsonData = h[y].m_pJsonData => h[x].m_pJsonData = NULL \/ x = y
      BY <1>s DEF Shape
    <3>2. ASSUME NEW x \in V, NEW y \in V, g[x].m_pJsonData = g[y].m_pJsonData
          PROVE  g[x].m_pJsonData = NULL \/ x = y
      <4>1. CASE x = v /\ y = v
        BY <4>1
      <4>2. CASE x = v /\ y \in U
        BY <1>0, <1>2, <3>2, <4>2
      <4>3. CASE x \in U /\ y = v
        BY <1>0, <1>2, <3>2, <4>3
      <4>4. CASE x \in U /\ y \in U
        BY <1>2, <3>1, <3>2, <4>4
      <4> QED BY <4>1, <4>2, <4>3, <4>4
    <3> QED BY <3>2
  <2>2. \A x \in Helpers \ V : g[x] = NewHelper(TRUE, NULL)
    <3>1. \A x \in Helpers \ V : g[x] = h[x]
      BY <1>2
    <3> QED BY <1>0, <3>1 DEF Wrapping
  <2>3. ASSUME NEW x \in Helpers
        PROVE  /\ \A l, m \in Keys : g[x].obj[l] = g[x].obj[m] => g[x].obj[l] = NULL \/ l = m
               /\ \A l, m \in Indexes : g[x].arr[l] = g[x].arr[m] => g[x].arr[l] = NULL \/ l = m
    <3>1. /\ \A l, m \in Keys : h[x].obj[l] = h[x].obj[m] => h[x].obj[l] = NULL \/ l = m
          /\ \A l, m \in Indexes : h[x].arr[l] = h[x].arr[m] => h[x].arr[l] = NULL \/ l = m
      BY <1>0 DEF Wrapping
    <3>2. CASE x = v
      BY <1>2, <3>2
    <3>3. CASE x = w
      BY <1>1, <3>1, <3>3 DEF IsWrapped
    <3> QED BY <1>2, <3>1, <3>2, <3>3
  <2> QED BY <1>4, <2>1, <2>2, <2>3 DEF Wrapping
<1>6. ASSUME NEW x \in V PROVE Current(t, g, x)
  <2>1. CASE x = v
    BY <1>2, <2>1 DEF Current
  <2>2. CASE x = w
    <3>1. Current(t, h, w)
      BY <1>s DEF Shape
    <3>2. ASSUME NEW k \in Keys, g[w].obj[k] # NULL
          PROVE  a \in Objects /\ g[g[w].obj[k]].m_pJsonData = First(t, a, k)
      <4>1. CASE g[w].obj[k] = h[w].obj[k]
        <5>1. h[w].obj[k] \in U
          BY <1>0, <3>2, <4>1, MapFacts
        <5> QED BY <1>2, <3>1, <3>2, <4>1, <5>1 DEF Current
      <4>2. CASE a \in Objects /\ g[w].obj[k] = v /\ c = First(t, a, k)
        BY <1>2, <4>2
      <4> QED BY <1>1, <4>1, <4>2 DEF IsWrapped
    <3>3. ASSUME NEW i \in Indexes, g[w].arr[i] # NULL
          PROVE  /\ a \in Nodes \ (Objects \cup Values) /\ i + 1 \in DOMAIN t[a].children
                 /\ g[g[w].arr[i]].m_pJsonData = t[a].children[i + 1]
      <4>1. CASE g[w].arr[i] = h[w].arr[i]
        <5>1. h[w].arr[i] \in U
          BY <1>0, <3>3, <4>1, MapFacts
        <5> QED BY <1>2, <3>1, <3>3, <4>1, <5>1 DEF Current
      <4>2. CASE /\ a \in Nodes \ (Objects \cup Values) /\ g[w].arr[i] = v
                 /\ i + 1 \in DOMAIN t[a].children /\ c = t[a].children[i + 1]
        BY <1>2, <4>2
      <4> QED BY <1>1, <4>1, <4>2 DEF IsWrapped
    <3> QED BY <1>2, <2>2, <3>2, <3>3 DEF Current
  <2>3. CASE x # v /\ x # w
    <3>1. /\ x \in Helpers /\ g[x] = h[x] /\ Current(t, h, x) /\ h[x].m_pJsonData \in Pointers
      BY <1>s, <1>0, <1>2, <2>3 DEF Shape, Pointers
    <3>2. \A y \in Cached(h, x) : g[y].m_pJsonData = h[y].m_pJsonData
      BY <1>0, <1>2, <3>1
    <3> QED BY <1>0, <3>1, <3>2, CurrentKept
  <2> QED BY <2>1, <2>2, <2>3
<1>7. \A x \in V : g[x].m_pJsonData \in L \cup {NULL}
  BY <1>s, <1>0, <1>2 DEF Shape
<1>8. Typed(t, L, g, V) /\ X \cap RootsOf(g, V) = {} /\ Documents(t, L, RootsOf(g, V) \cup X)
  BY <1>0, <1>2, <1>3 DEF Typed, InStep
<1> QED BY <1>5, <1>6, <1>7, <1>8 DEF InStep

(* f is h without what it says of the objects in S.                           *)
Forgot(h, f, S) ==
  /\ f \in [Helpers -> Objs]
  /\ \A x \in Helpers \cap S : f[x] = NewHelper(TRUE, NULL) /\ Cached(f, x) = {}
  /\ \A x \in Helpers \ S : f[x] = h[x] /\ Cached(f, x) = Cached(h, x)

LEMMA ForgetFacts ==
  ASSUME HelperAssumption, NEW h \in [Helpers -> Objs], NEW S, NEW f, f = Forget(h, S)
  PROVE  Forgot(h, f, S)
<1>1. NewHelper(TRUE, NULL) \in Objs
  BY DEF NewHelper, Objs, Pointers
<1>2. \A x \in Helpers : f[x] = IF x \in S THEN NewHelper(TRUE, NULL) ELSE h[x]
  BY DEF Forget
<1>3. f \in [Helpers -> Objs]
  <2>1. \A x \in Helpers : f[x] \in Objs
    BY <1>1, <1>2
  <2>2. f = [x \in Helpers |-> f[x]]
    BY DEF Forget
  <2> QED BY <2>1, <2>2
<1>4. ASSUME NEW x \in Helpers \cap S PROVE Cached(f, x) = {}
  <2>1. /\ \A k \in Keys : f[x].obj[k] = NULL
        /\ \A i \in Indexes : f[x].arr[i] = NULL
    BY <1>2 DEF NewHelper
  <2>2. \A y : y \in Cached(f, x) <=>
          y \in Helpers /\ ((\E l \in Keys : y = f[x].obj[l]) \/ \E j \in Indexes : y = f[x].arr[j])
    BY <1>3, WrappedType
  <2>3. ASSUME NEW y \in Cached(f, x) PROVE FALSE
    <3>1. y \in Helpers /\ y # NULL
      BY <2>2, <2>3 DEF HelperAssumption
    <3> QED BY <2>1, <2>2, <2>3, <3>1
  <2> QED BY <2>3
<1>5. \A x \in Helpers \ S : Cached(f, x) = Cached(h, x)
  BY <1>2 DEF Cached
<1> QED BY <1>2, <1>3, <1>4, <1>5 DEF Forgot

(* del: w forgets the wrapper v of the item in the place i.                   *)
UnwrapsKey(t, h, f, g, w, i, k, v) ==
  /\ h[w].m_pJsonData \in Objects /\ k \in Keys /\ i = Member(t, h[w].m_pJsonData, k)
  /\ v = h[w].obj[k] /\ g = [f EXCEPT ![w].obj[k] = NULL]
UnwrapsIndex(t, h, f, g, w, i, k, v) ==
  /\ h[w].m_pJsonData \in Nodes \ (Objects \cup Values)
  /\ k = NULL /\ i \in DOMAIN t[h[w].m_pJsonData].children
  /\ \E x \in Indexes :
       /\ i = x + 1 /\ v = h[w].arr[x] /\ g = [f EXCEPT ![w].arr[x] = NULL]
       /\ \A y \in Indexes : y > x => h[w].arr[y] = NULL
Unwraps(t, h, f, g, w, i, k, v) ==
  UnwrapsKey(t, h, f, g, w, i, k, v) \/ UnwrapsIndex(t, h, f, g, w, i, k, v)

IsUnwrapped(h, f, g, w, i, k, v) ==
  /\ g \in [Helpers -> Objs] /\ \A x \in Helpers \ {w} : g[x] = f[x] /\ Cached(g, x) = Cached(f, x)
  /\ g[w].m_pJsonData = h[w].m_pJsonData /\ g[w].m_bRoot = h[w].m_bRoot
  /\ \A l \in Keys : g[w].obj[l] # NULL =>
       g[w].obj[l] = h[w].obj[l] /\ l # k /\ g[w].obj[l] # v
  /\ \A j \in Indexes : g[w].arr[j] # NULL =>
       g[w].arr[j] = h[w].arr[j] /\ j + 1 < i /\ g[w].arr[j] # v
  /\ Cached(g, w) = Cached(h, w) \ {v}

LEMMA UnwrapFacts ==
  ASSUME HelperAssumption, NEW t, NEW L, NEW h, NEW U, NEW X, InStep(t, L, h, U, X),
         NEW w \in U, NEW f \in [Helpers -> Objs], f[w] = h[w],
         NEW g, NEW i, NEW k, NEW v, Unwraps(t, h, f, g, w, i, k, v)
  PROVE  IsUnwrapped(h, f, g, w, i, k, v)
<1>s. Shape(t, L, h, U, X)
  BY StepFacts
<1>0. /\ h \in [Helpers -> Objs] /\ w \in Helpers /\ NULL \notin Helpers /\ Wrapping(h, U)
      /\ f \in [Helpers -> Objs] /\ f[w] = h[w] /\ h[w] \in Objs
      /\ h[w].obj \in [Keys -> Helpers \cup {NULL}] /\ h[w].arr \in [Indexes -> Helpers \cup {NULL}]
  <2>1. h \in [Helpers -> Objs] /\ w \in Helpers /\ NULL \notin Helpers /\ Wrapping(h, U)
    BY <1>s DEF Shape, HelperAssumption
  <2>2. h[w] \in Objs
    BY <2>1
  <2> QED BY <2>1, <2>2 DEF Objs
<1>h. \A x : x \in Cached(h, w) <=>
        x \in Helpers /\ ((\E l \in Keys : x = h[w].obj[l]) \/ \E j \in Indexes : x = h[w].arr[j])
  BY <1>0, WrappedType
<1>d. \A l, m \in Keys : h[w].obj[l] = h[w].obj[m] => h[w].obj[l] = NULL \/ l = m
  BY <1>0 DEF Wrapping
<1>e. \A l, m \in Indexes : h[w].arr[l] = h[w].arr[m] => h[w].arr[l] = NULL \/ l = m
  BY <1>0 DEF Wrapping
<1>1. CASE UnwrapsKey(t, h, f, g, w, i, k, v)
  <2>0. /\ h[w].m_pJsonData \in Objects /\ k \in Keys /\ v = h[w].obj[k]
        /\ \A j \in Indexes : h[w].arr[j] = NULL
    BY <1>1, KindOfMaps DEF UnwrapsKey
  <2>1. /\ g[w] = [h[w] EXCEPT !.obj = [h[w].obj EXCEPT ![k] = NULL]]
        /\ \A x \in Helpers \ {w} : g[x] = f[x]
        /\ g = [x \in Helpers |-> g[x]]
    BY <1>0, <1>1 DEF UnwrapsKey
  <2>2. [h[w].obj EXCEPT ![k] = NULL] \in [Keys -> Helpers \cup {NULL}]
    BY <1>0
  <2>3. /\ g[w] \in Objs /\ g[w].obj = [h[w].obj EXCEPT ![k] = NULL] /\ g[w].arr = h[w].arr
        /\ g[w].m_bRoot = h[w].m_bRoot /\ g[w].m_pJsonData = h[w].m_pJsonData
    BY <1>0, <2>1, <2>2 DEF Objs
  <2>4. g[w].obj[k] = NULL /\ \A l \in Keys : l # k => g[w].obj[l] = h[w].obj[l]
    BY <1>0, <2>0, <2>3
  <2>5. g \in [Helpers -> Objs]
    <3>1. \A x \in Helpers : g[x] \in Objs
      BY <1>0, <2>1, <2>3
    <3> QED BY <2>1, <3>1
  <2>6. \A l \in Keys : g[w].obj[l] # NULL =>
          g[w].obj[l] = h[w].obj[l] /\ l # k /\ g[w].obj[l] # v
    BY <1>d, <2>0, <2>4
  <2>7. Cached(g, w) = Cached(h, w) \ {v}
    <3>1. \A x : x \in Cached(g, w) <=>
            x \in Helpers /\ ((\E l \in Keys : x = g[w].obj[l])
                              \/ \E j \in Indexes : x = g[w].arr[j])
      <4>1. InMaps(g, w)
        BY <1>0, <2>5, CachedIs
      <4> QED BY <4>1 DEF InMaps
    <3>2. ASSUME NEW x \in Cached(g, w) PROVE x \in Cached(h, w) \ {v}
      <4>1. PICK l \in Keys : x = g[w].obj[l]
        BY <1>0, <2>0, <2>3, <3>1, <3>2
      <4>2. x \in Helpers /\ x # NULL
        BY <1>0, <3>1, <3>2
      <4> QED BY <1>h, <2>6, <4>1, <4>2
    <3>3. ASSUME NEW x \in Cached(h, w) \ {v} PROVE x \in Cached(g, w)
      <4>1. x \in Helpers /\ x # NULL /\ x # v
        BY <1>0, <1>h, <3>3
      <4>2. PICK l \in Keys : x = h[w].obj[l]
        BY <1>h, <2>0, <3>3, <4>1
      <4> QED BY <2>0, <2>4, <3>1, <4>1, <4>2
    <3> QED BY <3>2, <3>3
  <2>8. \A x \in Helpers \ {w} : Cached(g, x) = Cached(f, x)
    BY <2>1 DEF Cached
  <2> QED BY <2>0, <2>1, <2>3, <2>5, <2>6, <2>7, <2>8 DEF IsUnwrapped
<1>2. CASE UnwrapsIndex(t, h, f, g, w, i, k, v)
  <2>0. PICK z \in Indexes :
          /\ i = z + 1 /\ v = h[w].arr[z] /\ g = [f EXCEPT ![w].arr[z] = NULL]
          /\ \A y \in Indexes : y > z => h[w].arr[y] = NULL
    BY <1>2 DEF UnwrapsIndex
  <2>a. (\A l \in Keys : h[w].obj[l] = NULL) /\ Indexes \subseteq Int
    BY <1>2, KindOfMaps DEF UnwrapsIndex, HelperAssumption
  <2>1. /\ g[w] = [h[w] EXCEPT !.arr = [h[w].arr EXCEPT ![z] = NULL]]
        /\ \A x \in Helpers \ {w} : g[x] = f[x]
        /\ g = [x \in Helpers |-> g[x]]
    BY <1>0, <2>0
  <2>2. [h[w].arr EXCEPT ![z] = NULL] \in [Indexes -> Helpers \cup {NULL}]
    BY <1>0
  <2>3. /\ g[w] \in Objs /\ g[w].arr = [h[w].arr EXCEPT ![z] = NULL] /\ g[w].obj = h[w].obj
        /\ g[w].m_bRoot = h[w].m_bRoot /\ g[w].m_pJsonData = h[w].m_pJsonData
    BY <1>0, <2>1, <2>2 DEF Objs
  <2>4. g[w].arr[z] = NULL /\ \A l \in Indexes : l # z => g[w].arr[l] = h[w].arr[l]
    BY <1>0, <2>3
  <2>5. g \in [Helpers -> Objs]
    <3>1. \A x \in Helpers : g[x] \in Objs
      BY <1>0, <2>1, <2>3
    <3> QED BY <2>1, <3>1
  <2>6. ASSUME NEW j \in Indexes, g[w].arr[j] # NULL
        PROVE  g[w].arr[j] = h[w].arr[j] /\ j + 1 < i /\ g[w].arr[j] # v
    <3>1. j # z /\ g[w].arr[j] = h[w].arr[j] /\ ~ (j > z)
      BY <2>0, <2>4, <2>6
    <3>2. h[w].arr[j] # v
      BY <1>e, <2>0, <2>6, <3>1
    <3>3. j + 1 < i
      BY <2>0, <2>a, <3>1
    <3> QED BY <3>1, <3>2, <3>3
  <2>7. Cached(g, w) = Cached(h, w) \ {v}
    <3>1. \A x : x \in Cached(g, w) <=>
            x \in Helpers /\ ((\E l \in Keys : x = g[w].obj[l])
                              \/ \E j \in Indexes : x = g[w].arr[j])
      <4>1. InMaps(g, w)
        BY <1>0, <2>5, CachedIs
      <4> QED BY <4>1 DEF InMaps
    <3>2. ASSUME NEW x \in Cached(g, w) PROVE x \in Cached(h, w) \ {v}
      <4>1. x \in Helpers /\ x # NULL
        BY <1>0, <3>1, <3>2
      <4>2. PICK j \in Indexes : x = g[w].arr[j]
        BY <2>a, <2>3, <3>1, <3>2, <4>1
      <4> QED BY <1>h, <2>6, <4>1, <4>2
    <3>3. ASSUME NEW x \in Cached(h, w) \ {v} PROVE x \in Cached(g, w)
      <4>1. x \in Helpers /\ x # NULL /\ x # v
        BY <1>0, <1>h, <3>3
      <4>2. PICK j \in Indexes : x = h[w].arr[j]
        BY <1>h, <2>a, <3>3, <4>1
      <4> QED BY <2>0, <2>4, <3>1, <4>1, <4>2
    <3> QED BY <3>2, <3>3
  <2>8. \A x \in Helpers \ {w} : Cached(g, x) = Cached(f, x)
    BY <2>1 DEF Cached
  <2>9. \A l \in Keys : g[w].obj[l] = NULL
    BY <2>a, <2>3
  <2> QED BY <2>1, <2>3, <2>5, <2>6, <2>7, <2>8, <2>9 DEF IsUnwrapped
<1> QED BY <1>1, <1>2 DEF Unwraps

(* The wrappers below one of w, which are deleted with it.                     *)
LEMMA FamilyOfWrapper ==
  ASSUME HelperAssumption, NEW h \in [Helpers -> Objs], NEW U, Wrapping(h, U),
         NEW w \in U, NEW v \in Cached(h, w), NEW S, S = Below(Wrapped(h), v)
  PROVE  /\ S \subseteq U /\ w \notin S /\ v \in S
         /\ \A x \in S : Cached(h, x) \subseteq S
         /\ \A x \in U \ S, y \in S : y \in Cached(h, x) => y = v /\ x = w
<1>0. /\ U \subseteq Helpers /\ w \in Helpers /\ v \in Helpers /\ v \in U
      /\ Wrapped(h) \in [Helpers -> SUBSET Helpers] /\ IsForest(Wrapped(h), U, OwnersOf(h, U))
      /\ \A x \in Helpers : Wrapped(h)[x] = Cached(h, x)
  <2>1. U \subseteq Helpers /\ w \in Helpers
    BY WrapperFacts
  <2>2. v \in Helpers /\ v \in U
    BY <2>1, WrapperFacts
  <2> QED BY <2>1, <2>2, WrappedType DEF Wrapping
<1>1. S \subseteq U /\ S \subseteq Helpers /\ v \in S /\ \A x \in S : Wrapped(h)[x] \subseteq S
  BY <1>0, BelowFacts, BelowLive
<1>2. w \notin S
  BY <1>0, Acyclic
<1>3. ASSUME NEW x \in U \ S, NEW y \in S, y \in Cached(h, x) PROVE y = v /\ x = w
  <2>1. ASSUME y # v PROVE FALSE
    <3>1. PICK p \in S : y \in Wrapped(h)[p]
      BY <1>0, <1>3, <2>1, BelowParent
    <3>2. p \in Helpers /\ y \in Cached(h, p) /\ x \in Helpers
      BY <1>0, <1>1, <3>1
    <3>3. p = x
      BY <1>3, <3>2, WrapperFacts
    <3> QED BY <1>3, <3>1, <3>3
  <2>2. x = w
    BY <1>0, <1>3, <2>1, WrapperFacts
  <2> QED BY <2>1, <2>2
<1> QED BY <1>0, <1>1, <1>2, <1>3

(* An item and the wrappers of all below it are deleted.                      *)
Cuts(t, L, h, U, X, w, i, k, v, S, f, g, G, u) ==
  /\ InStep(t, L, h, U, X) /\ w \in U /\ S = (IF v = NULL THEN {} ELSE Below(Wrapped(h), v))
  /\ f = Forget(h, S) /\ Unwraps(t, h, f, g, w, i, k, v)
  /\ G = Gone(t, h[w].m_pJsonData, i) /\ u = Cut(t, h[w].m_pJsonData, i)

LEMMA CutStep ==
  ASSUME HelperAssumption, DistinctKeys,
         NEW t, NEW L, NEW h, NEW U, NEW X, NEW w, NEW i, NEW k, NEW v,
         NEW S, NEW f, NEW g, NEW G, NEW u, Cuts(t, L, h, U, X, w, i, k, v, S, f, g, G, u)
  PROVE  InStep(u, L \ G, g, U \ S, X)
<1>h. /\ InStep(t, L, h, U, X) /\ w \in U
      /\ S = (IF v = NULL THEN {} ELSE Below(Wrapped(h), v))
      /\ f = Forget(h, S) /\ Unwraps(t, h, f, g, w, i, k, v)
      /\ G = Gone(t, h[w].m_pJsonData, i) /\ u = Cut(t, h[w].m_pJsonData, i)
  BY DEF Cuts
<1> USE <1>h
<1>s. Shape(t, L, h, U, X)
  BY StepFacts
<1> DEFINE a == h[w].m_pJsonData
           s == t[a].children
           R == RootsOf(h, U) \cup X
           V == U \ S
<1>p. Place(t, h, w, i, k, v)
  <2>1. UnwrapsKey(t, h, f, g, w, i, k, v) => KeyPlace(t, h, w, i, k, v)
    BY DEF UnwrapsKey, KeyPlace
  <2>2. UnwrapsIndex(t, h, f, g, w, i, k, v) => k = NULL /\ IndexPlace(t, h, w, i, v)
    BY DEF UnwrapsIndex, IndexPlace
  <2> QED BY <2>1, <2>2 DEF Unwraps, Place
<1>0. /\ t \in [Nodes -> Items] /\ L \subseteq Nodes /\ h \in [Helpers -> Objs]
      /\ U \subseteq Helpers /\ NULL \notin Nodes /\ NULL \notin Helpers
      /\ w \in Helpers /\ Wrapping(h, U) /\ Children(t) \in [Nodes -> SUBSET Nodes]
      /\ Documents(t, L, R)
  BY <1>s DEF Shape, HelperAssumption, InStep
<1>v. /\ a \in L /\ a \in Nodes
      /\ v # NULL => v \in Cached(h, w)
  BY <1>p, PlaceFacts
<1>1. /\ S \subseteq U /\ w \notin S /\ w \in V
      /\ v # NULL => v \in S
      /\ \A x \in S \cap U : Cached(h, x) \subseteq S
      /\ \A x \in V, y \in S : y \in Cached(h, x) => y = v /\ x = w
  <2>1. CASE v = NULL
    BY <2>1
  <2>2. CASE v # NULL
    <3>1. v \in Cached(h, w) /\ S = Below(Wrapped(h), v)
      BY <1>v, <2>2
    <3> QED BY <1>0, <3>1, FamilyOfWrapper
  <2> QED BY <2>1, <2>2
<1>f. Forgot(h, f, S)
  BY <1>0, ForgetFacts
<1>2. IsUnwrapped(h, f, g, w, i, k, v)
  <2>1. f \in [Helpers -> Objs] /\ f[w] = h[w]
    BY <1>0, <1>1, <1>f DEF Forgot
  <2> QED BY <2>1, UnwrapFacts
<1>3. /\ g \in [Helpers -> Objs] /\ g[w].m_pJsonData = a /\ g[w].m_bRoot = h[w].m_bRoot
      /\ \A x \in Helpers \ (S \cup {w}) : g[x] = h[x] /\ Cached(g, x) = Cached(h, x)
      /\ \A x \in S : g[x] = NewHelper(TRUE, NULL) /\ Cached(g, x) = {}
      /\ \A x \in V : g[x].m_pJsonData = h[x].m_pJsonData /\ g[x].m_bRoot = h[x].m_bRoot
      /\ Cached(g, w) = Cached(h, w) \ {v}
  <2>1. /\ g \in [Helpers -> Objs] /\ g[w].m_pJsonData = a /\ g[w].m_bRoot = h[w].m_bRoot
        /\ Cached(g, w) = Cached(h, w) \ {v}
        /\ \A x \in Helpers \ {w} : g[x] = f[x] /\ Cached(g, x) = Cached(f, x)
    BY <1>2 DEF IsUnwrapped
  <2>2. /\ \A x \in Helpers \cap S : f[x] = NewHelper(TRUE, NULL) /\ Cached(f, x) = {}
        /\ \A x \in Helpers \ S : f[x] = h[x] /\ Cached(f, x) = Cached(h, x)
    BY <1>f DEF Forgot
  <2>3. \A x \in S : x \in Helpers /\ x # w
    BY <1>0, <1>1
  <2>4. \A x \in Helpers \ (S \cup {w}) : g[x] = h[x] /\ Cached(g, x) = Cached(h, x)
    BY <2>1, <2>2
  <2>5. \A x \in S : g[x] = NewHelper(TRUE, NULL) /\ Cached(g, x) = {}
    BY <2>1, <2>2, <2>3
  <2>6. \A x \in V : x = w \/ x \in Helpers \ (S \cup {w})
    BY <1>0
  <2> HIDE DEF V, a
  <2> QED BY <2>1, <2>4, <2>5, <2>6 DEF a
<1>4. IsCut(t, L, R, a, i, G, u)
  <2> HIDE DEF R, a
  <2> QED BY <1>0, <1>v, CutFacts DEF a
<1>5. IsForest(Wrapped(g), V, OwnersOf(h, U))
  <2>1. Wrapped(g) \in [Helpers -> SUBSET Helpers] /\ Wrapped(h) \in [Helpers -> SUBSET Helpers]
        /\ IsForest(Wrapped(h), U, OwnersOf(h, U))
    BY <1>0, <1>3, WrappedType DEF Wrapping
  <2>2. \A x \in Helpers : Wrapped(g)[x] = Cached(g, x) /\ Wrapped(h)[x] = Cached(h, x)
    BY <1>0, <1>3, WrappedType
  <2> DEFINE C == {v} \ {NULL}
  <2>3. /\ C \subseteq Wrapped(h)[w] /\ \A x : x \in S <=> \E c \in C : x \in Below(Wrapped(h), c)
    BY <1>0, <1>v, <2>2
  <2>4. \A x \in Helpers : Wrapped(g)[x] = IF x \in S THEN {}
                            ELSE IF x = w THEN (Wrapped(h)[w] \ C) \cup {} ELSE Wrapped(h)[x]
    <3>1. \A x \in S : Wrapped(g)[x] = {}
      BY <1>0, <1>1, <1>3, <2>2
    <3>2. \A x \in Helpers \ (S \cup {w}) : Wrapped(g)[x] = Wrapped(h)[x]
      BY <1>3, <2>2
    <3>3. Wrapped(g)[w] = (Wrapped(h)[w] \ C) \cup {}
      <4>1. NULL \notin Cached(h, w)
        BY <1>0, WrappedType
      <4> QED BY <1>0, <1>3, <2>2, <4>1
    <3> HIDE DEF C
    <3> QED BY <1>1, <3>1, <3>2, <3>3
  <2> HIDE DEF C
  <2>5. Exchanges(Helpers, Wrapped(h), U, OwnersOf(h, U), w, C, {}, S, Wrapped(g))
    BY <2>3, <2>4 DEF Exchanges
  <2>6. IsForest(Wrapped(g), U \ S, OwnersOf(h, U) \ {})
    BY <2>1, <2>5, Exchange
  <2> QED BY <2>6
<1>6. OwnersOf(g, V) = OwnersOf(h, U) /\ RootsOf(g, V) = RootsOf(h, U)
  <2>1. OwnersOf(h, U) \subseteq V
    BY <1>5 DEF IsForest
  <2>2. OwnersOf(g, V) = OwnersOf(h, U)
    BY <1>3, <2>1 DEF OwnersOf
  <2>3. \A x \in OwnersOf(h, U) : g[x].m_pJsonData = h[x].m_pJsonData
    BY <1>3, <2>1
  <2> QED BY <2>2, <2>3 DEF RootsOf
<1>7. Wrapping(g, V)
  <2>1. \A x, y \in V : g[x].m_pJsonData = g[y].m_pJsonData => g[x].m_pJsonData = NULL \/ x = y
    BY <1>s, <1>3 DEF Shape
  <2>2. ASSUME NEW x \in Helpers \ V PROVE g[x] = NewHelper(TRUE, NULL)
    <3>1. CASE x \in S
      BY <1>3, <3>1
    <3>2. CASE x \notin S
      <4>1. x \in Helpers \ U /\ g[x] = h[x]
        BY <1>1, <1>3, <2>2, <3>2
      <4> QED BY <1>0, <4>1 DEF Wrapping
    <3> QED BY <3>1, <3>2
  <2>3. ASSUME NEW x \in Helpers
        PROVE  /\ \A l, m \in Keys : g[x].obj[l] = g[x].obj[m] => g[x].obj[l] = NULL \/ l = m
               /\ \A l, m \in Indexes : g[x].arr[l] = g[x].arr[m] => g[x].arr[l] = NULL \/ l = m
    <3>1. /\ \A l, m \in Keys : h[x].obj[l] = h[x].obj[m] => h[x].obj[l] = NULL \/ l = m
          /\ \A l, m \in Indexes : h[x].arr[l] = h[x].arr[m] => h[x].arr[l] = NULL \/ l = m
      BY <1>0 DEF Wrapping
    <3>2. CASE x \in S
      BY <1>3, <3>2 DEF NewHelper
    <3>3. CASE x = w
      BY <1>2, <3>1, <3>3 DEF IsUnwrapped
    <3> QED BY <1>3, <3>1, <3>2, <3>3
  <2>4. IsForest(Wrapped(g), V, OwnersOf(g, V))
    BY <1>5, <1>6
  <2> QED BY <2>1, <2>2, <2>3, <2>4 DEF Wrapping
<1>8. /\ u \in [Nodes -> Items] /\ Documents(u, L \ G, R) /\ a \notin G
      /\ u[a].children = IF i \in DOMAIN s THEN RemoveAt(s, i) ELSE s
      /\ \A m \in Nodes \ (G \cup {a}) : u[m] = t[m]
      /\ u[a].key = t[a].key
  BY <1>4 DEF IsCut
<1>9. \A x \in V : h[x].m_pJsonData \notin G /\ h[x].m_pJsonData \in L \cup {NULL}
  <2>1. ASSUME NEW x \in U, h[x].m_pJsonData \in G PROVE x \in S
    BY <1>1, <1>p, <2>1, IntoGone
  <2> QED BY <1>s, <2>1 DEF Shape
<1>10. \A m \in L \ G, c \in G : c \in Children(t)[m] => m = a /\ c \in Dropped(t, a, i)
  BY <1>0, <1>v, GoneFacts DEF Documents
<1>11. ASSUME NEW x \in V, x # w PROVE Current(u, g, x)
  <2>1. /\ x \in Helpers /\ g[x] = h[x] /\ Current(t, h, x) /\ h[x].m_pJsonData \in Pointers
    BY <1>s, <1>0, <1>3, <1>11 DEF Shape, Pointers
  <2>2. \A y \in Cached(h, x) : g[y].m_pJsonData = h[y].m_pJsonData
    <3>1. \A y \in Cached(h, x) : y \in U /\ y \notin S
      BY <1>0, <1>1, <1>11, <2>1, WrapperFacts
    <3> QED BY <1>3, <3>1
  <2>3. ASSUME h[x].m_pJsonData # NULL
        PROVE  /\ u[h[x].m_pJsonData] = t[h[x].m_pJsonData]
               /\ \A c \in Children(t)[h[x].m_pJsonData] : u[c].key = t[c].key
    <3> DEFINE m == h[x].m_pJsonData
    <3>1. m \in L /\ m \notin G
      BY <1>9, <2>3
    <3>2. m # a
      BY <1>s, <1>11, <2>3 DEF Shape
    <3>3. u[m] = t[m]
      BY <1>0, <1>8, <3>1, <3>2
    <3>4. ASSUME NEW c \in Children(t)[m] PROVE u[c].key = t[c].key
      <4>1. c \in Nodes /\ c \notin G
        BY <1>0, <1>10, <3>1, <3>2
      <4> QED BY <1>8, <4>1
    <3> QED BY <3>3, <3>4
  <2> QED BY <1>0, <2>1, <2>2, <2>3, CurrentKept
<1>12. Current(u, g, w)
  <2>0. /\ Current(t, h, w) /\ s \in Seq(Nodes) /\ IsInjective(s) /\ Children(t)[a] = ToSet(s)
    BY <1>s, <1>0, <1>v, ChildrenType DEF Shape
  <2>1. KeysKept(t, u, a, i)
    <3>1. ASSUME NEW j \in DOMAIN s, j # i PROVE s[j] \in Nodes /\ s[j] \notin G
      <4>1. s[j] \in Children(t)[a] /\ s[j] \in Nodes
        BY <1>0, <1>v, <2>0 DEF ToSet
      <4>2. s[j] \notin Dropped(t, a, i)
        BY <2>0, <3>1 DEF Dropped, IsInjective
      <4> QED BY <1>8, <1>10, <1>v, <4>1, <4>2
    <3> QED BY <1>8, <3>1 DEF KeysKept
  <2>2. ASSUME NEW y \in Helpers, y \in Cached(h, w), y # v
        PROVE  g[y].m_pJsonData = h[y].m_pJsonData
    <3>1. y \in U /\ y \notin S
      BY <1>0, <1>1, <2>2, WrapperFacts
    <3> QED BY <1>3, <3>1
  <2>3. ASSUME NEW l \in Keys, g[w].obj[l] # NULL
        PROVE  a \in Objects /\ g[g[w].obj[l]].m_pJsonData = First(u, a, l)
    <3>1. g[w].obj[l] = h[w].obj[l] /\ l # k /\ g[w].obj[l] # v
      BY <1>2, <2>3 DEF IsUnwrapped
    <3>2. /\ a \in Objects /\ h[h[w].obj[l]].m_pJsonData = First(t, a, l)
          /\ h[w].obj[l] \in Cached(h, w) /\ h[w].obj[l] \in Helpers
      BY <1>0, <2>0, <2>3, <3>1, MapFacts, WrappedType DEF Current
    <3>3. g[h[w].obj[l]].m_pJsonData = First(t, a, l)
      BY <2>2, <3>1, <3>2
    <3>4. KeyPlace(t, h, w, i, k, v)
      BY <1>p, <3>2 DEF Place, IndexPlace
    <3>5. First(u, a, l) = First(t, a, l)
      <4>1. CASE i \in DOMAIN s
        <5>1. i # 0 /\ i = Member(t, a, k) /\ k \in Keys
          BY <2>0, <3>4, <4>1 DEF KeyPlace
        <5>2. Has(t, s[i], k)
          BY <2>0, <5>1, MemberFacts
        <5>3. ~ Has(t, s[i], l)
          BY <3>1, <5>1, <5>2 DEF Has, DistinctKeys
        <5>4. u[a].children = RemoveAt(s, i)
          BY <1>8, <4>1
        <5> QED BY <1>0, <2>0, <2>1, <4>1, <5>3, <5>4, CutOther
      <4>2. CASE i \notin DOMAIN s
        <5>1. u = t
          BY <4>2 DEF Cut
        <5> QED BY <5>1
      <4> QED BY <4>1, <4>2
    <3> QED BY <3>1, <3>2, <3>3, <3>5
  <2>4. ASSUME NEW j \in Indexes, g[w].arr[j] # NULL
        PROVE  /\ a \in Nodes \ (Objects \cup Values) /\ j + 1 \in DOMAIN u[a].children
               /\ g[g[w].arr[j]].m_pJsonData = u[a].children[j + 1]
    <3>1. g[w].arr[j] = h[w].arr[j] /\ j + 1 < i /\ g[w].arr[j] # v
      BY <1>2, <2>4 DEF IsUnwrapped
    <3>2. /\ a \in Nodes \ (Objects \cup Values) /\ j + 1 \in DOMAIN s
          /\ h[h[w].arr[j]].m_pJsonData = s[j + 1]
          /\ h[w].arr[j] \in Cached(h, w) /\ h[w].arr[j] \in Helpers
      BY <1>0, <2>0, <2>4, <3>1, MapFacts, WrappedType DEF Current
    <3>3. g[h[w].arr[j]].m_pJsonData = s[j + 1]
      BY <2>2, <3>1, <3>2
    <3>4. IndexPlace(t, h, w, i, v)
      BY <1>p, <3>2 DEF Place, KeyPlace
    <3>5. i # 0
      BY <2>0, <3>1, <3>2
    <3>6. i \in DOMAIN s
      BY <3>4, <3>5 DEF IndexPlace
    <3>7. u[a].children = RemoveAt(s, i)
      BY <1>8, <3>6
    <3>8. j + 1 \in DOMAIN RemoveAt(s, i) /\ RemoveAt(s, i)[j + 1] = s[j + 1]
      <4>1. j + 1 \in 1 .. Len(s) - 1 /\ i \in 1 .. Len(s)
        BY <2>0, <3>1, <3>2, <3>6
      <4> QED BY <2>0, <3>1, <3>6, <4>1, RemoveFacts
    <3> QED BY <3>1, <3>2, <3>3, <3>7, <3>8
  <2> QED BY <1>3, <2>3, <2>4 DEF Current
<1>13. Typed(u, L \ G, g, V) /\ X \cap RootsOf(g, V) = {}
       /\ Documents(u, L \ G, RootsOf(g, V) \cup X)
  BY <1>0, <1>3, <1>6, <1>8 DEF Typed, InStep
<1>14. \A x \in V : g[x].m_pJsonData \in (L \ G) \cup {NULL}
  BY <1>3, <1>9
<1> QED BY <1>7, <1>11, <1>12, <1>13, <1>14 DEF InStep

(* An owner is deleted, with its document and its wrappers.                   *)
LEMMA DestroyStep ==
  ASSUME HelperAssumption, NEW t, NEW L, NEW h, NEW U, NEW X, InStep(t, L, h, U, X),
         NEW w \in U, h[w].m_bRoot, NEW S, S = Below(Wrapped(h), w),
         NEW D, D = (IF h[w].m_pJsonData # NULL THEN Subtree(t, h[w].m_pJsonData) ELSE {}),
         NEW u, u = Freed(t, D), NEW g, g = Forget(h, S)
  PROVE  InStep(u, L \ D, g, U \ S, X) /\ w \in S
<1>s. Shape(t, L, h, U, X)
  BY StepFacts
<1> DEFINE r == h[w].m_pJsonData
           R == RootsOf(h, U) \cup X
           V == U \ S
           O == OwnersOf(h, U)
<1>0. /\ t \in [Nodes -> Items] /\ L \subseteq Nodes /\ h \in [Helpers -> Objs]
      /\ U \subseteq Helpers /\ NULL \notin Nodes /\ NULL \notin Helpers
      /\ w \in Helpers /\ Wrapping(h, U) /\ Children(t) \in [Nodes -> SUBSET Nodes]
      /\ IsForest(Children(t), L, R) /\ \A m \in Nodes : IsInjective(t[m].children)
      /\ r \in L \cup {NULL} /\ X \cap RootsOf(h, U) = {} /\ X \subseteq L
  BY <1>s DEF Shape, HelperAssumption, InStep
<1>w. /\ Wrapped(h) \in [Helpers -> SUBSET Helpers] /\ IsForest(Wrapped(h), U, O)
      /\ \A x \in Helpers : Wrapped(h)[x] = Cached(h, x)
      /\ w \in O /\ O \subseteq U
  BY <1>0, WrappedType DEF Wrapping, OwnersOf
<1>1. /\ S \subseteq U /\ w \in S /\ \A x \in S : Cached(h, x) \subseteq S
  <2>1. S \subseteq U /\ w \in S /\ \A x \in S : Wrapped(h)[x] \subseteq S
    BY <1>0, <1>w, BelowFacts, BelowLive
  <2> QED BY <1>0, <1>w, <2>1
<1>2. ASSUME NEW x \in V, NEW y \in Cached(h, x) PROVE y \in U /\ y \notin S /\ y \in Helpers
  <2>0. y \in Helpers /\ x \in Helpers /\ y \in U /\ y \notin O
    BY <1>0, <1>2, WrapperFacts
  <2>1. ASSUME y \in S PROVE FALSE
    <3>1. PICK p \in S : y \in Wrapped(h)[p]
      BY <1>0, <1>w, <2>0, <2>1, BelowParent
    <3>2. p \in Helpers /\ y \in Cached(h, p)
      BY <1>0, <1>1, <1>w, <3>1
    <3>3. p = x
      BY <1>0, <1>2, <2>0, <3>2, WrapperFacts
    <3> QED BY <1>2, <3>1, <3>3
  <2> QED BY <2>0, <2>1
<1>3. Forgot(h, g, S)
  BY <1>0, ForgetFacts
<1>4. /\ g \in [Helpers -> Objs] /\ \A x \in Helpers \ S : g[x] = h[x]
      /\ \A x \in S : g[x] = NewHelper(TRUE, NULL)
      /\ \A x \in Helpers : Cached(g, x) = IF x \in S THEN {} ELSE Cached(h, x)
  BY <1>0, <1>1, <1>3 DEF Forgot
<1>5. IsForest(Wrapped(g), V, O \ {w}) /\ O \ {w} \subseteq V
  <2>1. /\ Wrapped(g) \in [Helpers -> SUBSET Helpers]
        /\ \A x \in Helpers : Wrapped(g)[x] = IF x \in S THEN {} ELSE Wrapped(h)[x]
    <3>1. /\ Wrapped(g) \in [Helpers -> SUBSET Helpers]
          /\ \A x \in Helpers : Wrapped(g)[x] = Cached(g, x)
      BY <1>4, WrappedType
    <3> QED BY <1>4, <1>w, <3>1
  <2> HIDE DEF O
  <2>2. Drops(Helpers, Wrapped(h), O, {w}, S, Wrapped(g))
    BY <1>w, <2>1 DEF Drops
  <2>3. IsForest(Wrapped(g), U \ S, O \ {w})
    BY <1>w, <2>1, <2>2, Drop
  <2> QED BY <2>3 DEF IsForest
<1>6. OwnersOf(g, V) = O \ {w}
  BY <1>0, <1>1, <1>4, <1>5 DEF OwnersOf
<1>7. RootsOf(g, V) = RootsOf(h, U) \ {r}
  <2>1. \A x \in O \ {w} : g[x].m_pJsonData = h[x].m_pJsonData
    BY <1>0, <1>4, <1>5
  <2>2. \A x \in O \ {w} : h[x].m_pJsonData = r => r = NULL
    BY <1>s, <1>w DEF Shape
  <2>3. RootsOf(g, V) = {h[x].m_pJsonData : x \in O \ {w}} \ {NULL}
    BY <1>6, <2>1 DEF RootsOf
  <2> QED BY <1>w, <2>2, <2>3 DEF RootsOf
<1>8. u \in [Nodes -> Items] /\ \A m \in Nodes : u[m] = IF m \in D THEN NewItem ELSE t[m]
  <2>1. \A m \in Nodes : u[m] = IF m \in D THEN NewItem ELSE t[m]
    BY DEF Freed
  <2>2. \A m \in Nodes : u[m] \in Items
    BY <1>0, <2>1, NewItemType
  <2>3. u = [m \in Nodes |-> u[m]]
    BY DEF Freed
  <2> QED BY <2>1, <2>2, <2>3
<1>9. Documents(u, L \ D, R \ {r})
  <2>1. \A m \in Nodes : IsInjective(u[m].children)
    BY <1>0, <1>8, NewItemType
  <2>2. /\ Children(u) \in [Nodes -> SUBSET Nodes]
        /\ \A m \in Nodes : Children(u)[m] = IF m \in D THEN {} ELSE Children(t)[m]
    <3>1. \A m \in Nodes : Children(u)[m] = ToSet(u[m].children)
                          /\ Children(t)[m] = ToSet(t[m].children)
      BY <1>0, <1>8, ChildrenType
    <3>2. \A m \in Nodes : m \in D => Children(u)[m] = {}
      BY <1>8, <3>1, NewItemType
    <3>3. \A m \in Nodes : m \notin D => Children(u)[m] = Children(t)[m]
      BY <1>8, <3>1
    <3>4. Children(u) \in [Nodes -> SUBSET Nodes]
      BY <1>8, ChildrenType
    <3> QED BY <3>2, <3>3, <3>4
  <2> DEFINE C == {r} \ {NULL}
  <2>3. Drops(Nodes, Children(t), R, C, D, Children(u))
    <3>1. C \subseteq R
      BY <1>w DEF RootsOf
    <3>2. \A x : x \in D <=> \E d \in C : x \in Below(Children(t), d)
      BY DEF Subtree
    <3> HIDE DEF R, r, C
    <3> QED BY <2>2, <3>1, <3>2 DEF Drops
  <2>4. IsForest(Children(u), L \ D, R \ C)
    <3>1. /\ Children(t) \in [Nodes -> SUBSET Nodes] /\ IsForest(Children(t), L, R)
          /\ Children(u) \in [Nodes -> SUBSET Nodes]
      BY <1>0, <2>2
    <3> HIDE DEF R, r, C
    <3> QED BY <2>3, <3>1, Drop
  <2>5. R \ C = R \ {r}
    <3>1. NULL \notin R
      BY <1>0 DEF IsForest
    <3> QED BY <3>1
  <2> QED BY <2>1, <2>4, <2>5 DEF Documents
<1>10. R \ {r} = RootsOf(g, V) \cup X /\ X \cap RootsOf(g, V) = {}
  <2>1. r \notin X
    BY <1>s DEF Shape
  <2> QED BY <1>0, <1>7, <2>1
<1>11. ASSUME NEW x \in V PROVE h[x].m_pJsonData \in (L \ D) \cup {NULL}
  <2>1. h[x].m_pJsonData \in L \cup {NULL}
    BY <1>s DEF Shape
  <2>2. ASSUME r # NULL, h[x].m_pJsonData \in Subtree(t, r) PROVE FALSE
    <3>1. \A y \in U : h[y].m_pJsonData = r => y \in S
      BY <1>s, <1>1, <2>2 DEF Shape
    <3>2. r \in Nodes /\ \A y \in S \cap U : Cached(h, y) \subseteq S
      BY <1>0, <1>1, <2>2
    <3>3. \A y \in U : h[y].m_pJsonData \in Subtree(t, r) => y \in S
      BY <3>1, <3>2, IntoSubtree
    <3> QED BY <2>2, <3>3
  <2> QED BY <2>1, <2>2
<1>12. ASSUME NEW m \in L \ D, NEW c \in Children(t)[m] PROVE c \notin D /\ c \in Nodes
  <2>0. m \in Nodes /\ c \in Nodes /\ c \notin R
    BY <1>0 DEF IsForest
  <2>1. ASSUME c \in D PROVE FALSE
    <3>1. r # NULL /\ D = Below(Children(t), r) /\ r \in R /\ r \in Nodes
      BY <1>0, <1>w, <2>1 DEF Subtree, RootsOf
    <3>2. PICK p \in D : c \in Children(t)[p]
      BY <1>0, <2>0, <2>1, <3>1, BelowParent
    <3>3. p \in Nodes
      BY <1>0, <3>1, <3>2, BelowFacts
    <3>4. p = m
      BY <1>0, <2>0, <3>2, <3>3 DEF IsForest
    <3> QED BY <3>2, <3>4
  <2> QED BY <2>0, <2>1
<1>13. ASSUME NEW x \in V PROVE Current(u, g, x)
  <2>1. /\ x \in Helpers /\ g[x] = h[x] /\ Current(t, h, x) /\ h[x].m_pJsonData \in Pointers
    BY <1>s, <1>0, <1>4 DEF Shape, Pointers
  <2>2. \A y \in Cached(h, x) : g[y].m_pJsonData = h[y].m_pJsonData
    BY <1>2, <1>4
  <2>3. ASSUME h[x].m_pJsonData # NULL
        PROVE  /\ u[h[x].m_pJsonData] = t[h[x].m_pJsonData]
               /\ \A c \in Children(t)[h[x].m_pJsonData] : u[c].key = t[c].key
    BY <1>0, <1>8, <1>11, <1>12, <2>3
  <2> QED BY <1>0, <2>1, <2>2, <2>3, CurrentKept
<1>14. Wrapping(g, V)
  <2>1. \A x, y \in V : g[x].m_pJsonData = g[y].m_pJsonData => g[x].m_pJsonData = NULL \/ x = y
    BY <1>s, <1>0, <1>4 DEF Shape
  <2>2. ASSUME NEW x \in Helpers \ V PROVE g[x] = NewHelper(TRUE, NULL)
    <3>1. CASE x \in S
      BY <1>4, <3>1
    <3>2. CASE x \notin S
      BY <1>0, <1>4, <2>2, <3>2 DEF Wrapping
    <3> QED BY <3>1, <3>2
  <2>3. ASSUME NEW x \in Helpers
        PROVE  /\ \A l, m \in Keys : g[x].obj[l] = g[x].obj[m] => g[x].obj[l] = NULL \/ l = m
               /\ \A l, m \in Indexes : g[x].arr[l] = g[x].arr[m] => g[x].arr[l] = NULL \/ l = m
    <3>1. CASE x \in S
      BY <1>4, <3>1 DEF NewHelper
    <3>2. CASE x \notin S
      BY <1>0, <1>4, <3>2 DEF Wrapping
    <3> QED BY <3>1, <3>2
  <2>4. IsForest(Wrapped(g), V, OwnersOf(g, V))
    BY <1>5, <1>6
  <2> QED BY <2>1, <2>2, <2>3, <2>4 DEF Wrapping
<1>15. Typed(u, L \ D, g, V) /\ Documents(u, L \ D, RootsOf(g, V) \cup X)
  BY <1>0, <1>4, <1>8, <1>9, <1>10 DEF Typed
<1>16. \A x \in V : g[x].m_pJsonData \in (L \ D) \cup {NULL}
  BY <1>0, <1>4, <1>11
<1> QED BY <1>1, <1>10, <1>13, <1>14, <1>15, <1>16 DEF InStep

-----------------------------------------------------------------------------
(* What may be put in                                                        *)

(* The items of an argument are new, in a tree that no object owns yet.        *)
Created(a) ==
  /\ InStep(a.tree, live \cup a.new, helper, used, {a.top})
  /\ a.top \in a.new /\ a.new \subseteq Nodes \ live
  /\ \A m \in Nodes \ a.new : a.tree[m] = tree[m]

LEMMA FreshStep ==
  ASSUME HelperAssumption, IInv, NEW n \in Nodes \ live, NEW type \in Types
  PROVE  Created(Fresh(n, type))
<1>i. InStep(tree, live, helper, used, {})
  BY DEF IInv
<1>s. Shape(tree, live, helper, used, {})
  BY <1>i, StepFacts
<1> DEFINE u == [tree EXCEPT ![n].type = type]
           R == RootsOf(helper, used) \cup {}
<1>0. /\ tree \in [Nodes -> Items] /\ Children(tree) \in [Nodes -> SUBSET Nodes]
      /\ IsForest(Children(tree), live, R) /\ \A m \in Nodes : IsInjective(tree[m].children)
  BY <1>s DEF Shape
<1>1. /\ u[n] = [tree[n] EXCEPT !.type = type] /\ \A m \in Nodes \ {n} : u[m] = tree[m]
      /\ u = [m \in Nodes |-> u[m]]
  BY <1>0
<1> HIDE DEF u, R
<1>2. u[n] \in Items /\ u[n].children = tree[n].children
  <2>1. tree[n] \in Items
    BY <1>0
  <2> QED BY <1>1, <2>1 DEF Items
<1>3. u \in [Nodes -> Items] /\ \A m \in Nodes : u[m].children = tree[m].children
  <2>1. \A m \in Nodes : u[m] \in Items
    BY <1>0, <1>1, <1>2
  <2> QED BY <1>1, <1>2, <2>1
<1>4. Children(u) = Children(tree)
  BY <1>3 DEF Children
<1>5. IsForest(Children(tree), live \cup {n}, R \cup {n})
  BY <1>0, GrowOne
<1>6. Creates(tree, live, R, u, {n}, n)
  BY <1>0, <1>1, <1>3, <1>4, <1>5 DEF Creates, Documents
<1>7. InStep(u, live \cup {n}, helper, used, {} \cup {n})
  BY <1>i, <1>6, CreateStep DEF R
<1>8. {} \cup {n} = {n}
  OBVIOUS
<1> QED BY <1>1, <1>7, <1>8 DEF Created, Fresh, u

LEMMA CopyStep ==
  ASSUME HelperAssumption, IInv, NEW v \in used, NEW argument \in Copies(v)
  PROVE  Created(argument)
<1>i. InStep(tree, live, helper, used, {})
  BY DEF IInv
<1>s. Shape(tree, live, helper, used, {})
  BY <1>i, StepFacts
<1> DEFINE r == data(v)
           next == Children(tree)
           B == Subtree(tree, r)
           R == RootsOf(helper, used) \cup {}
<1>0. /\ tree \in [Nodes -> Items] /\ next \in [Nodes -> SUBSET Nodes] /\ r \in live /\ r \in Nodes
      /\ live \subseteq Nodes
      /\ IsForest(next, live, R) /\ \A m \in Nodes : IsInjective(tree[m].children)
  BY <1>s DEF Shape, Copies, data
<1>1. PICK copy \in [B -> Nodes \ live] : IsInjective(copy) /\ argument = Copied(v, copy)
  BY DEF Copies
<1> DEFINE u == argument.tree
           new == argument.new
           from(m) == CHOOSE n \in DOMAIN copy : copy[n] = m
<1>2. /\ new = Range(copy) /\ argument.top = copy[r]
      /\ u = [m \in Nodes |-> IF m \notin Range(copy) THEN tree[m]
                ELSE [children |-> [i \in DOMAIN tree[from(m)].children |->
                                      copy[tree[from(m)].children[i]]],
                      key |-> IF from(m) = r THEN NULL ELSE tree[from(m)].key,
                      type |-> tree[from(m)].type]]
  BY <1>1 DEF Copied
<1> HIDE DEF u, new, r, next
<1>3. /\ B = Below(next, r) /\ r \in B /\ B \subseteq live /\ B \subseteq Nodes
      /\ \A p \in B : next[p] \subseteq B /\ next[p] = ToSet(tree[p].children)
  <2>1. r \in Below(next, r) /\ Below(next, r) \subseteq Nodes
        /\ \A p \in Below(next, r) : next[p] \subseteq Below(next, r)
    BY <1>0, BelowFacts
  <2>2. Below(next, r) \subseteq live
    BY <1>0, BelowLive
  <2>3. B = Below(next, r)
    BY DEF next, Subtree
  <2>4. \A p \in Nodes : next[p] = ToSet(tree[p].children)
    BY <1>0, ChildrenType DEF next
  <2> QED BY <2>1, <2>2, <2>3, <2>4
<1> HIDE DEF B
<1>4. /\ new = {copy[p] : p \in B} /\ new \subseteq Nodes \ live
      /\ \A p, q \in B : copy[p] = copy[q] => p = q
  BY <1>1, <1>2 DEF Range, IsInjective
<1>5. \A p \in B : from(copy[p]) = p
  <2>1. ASSUME NEW p \in B PROVE from(copy[p]) = p
    <3>1. \E n \in DOMAIN copy : copy[n] = copy[p]
      BY <1>1
    <3>2. from(copy[p]) \in B /\ copy[from(copy[p])] = copy[p]
      BY <1>1, <3>1
    <3> QED BY <1>4, <3>2
  <2> QED BY <2>1
<1> HIDE DEF from
<1>6. ASSUME NEW p \in B
      PROVE  /\ u[copy[p]].children = [i \in DOMAIN tree[p].children |-> copy[tree[p].children[i]]]
             /\ u[copy[p]] \in Items /\ IsInjective(u[copy[p]].children)
             /\ ToSet(u[copy[p]].children) = {copy[c] : c \in next[p]}
  <2> DEFINE s == tree[p].children
             q == [i \in DOMAIN s |-> copy[s[i]]]
  <2>1. /\ p \in Nodes /\ s \in Seq(Nodes) /\ tree[p] \in Items /\ IsInjective(s)
        /\ \A i \in DOMAIN s : s[i] \in B
    <3>1. p \in Nodes /\ next[p] \subseteq B /\ next[p] = ToSet(s)
      BY <1>3
    <3>2. s \in Seq(Nodes) /\ tree[p] \in Items
      BY <1>0, <3>1, ChildrenType
    <3>3. IsInjective(s)
      BY <1>0, <3>1
    <3>4. \A i \in DOMAIN s : s[i] \in ToSet(s)
      BY DEF ToSet
    <3> QED BY <3>1, <3>2, <3>3, <3>4
  <2>2. u[copy[p]] = [children |-> q, key |-> IF p = r THEN NULL ELSE tree[p].key,
                      type |-> tree[p].type]
    <3>1. copy[p] \in Range(copy) /\ copy[p] \in Nodes
      BY <1>2, <1>4
    <3> QED BY <1>2, <1>5, <3>1
  <2>3. q \in Seq(Nodes)
    <3>1. \A i \in 1 .. Len(s) : copy[s[i]] \in Nodes
      BY <1>1, <2>1
    <3> QED BY <2>1, <3>1
  <2>4. IsInjective(q)
    BY <1>4, <2>1 DEF IsInjective
  <2>5. ToSet(q) = {copy[c] : c \in ToSet(s)}
    BY DEF ToSet
  <2>6. u[copy[p]] \in Items
    <3>1. tree[p].key \in Keys \cup {NULL} /\ tree[p].type \in Types
      BY <2>1 DEF Items
    <3> HIDE DEF q
    <3> QED BY <2>2, <2>3, <3>1 DEF Items
  <2> QED BY <1>3, <2>2, <2>4, <2>5, <2>6
<1>7. \A m \in Nodes \ new : u[m] = tree[m]
  BY <1>2
<1>8. u \in [Nodes -> Items] /\ \A m \in Nodes : IsInjective(u[m].children)
  <2>1. \A m \in Nodes : u[m] \in Items /\ IsInjective(u[m].children)
    <3>1. \A m \in new : u[m] \in Items /\ IsInjective(u[m].children)
      BY <1>4, <1>6
    <3> QED BY <1>0, <1>7, <3>1
  <2>2. u = [m \in Nodes |-> u[m]]
    BY <1>2
  <2> QED BY <2>1, <2>2
<1> DEFINE other == [m \in Nodes |-> IF m \in new THEN Children(u)[m] ELSE {}]
<1>9. /\ Children(u) \in [Nodes -> SUBSET Nodes] /\ other \in [Nodes -> SUBSET Nodes]
      /\ \A m \in Nodes : Children(u)[m] = ToSet(u[m].children)
  <2>1. Children(u) \in [Nodes -> SUBSET Nodes]
        /\ \A m \in Nodes : Children(u)[m] = ToSet(u[m].children)
    BY <1>8, ChildrenType
  <2> QED BY <2>1
<1>10. \A m \in Nodes : other[m] = IF m \in new THEN Children(u)[m] ELSE {}
  OBVIOUS
<1> HIDE DEF other
<1>11. IsForest(other, new, {copy[r]})
  <2>1. Images(Nodes, next, r, copy, other, new)
    <3>1. copy \in [Below(next, r) -> Nodes] /\ new = {copy[p] : p \in Below(next, r)}
      BY <1>1, <1>3, <1>4
    <3>2. ASSUME NEW p \in B PROVE other[copy[p]] = {copy[c] : c \in next[p]}
      <4>1. copy[p] \in new /\ copy[p] \in Nodes
        BY <1>4
      <4>2. other[copy[p]] = ToSet(u[copy[p]].children)
        BY <1>9, <1>10, <4>1
      <4> QED BY <1>6, <4>2
    <3>3. \A m \in Nodes \ new : other[m] = {}
      BY <1>10
    <3>4. \A p, q \in Below(next, r) : copy[p] = copy[q] => p = q
      BY <1>3, <1>4
    <3>5. \A p \in Below(next, r) : other[copy[p]] = {copy[c] : c \in next[p]}
      BY <1>3, <3>2
    <3> QED BY <3>1, <3>3, <3>4, <3>5 DEF Images
  <2> QED BY <1>0, <1>9, <2>1, Image
<1>12. IsForest(Children(u), live \cup new, R \cup {copy[r]})
  <2>1. \A m \in Nodes \ new : Children(u)[m] = next[m]
    <3>1. \A m \in Nodes : next[m] = ToSet(tree[m].children)
      BY <1>0, ChildrenType DEF next
    <3> QED BY <1>7, <1>9, <3>1
  <2>2. Grows(Nodes, next, live, other, new, Children(u))
    BY <1>4, <1>10, <2>1 DEF Grows
  <2> HIDE DEF R
  <2> QED BY <1>0, <1>9, <1>11, <2>2, Grow
<1>13. Creates(tree, live, R, u, new, copy[r])
  BY <1>3, <1>4, <1>7, <1>8, <1>12 DEF Creates, Documents
<1>14. InStep(u, live \cup new, helper, used, {} \cup {copy[r]})
  BY <1>i, <1>13, CreateStep
<1>15. {} \cup {copy[r]} = {copy[r]} /\ copy[r] \in new
  BY <1>3, <1>4
<1> QED BY <1>2, <1>4, <1>7, <1>14, <1>15 DEF Created, u, new

LEMMA ArgumentStep ==
  ASSUME HelperAssumption, IInv, NEW argument \in Arguments
  PROVE  Created(argument)
<1>1. CASE \E n \in Values \ live, T \in CppTypes : argument = Fresh(n, typeOf(T))
  <2>1. PICK n \in Values \ live, T \in CppTypes : argument = Fresh(n, typeOf(T))
    BY <1>1
  <2>2. n \in Nodes \ live /\ typeOf(T) \in Types
    BY DEF HelperAssumption, CppTypes, typeOf, Types
  <2> QED BY <2>1, <2>2, FreshStep
<1>2. CASE \E n \in Nodes \ (live \cup Values) : argument = Fresh(n, "none")
  BY <1>2, FreshStep DEF Types
<1>3. CASE \E v \in used : argument \in Copies(v)
  BY <1>3, CopyStep
<1> QED BY <1>1, <1>2, <1>3 DEF Arguments

LEMMA MemberSame ==
  ASSUME NEW t, NEW u, NEW o, NEW k, t[o].children \in Seq(Nodes), u[o].children = t[o].children,
         \A c \in ToSet(t[o].children) : u[c].key = t[c].key
  PROVE  Member(u, o, k) = Member(t, o, k)
<1> DEFINE s == t[o].children
           i == Member(t, o, k)
<1>0. \A j \in DOMAIN s : Has(u, s[j], k) <=> Has(t, s[j], k)
  <2>1. \A j \in DOMAIN s : s[j] \in ToSet(s)
    BY DEF ToSet
  <2> QED BY <2>1 DEF Has
<1>1. CASE i = 0
  <2>1. \A j \in DOMAIN s : ~ Has(u, s[j], k)
    BY <1>0, <1>1, MemberFacts
  <2>2. Member(u, o, k) = 0
    BY <2>1, MemberFacts
  <2> QED BY <1>1, <2>2
<1>2. CASE i # 0
  <2>1. /\ i \in DOMAIN s /\ Has(t, s[i], k)
        /\ \A j \in DOMAIN s : j < i => ~ Has(t, s[j], k)
    BY <1>2, MemberFacts
  <2> QED BY <1>0, <2>1, MemberIs
<1> QED BY <1>1, <1>2

(* The documents of the objects are in the tree of an argument as they were.   *)
LEMMA ArgumentFacts ==
  ASSUME HelperAssumption, IInv, NEW argument, Created(argument)
  PROVE  /\ \A n \in live : Subtree(argument.tree, n) = Subtree(tree, n)
         /\ Subtree(argument.tree, argument.top) \subseteq argument.new
<1> DEFINE next == Children(tree)
           other == Children(argument.tree)
           R == RootsOf(helper, used)
<1>1. /\ next \in [Nodes -> SUBSET Nodes] /\ tree \in [Nodes -> Items]
      /\ IsForest(next, live, R \cup {}) /\ live \subseteq Nodes
  <2>1. Shape(tree, live, helper, used, {})
    BY StepFacts DEF IInv
  <2> QED BY <2>1 DEF Shape
<1>2. /\ other \in [Nodes -> SUBSET Nodes] /\ argument.tree \in [Nodes -> Items]
      /\ IsForest(other, live \cup argument.new, R \cup {argument.top})
  <2>1. Shape(argument.tree, live \cup argument.new, helper, used, {argument.top})
    BY StepFacts DEF Created
  <2> QED BY <2>1 DEF Shape
<1>3. \A m \in Nodes \ argument.new : other[m] = next[m]
  BY <1>1, <1>2, ChildrenType DEF Created
<1>4. /\ argument.top \in argument.new /\ argument.new \subseteq Nodes \ live
  BY DEF Created
<1> HIDE DEF next, other, R
<1>5. ASSUME NEW n \in live PROVE Below(other, n) = Below(next, n)
  <2>1. n \in Nodes /\ Below(next, n) \subseteq live
    BY <1>1, BelowLive
  <2>2. \A p \in Below(next, n) : other[p] = next[p]
    BY <1>1, <1>3, <1>4, <2>1
  <2> QED BY <1>1, <1>2, <2>1, <2>2, BelowLocal
<1>6. Below(other, argument.top) \subseteq live \cup argument.new
  BY <1>2, <1>4, BelowLive
<1>7. ASSUME NEW m \in live, m \in Below(other, argument.top) PROVE FALSE
  <2>1. PICK r \in R : m \in Below(next, r)
    BY <1>1 DEF IsForest
  <2>2. r \in live
    BY <1>1 DEF IsForest
  <2>3. m \in Below(other, r) /\ r # argument.top
    BY <1>4, <1>5, <2>1, <2>2
  <2>4. Below(other, r) \cap Below(other, argument.top) = {}
    BY <1>2, <2>3, TreesDisjoint
  <2> QED BY <1>7, <2>3, <2>4
<1> QED BY <1>5, <1>6, <1>7 DEF Subtree, next, other

LEMMA ArgumentSame ==
  ASSUME HelperAssumption, IInv, NEW argument, Created(argument),
         NEW o \in Nodes \ argument.new, NEW i, NEW k
  PROVE  /\ Member(argument.tree, o, k) = Member(tree, o, k)
         /\ Gone(argument.tree, o, i) = Gone(tree, o, i) /\ Gone(tree, o, i) \subseteq live \ {o}
         /\ argument.tree[o] = tree[o]
<1>1. /\ tree \in [Nodes -> Items] /\ Children(tree) \in [Nodes -> SUBSET Nodes]
      /\ IsForest(Children(tree), live, RootsOf(helper, used) \cup {})
  <2>1. Shape(tree, live, helper, used, {})
    BY StepFacts DEF IInv
  <2> QED BY <2>1 DEF Shape
<1>2. tree[o].children \in Seq(Nodes) /\ Children(tree)[o] = ToSet(tree[o].children)
  BY <1>1, ChildrenType
<1>3. argument.tree[o] = tree[o] /\ argument.new \subseteq Nodes \ live
  BY DEF Created
<1>4. /\ ToSet(tree[o].children) \subseteq live
      /\ o \notin live => ToSet(tree[o].children) = {}
  BY <1>1, <1>2 DEF IsForest
<1>5. \A c \in ToSet(tree[o].children) : c \in live /\ argument.tree[c] = tree[c]
  <2>1. live \subseteq Nodes
    BY <1>1 DEF IsForest
  <2> QED BY <1>3, <1>4, <2>1 DEF Created
<1>6. Member(argument.tree, o, k) = Member(tree, o, k)
  BY <1>2, <1>3, <1>5, MemberSame
<1>7. Gone(argument.tree, o, i) = Gone(tree, o, i)
  <2>1. CASE i \in DOMAIN tree[o].children
    <3>1. tree[o].children[i] \in live
      BY <1>4, <2>1 DEF ToSet
    <3> QED BY <1>3, <2>1, <3>1, ArgumentFacts DEF Gone
  <2>2. CASE i \notin DOMAIN tree[o].children
    BY <1>3, <2>2 DEF Gone
  <2> QED BY <2>1, <2>2
<1>8. Gone(tree, o, i) \subseteq live \ {o}
  <2>1. CASE o \in live
    BY <1>1, <2>1, GoneFacts
  <2>2. CASE o \notin live
    <3>1. i \notin DOMAIN tree[o].children
      BY <1>4, <2>2 DEF ToSet
    <3> QED BY <3>1 DEF Gone
  <2> QED BY <2>1, <2>2
<1> QED BY <1>3, <1>6, <1>7, <1>8

-----------------------------------------------------------------------------
(* The calls                                                                 *)

LEMMA NewerData ==
  ASSUME NEW b, NEW c, NEW n
  PROVE  [NewHelper(b, c) EXCEPT !.m_pJsonData = n] = NewHelper(b, n)
<1>1. ASSUME NEW O, NEW A, NEW r, r = [m_bRoot |-> b, m_pJsonData |-> c, obj |-> O, arr |-> A]
      PROVE  [r EXCEPT !.m_pJsonData = n]
             = [m_bRoot |-> b, m_pJsonData |-> n, obj |-> O, arr |-> A]
  BY <1>1
<1> QED BY <1>1 DEF NewHelper

(* clear, and parse of a document with the top n.                             *)
LEMMA ClearStep ==
  ASSUME HelperAssumption, NEW t, NEW L, NEW h, NEW U, NEW X, InStep(t, L, h, U, X),
         NEW w \in U, h[w].m_bRoot, NEW S, S = Below(Wrapped(h), w),
         NEW D, D = (IF h[w].m_pJsonData # NULL THEN Subtree(t, h[w].m_pJsonData) ELSE {}),
         NEW u, u = Freed(t, D),
         NEW g, g = [Forget(h, S) EXCEPT ![w] = NewHelper(TRUE, NULL)]
  PROVE  InStep(u, L \ D, g, U \ (S \ {w}), X)
<1> DEFINE f == Forget(h, S)
<1>1. InStep(u, L \ D, f, U \ S, X) /\ w \in S
  <2>1. f = Forget(h, S)
    OBVIOUS
  <2> HIDE DEF f
  <2> QED BY <2>1, DestroyStep
<1>2. w \in Helpers /\ h \in [Helpers -> Objs]
  BY DEF InStep, Typed
<1>3. g = f
  <2>1. f[w] = NewHelper(TRUE, NULL)
    BY <1>1, <1>2 DEF Forget
  <2>2. f = [x \in Helpers |-> f[x]]
    BY DEF Forget
  <2> HIDE DEF f
  <2>3. g = [f EXCEPT ![w] = NewHelper(TRUE, NULL)]
    BY DEF f
  <2> QED BY <2>1, <2>2, <2>3
<1> HIDE DEF f
<1>4. InStep(u, L \ D, f, (U \ S) \cup {w}, X)
  BY <1>1, <1>2, ConstructStep
<1>5. (U \ S) \cup {w} = U \ (S \ {w})
  BY <1>1
<1> QED BY <1>3, <1>4, <1>5

LEMMA ParseStep ==
  ASSUME HelperAssumption, NEW t, NEW L, NEW h, NEW U, NEW X, InStep(t, L, h, U, X),
         NEW w \in U, h[w].m_bRoot, NEW S, S = Below(Wrapped(h), w),
         NEW D, D = (IF h[w].m_pJsonData # NULL THEN Subtree(t, h[w].m_pJsonData) ELSE {}),
         NEW u, u = Freed(t, D), NEW n \in X,
         NEW g, g = [Forget(h, S) EXCEPT ![w] = NewHelper(TRUE, n)]
  PROVE  InStep(u, L \ D, g, U \ (S \ {w}), X \ {n})
<1> DEFINE f == [Forget(h, S) EXCEPT ![w] = NewHelper(TRUE, NULL)]
<1>1. InStep(u, L \ D, f, U \ (S \ {w}), X)
  BY ClearStep
<1>2. w \in Helpers
  BY DEF InStep, Typed
<1>3. f[w] = NewHelper(TRUE, NULL)
  BY <1>2 DEF Forget
<1>4. g = [f EXCEPT ![w].m_pJsonData = n]
  <2>1. [NewHelper(TRUE, NULL) EXCEPT !.m_pJsonData = n] = NewHelper(TRUE, n)
    BY NewerData
  <2>2. g = [f EXCEPT ![w] = [f[w] EXCEPT !.m_pJsonData = n]]
    BY <1>2, <1>3, <2>1 DEF Forget
  <2> HIDE DEF f
  <2> QED BY <2>2
<1>5. f[w].m_bRoot /\ f[w].m_pJsonData = NULL /\ w \in U \ (S \ {w})
  BY <1>3 DEF NewHelper
<1> HIDE DEF f
<1> QED BY <1>1, <1>4, <1>5, OwnStep

(* A call on an object that may be without data: o is what it leads to or new. *)
LEMMA BaseStep ==
  ASSUME HelperAssumption, NEW t, NEW L, NEW h, NEW U, NEW X, InStep(t, L, h, U, X),
         NEW w \in U, h[w].m_bRoot \/ h[w].m_pJsonData # NULL,
         NEW o \in Nodes, o = h[w].m_pJsonData \/ (h[w].m_pJsonData = NULL /\ o \notin L),
         NEW g, g = [h EXCEPT ![w].m_pJsonData = o]
  PROVE  InStep(t, L \cup {o}, g, U, X) /\ Moves(h, g, w, o)
<1>1. Shape(t, L, h, U, X)
  BY StepFacts
<1>2. /\ h \in [Helpers -> Objs] /\ w \in Helpers /\ NULL \notin Nodes /\ X \subseteq L
      /\ h[w].m_pJsonData \in L \cup {NULL}
  BY <1>1 DEF Shape
<1>3. Moves(h, g, w, o)
  BY <1>2, DataChange DEF Pointers
<1>4. CASE o = h[w].m_pJsonData
  <2>1. g = h
    <3>1. g[w] = [h[w] EXCEPT !.m_pJsonData = h[w].m_pJsonData] /\ h[w] \in Objs
      BY <1>2, <1>4
    <3>2. g[w] = h[w]
      BY <3>1 DEF Objs
    <3> QED BY <1>2, <1>3, <3>2 DEF Moves
  <2>2. L \cup {o} = L
    BY <1>2, <1>4
  <2> QED BY <1>3, <2>1, <2>2
<1>5. CASE h[w].m_pJsonData = NULL /\ o \notin L
  <2>1. InStep(t, L \cup {o}, h, U, X \cup {o})
    BY <1>5, CreateOne
  <2>2. o \in X \cup {o} /\ h[w].m_bRoot
    BY <1>5
  <2>3. InStep(t, L \cup {o}, g, U, (X \cup {o}) \ {o})
    BY <1>5, <2>1, <2>2, OwnStep
  <2>4. (X \cup {o}) \ {o} = X
    BY <1>2, <1>5
  <2> QED BY <1>3, <2>3, <2>4
<1> QED BY <1>4, <1>5

(* set, setIndex and append: the top of an argument is put into the place i of *)
(* what w leads to, or of a new item o.                                      *)
Sets(w, argument, o, g, i, k, v) ==
  /\ Created(argument) /\ w \in used /\ (helper[w].m_bRoot \/ helper[w].m_pJsonData # NULL)
  /\ o \in Nodes \ argument.new
  /\ o = helper[w].m_pJsonData \/ (helper[w].m_pJsonData = NULL /\ o \notin live)
  /\ g = [helper EXCEPT ![w].m_pJsonData = o] /\ Place(argument.tree, g, w, i, k, v)
  /\ v # NULL => Cached(helper, v) = {}
  /\ v \in Helpers \cup {NULL}

LEMMA SetFacts ==
  ASSUME HelperAssumption, DistinctKeys, IInv, NEW argument, NEW w, NEW o, NEW g,
         NEW i, NEW k, NEW v, Sets(w, argument, o, g, i, k, v)
  PROVE  /\ PutsIn(argument.tree, live \cup argument.new \cup {o}, g, used, {argument.top}, w,
                   i, k, v, argument.top, Gone(argument.tree, o, i),
                   Put(argument.tree, o, i, argument.top, k), Point(g, v, argument.top))
         /\ Moves(helper, g, w, o)
<1>h. /\ Created(argument) /\ w \in used /\ (helper[w].m_bRoot \/ helper[w].m_pJsonData # NULL)
      /\ o \in Nodes \ argument.new
      /\ o = helper[w].m_pJsonData \/ (helper[w].m_pJsonData = NULL /\ o \notin live)
      /\ g = [helper EXCEPT ![w].m_pJsonData = o] /\ Place(argument.tree, g, w, i, k, v)
      /\ v # NULL => Cached(helper, v) = {}
      /\ v \in Helpers \cup {NULL}
  BY DEF Sets
<1> USE <1>h
<1>1. /\ InStep(argument.tree, live \cup argument.new, helper, used, {argument.top})
      /\ argument.top \in argument.new /\ argument.new \cap live = {}
  BY DEF Created
<1>2. InStep(argument.tree, live \cup argument.new \cup {o}, g, used, {argument.top})
      /\ Moves(helper, g, w, o)
  <2>1. o = helper[w].m_pJsonData
        \/ (helper[w].m_pJsonData = NULL /\ o \notin live \cup argument.new)
    OBVIOUS
  <2> DEFINE L == live \cup argument.new
             X == {argument.top}
             t == argument.tree
  <2>2. InStep(t, L, helper, used, X)
    BY <1>1
  <2>3. o \in Nodes /\ (o = helper[w].m_pJsonData
                        \/ (helper[w].m_pJsonData = NULL /\ o \notin L))
    BY <2>1
  <2> HIDE DEF L, X, t
  <2>4. InStep(t, L \cup {o}, g, used, X) /\ Moves(helper, g, w, o)
    BY <2>2, <2>3, BaseStep
  <2> QED BY <2>4 DEF L, X, t
<1>3. g[w].m_pJsonData = o /\ \A x \in Helpers : Cached(g, x) = Cached(helper, x)
  BY <1>2 DEF Moves
<1>4. o \notin Subtree(argument.tree, argument.top)
  BY ArgumentFacts
<1>5. v # NULL => Cached(g, v) = {}
  BY <1>3
<1> QED BY <1>1, <1>2, <1>3, <1>4, <1>5 DEF PutsIn

LEMMA SetStep ==
  ASSUME HelperAssumption, DistinctKeys, IInv, NEW argument, NEW w, NEW o, NEW g,
         NEW i, NEW k, NEW v, Sets(w, argument, o, g, i, k, v)
  PROVE  InStep(Put(argument.tree, o, i, argument.top, k),
                (live \ Gone(tree, o, i)) \cup {o} \cup argument.new,
                Point(g, v, argument.top), used, {})
<1>1. o \in Nodes \ argument.new /\ Created(argument) /\ argument.new \cap live = {}
  BY DEF Sets, Created
<1>2. InStep(Put(argument.tree, o, i, argument.top, k),
             (live \cup argument.new \cup {o}) \ Gone(argument.tree, o, i),
             Point(g, v, argument.top), used, {argument.top} \ {argument.top})
  BY SetFacts, PutStep
<1>3. /\ Gone(argument.tree, o, i) = Gone(tree, o, i)
      /\ Gone(tree, o, i) \subseteq live \ {o}
  BY <1>1, ArgumentSame
<1>4. (live \cup argument.new \cup {o}) \ Gone(tree, o, i)
      = (live \ Gone(tree, o, i)) \cup {o} \cup argument.new
  BY <1>1, <1>3
<1>5. {argument.top} \ {argument.top} = {}
  OBVIOUS
<1> QED BY <1>2, <1>3, <1>4, <1>5

(* addEmptySub: the new n is put at the end of what w leads to, or of a new o. *)
Adds(w, o, n, k, g, u) ==
  /\ w \in used /\ (helper[w].m_bRoot \/ helper[w].m_pJsonData # NULL)
  /\ o \in Objects /\ n \in Nodes \ live /\ n # o
  /\ o = helper[w].m_pJsonData \/ (helper[w].m_pJsonData = NULL /\ o \notin live)
  /\ k \in Keys /\ helper[w].obj[k] = NULL
  /\ g = [helper EXCEPT ![w].m_pJsonData = o] /\ u = Put(tree, o, 0, n, k)

LEMMA AddStep ==
  ASSUME HelperAssumption, DistinctKeys, IInv,
         NEW w, NEW o, NEW n, NEW k, NEW g, NEW u, Adds(w, o, n, k, g, u)
  PROVE  /\ InStep(u, live \cup {o, n}, g, used, {}) /\ Moves(helper, g, w, o)
         /\ o \notin live => First(u, o, k) = n
<1>h. /\ w \in used /\ (helper[w].m_bRoot \/ helper[w].m_pJsonData # NULL)
      /\ o \in Objects /\ n \in Nodes \ live /\ n # o
      /\ o = helper[w].m_pJsonData \/ (helper[w].m_pJsonData = NULL /\ o \notin live)
      /\ k \in Keys /\ helper[w].obj[k] = NULL
      /\ g = [helper EXCEPT ![w].m_pJsonData = o] /\ u = Put(tree, o, 0, n, k)
  BY DEF Adds
<1> USE <1>h
<1>0. o \in Nodes
  BY DEF HelperAssumption
<1>1. /\ tree \in [Nodes -> Items] /\ Children(tree) \in [Nodes -> SUBSET Nodes]
      /\ IsForest(Children(tree), live, RootsOf(helper, used) \cup {})
  <2>1. Shape(tree, live, helper, used, {})
    BY StepFacts DEF IInv
  <2> QED BY <2>1 DEF Shape
<1>2. InStep(tree, live \cup {n}, helper, used, {n})
  <2>1. InStep(tree, live \cup {n}, helper, used, {} \cup {n})
    BY CreateOne DEF IInv
  <2>2. {} \cup {n} = {n}
    OBVIOUS
  <2> QED BY <2>1, <2>2
<1>3. InStep(tree, live \cup {n} \cup {o}, g, used, {n}) /\ Moves(helper, g, w, o)
  <2> DEFINE L == live \cup {n}
             X == {n}
  <2>1. InStep(tree, L, helper, used, X)
    BY <1>2
  <2>2. o \in Nodes /\ (o = helper[w].m_pJsonData
                        \/ (helper[w].m_pJsonData = NULL /\ o \notin L))
    BY <1>0
  <2> HIDE DEF L, X
  <2>3. InStep(tree, L \cup {o}, g, used, X) /\ Moves(helper, g, w, o)
    BY <2>1, <2>2, BaseStep
  <2> QED BY <2>3 DEF L, X
<1>4. g[w].m_pJsonData = o /\ g[w].obj = helper[w].obj
  <2>1. w \in Helpers
    BY DEF IInv, InStep, Typed
  <2> QED BY <1>3, <2>1 DEF Moves
<1>5. Subtree(tree, n) \subseteq {n}
  <2>1. Children(tree)[n] = {}
    BY <1>1 DEF IsForest
  <2> DEFINE S == {n}
  <2>2. S \in SUBSET Nodes /\ n \in S /\ \A p \in S : Children(tree)[p] \subseteq S
    BY <2>1
  <2> HIDE DEF S
  <2>3. Below(Children(tree), n) \subseteq S
    BY <1>1, <2>2, BelowFacts
  <2> QED BY <2>3 DEF Subtree, S
<1>6. Gone(tree, o, 0) = {}
  <2>1. tree[o].children \in Seq(Nodes)
    BY <1>0, <1>1, ChildrenType
  <2>2. 0 \notin DOMAIN tree[o].children
    BY <2>1
  <2> QED BY <2>2 DEF Gone
<1>7. Place(tree, g, w, 0, k, NULL)
  BY <1>4 DEF Place, KeyPlace
<1>8. InStep(u, (live \cup {n} \cup {o}) \ {}, g, used, {n} \ {n})
  <2>1. g = Point(g, NULL, n) /\ {} = Gone(tree, g[w].m_pJsonData, 0)
        /\ u = Put(tree, g[w].m_pJsonData, 0, n, k)
    BY <1>4, <1>6 DEF Point
  <2> DEFINE X == {n}
             M == live \cup {n} \cup {o}
             G == {}
  <2>2. n \in X /\ g[w].m_pJsonData \notin Subtree(tree, n)
        /\ G = Gone(tree, g[w].m_pJsonData, 0)
    BY <1>4, <1>5, <2>1
  <2>3. InStep(tree, M, g, used, X)
    BY <1>3
  <2> HIDE DEF X, M, G
  <2>4. InStep(u, M \ G, g, used, X \ {n})
    <3>1. PutsIn(tree, M, g, used, X, w, 0, k, NULL, n, G, u, g)
      BY <1>7, <2>1, <2>2, <2>3 DEF PutsIn
    <3> QED BY <3>1, PutStep
  <2> QED BY <2>4 DEF X, M, G
<1>9. (live \cup {n} \cup {o}) \ {} = live \cup {o, n} /\ {n} \ {n} = {}
  OBVIOUS
<1>10. ASSUME o \notin live PROVE First(u, o, k) = n
  <2>1. tree[o].children \in Seq(Nodes) /\ Children(tree)[o] = ToSet(tree[o].children)
    BY <1>0, <1>1, ChildrenType
  <2>2. ToSet(tree[o].children) = {}
    BY <1>0, <1>1, <1>10, <2>1 DEF IsForest
  <2>3. DOMAIN tree[o].children = {}
    BY <2>2 DEF ToSet
  <2>4. 0 = Member(tree, o, k)
    BY <2>1, <2>3, MemberFacts
  <2>5. KeysKept(tree, u, o, 0)
    BY <2>3 DEF KeysKept
  <2>6. Puts(tree, live \cup {n} \cup {o}, RootsOf(g, used) \cup {n}, o, 0, n, k, {}, u)
    <3>1. o \notin Subtree(tree, n)
      BY <1>5
    <3>2. Documents(tree, live \cup {n} \cup {o}, RootsOf(g, used) \cup {n})
      BY <1>3 DEF InStep
    <3> QED BY <1>1, <1>6, <3>1, <3>2 DEF Puts
  <2>7. Placed(tree[o].children, u[o].children, 0, n) /\ u[n].key = k
    <3>1. IsPut(tree, live \cup {n} \cup {o}, RootsOf(g, used) \cup {n}, o, 0, n, k, {}, u)
      BY <2>6, PutFacts
    <3> QED BY <3>1 DEF IsPut
  <2>8. k # NULL
    BY DEF HelperAssumption
  <2> QED BY <2>4, <2>5, <2>7, <2>8, PutSame
<1> QED BY <1>3, <1>8, <1>9, <1>10

(* What the callers must do without, they do without.                         *)
Kept == {"reference", "nested", "shift", "twice"} \subseteq Obligations

LEMMA KindFacts ==
  ASSUME HelperAssumption, IInv, NEW w \in used
  PROVE  /\ w \in Helpers /\ data(w) \in live \cup {NULL} /\ live \subseteq Nodes
         /\ isObject(w) <=> data(w) \in Objects
         /\ isArray(w) <=> data(w) \in Nodes \ (Objects \cup Values)
         /\ \A i \in Indexes : isArrayItem(w, i) <=>
              isArray(w) /\ i + 1 \in DOMAIN tree[data(w)].children
<1>1. /\ w \in Helpers /\ data(w) \in live \cup {NULL} /\ live \subseteq Nodes
      /\ tree \in [Nodes -> Items]
  BY DEF IInv, InStep, Typed, data
<1>2. isObject(w) <=> data(w) \in Objects
  <2>1. CASE data(w) \in Objects
    BY <2>1 DEF isObject, cJSON_Is, HelperAssumption
  <2>2. CASE data(w) \notin Objects
    <3>1. data(w) \in Nodes => tree[data(w)].type # "object"
      BY <1>1 DEF Items, Types
    <3> QED BY <1>1, <2>2, <3>1 DEF isObject, cJSON_Is, HelperAssumption
  <2> QED BY <2>1, <2>2
<1>3. isArray(w) <=> data(w) \in Nodes \ (Objects \cup Values)
  <2>1. data(w) \in Nodes => tree[data(w)].type # "array"
    BY <1>1 DEF Items, Types
  <2>2. data(w) # NULL <=> data(w) \in Nodes
    BY <1>1 DEF HelperAssumption
  <2> QED BY <2>1, <2>2 DEF isArray, cJSON_Is
<1>4. ASSUME NEW i \in Indexes
      PROVE isArrayItem(w, i) <=> isArray(w) /\ i + 1 \in DOMAIN tree[data(w)].children
  <2>0. i \in Int
    BY DEF HelperAssumption
  <2>1. CASE isArray(w)
    <3>1. tree[data(w)].children \in Seq(Nodes)
      BY <1>1, <1>3, <2>1, ChildrenType
    <3>2. getArraySize(w) = Len(tree[data(w)].children)
      BY <2>1 DEF getArraySize
    <3> QED BY <2>0, <2>1, <3>1, <3>2 DEF isArrayItem
  <2>2. CASE ~ isArray(w)
    BY <2>0, <2>2 DEF isArrayItem, getArraySize
  <2> QED BY <2>1, <2>2
<1> QED BY <1>1, <1>2, <1>3, <1>4

LEMMA InitIInv == ASSUME HelperAssumption, Init PROVE IInv
<1>1. /\ tree \in [Nodes -> Items] /\ \A n \in Nodes : tree[n] = NewItem
      /\ live = {} /\ used = {} /\ \A w \in Helpers : helper[w] = NewHelper(TRUE, NULL)
      /\ helper \in [Helpers -> Objs]
  <2>1. NewItem \in Items /\ NewHelper(TRUE, NULL) \in Objs
    BY NewItemType DEF NewHelper, Objs, Pointers
  <2> QED BY <2>1 DEF Init
<1>2. OwnersOf(helper, used) = {} /\ RootsOf(helper, used) = {}
  <2>1. OwnersOf(helper, used) = {}
    BY <1>1 DEF OwnersOf
  <2> QED BY <2>1 DEF RootsOf
<1>3. IsForest(Wrapped(helper), {}, {})
  <2>1. \A w \in Helpers : Wrapped(helper)[w] = {}
    <3>1. ASSUME NEW w \in Helpers PROVE Cached(helper, w) = {}
      <4>0. /\ \A k \in Keys : helper[w].obj[k] = NULL
            /\ \A i \in Indexes : helper[w].arr[i] = NULL
        BY <1>1 DEF NewHelper
      <4>1. ASSUME NEW v \in Cached(helper, w) PROVE FALSE
        <5>1. InMaps(helper, w)
          BY <1>1, CachedIs
        <5>2. v \in Helpers /\ v # NULL
          BY <5>1 DEF InMaps, HelperAssumption
        <5>3. (\E k \in Keys : v = helper[w].obj[k]) \/ \E i \in Indexes : v = helper[w].arr[i]
          BY <5>1 DEF InMaps
        <5> QED BY <4>0, <5>2, <5>3
      <4> QED BY <4>1
    <3> QED BY <1>1, <3>1, WrappedType
  <2>2. Wrapped(helper) \in [Helpers -> SUBSET Helpers]
    BY <1>1, WrappedType
  <2> QED BY <2>1, <2>2 DEF IsForest
<1>4. IsForest(Children(tree), {}, {})
  <2>1. /\ Children(tree) \in [Nodes -> SUBSET Nodes]
        /\ \A n \in Nodes : Children(tree)[n] = ToSet(tree[n].children)
    BY <1>1, ChildrenType
  <2>2. \A n \in Nodes : Children(tree)[n] = {}
    BY <1>1, <2>1, NewItemType
  <2> QED BY <2>1, <2>2 DEF IsForest
<1>5. \A n \in Nodes : IsInjective(tree[n].children)
  BY <1>1, NewItemType
<1>6. Wrapping(helper, used)
  <2>1. \A w \in Helpers : /\ \A k \in Keys : helper[w].obj[k] = NULL
                           /\ \A i \in Indexes : helper[w].arr[i] = NULL
    BY <1>1 DEF NewHelper
  <2> QED BY <1>1, <1>2, <1>3, <2>1 DEF Wrapping
<1>7. Documents(tree, live, RootsOf(helper, used) \cup {})
  BY <1>1, <1>2, <1>4, <1>5 DEF Documents
<1>8. Typed(tree, live, helper, used)
  BY <1>1 DEF Typed
<1> QED BY <1>1, <1>6, <1>7, <1>8 DEF IInv, InStep

LEMMA ConstructCall ==
  ASSUME HelperAssumption, IInv, NEW w \in Helpers, construct(w)
  PROVE  IInv'
<1>1. InStep(tree, live, helper, used \cup {w}, {})
  BY ConstructStep DEF construct, IInv
<1> QED BY <1>1 DEF IInv, construct

LEMMA DestroyCall ==
  ASSUME HelperAssumption, IInv, NEW w \in Helpers, destroy(w)
  PROVE  IInv'
<1> DEFINE D == OwnItems(w)
           S == Family(w)
<1>1. /\ w \in used /\ helper[w].m_bRoot /\ S = Below(Wrapped(helper), w)
      /\ D = (IF helper[w].m_pJsonData # NULL THEN Subtree(tree, helper[w].m_pJsonData) ELSE {})
  BY DEF destroy, OwnItems, Family, data
<1>2. /\ tree' = Freed(tree, D) /\ live' = live \ D
      /\ used' = used \ S /\ helper' = Forget(helper, S)
  BY DEF destroy
<1>3. InStep(tree, live, helper, used, {})
  BY DEF IInv
<1> HIDE DEF D, S
<1>4. InStep(tree', live \ D, helper', used \ S, {})
  BY <1>1, <1>2, <1>3, DestroyStep
<1> QED BY <1>2, <1>4 DEF IInv

LEMMA ClearCall ==
  ASSUME HelperAssumption, Kept, IInv, NEW w \in Helpers, clear(w) \/ parse(w, Failed)
  PROVE  IInv'
<1> DEFINE D == OwnItems(w)
           S == Family(w)
<1>0. w \in used /\ helper[w].m_bRoot = TRUE
  <2>1. w \in used /\ helper[w].m_bRoot
    BY DEF clear, parse, MayWrite, Obliged, Kept
  <2>2. helper[w].m_bRoot \in BOOLEAN
    BY DEF IInv, InStep, Typed, Objs
  <2> QED BY <2>1, <2>2
<1>1. /\ S = Below(Wrapped(helper), w)
      /\ D = (IF helper[w].m_pJsonData # NULL THEN Subtree(tree, helper[w].m_pJsonData) ELSE {})
  BY <1>0 DEF OwnItems, Family, data
<1>2. /\ tree' = Freed(tree, D) /\ live' = live \ D
      /\ used' = used \ (S \ {w})
      /\ helper' = [Forget(helper, S) EXCEPT ![w] = NewHelper(TRUE, NULL)]
  <2>1. CASE clear(w)
    BY <1>0, <2>1 DEF clear
  <2>2. CASE parse(w, Failed)
    BY <1>0, <2>2 DEF parse, Failed
  <2> QED BY <2>1, <2>2
<1>3. InStep(tree, live, helper, used, {})
  BY DEF IInv
<1> HIDE DEF D, S
<1>4. InStep(tree', live \ D, helper', used \ (S \ {w}), {})
  BY <1>0, <1>1, <1>2, <1>3, ClearStep
<1> QED BY <1>2, <1>4 DEF IInv

LEMMA ParseCall ==
  ASSUME HelperAssumption, Kept, IInv, NEW w \in Helpers, NEW argument \in Arguments,
         parse(w, argument)
  PROVE  IInv'
<1> DEFINE D == OwnItems(w)
           S == Family(w)
           t == argument.tree
           n == argument.top
           L == live \cup argument.new
           X == {n}
<1>0. w \in used /\ helper[w].m_bRoot = TRUE
  <2>1. w \in used /\ helper[w].m_bRoot
    BY DEF parse, MayWrite, Obliged, Kept
  <2>2. helper[w].m_bRoot \in BOOLEAN
    BY DEF IInv, InStep, Typed, Objs
  <2> QED BY <2>1, <2>2
<1>c. Created(argument)
  BY ArgumentStep
<1>1. /\ S = Below(Wrapped(helper), w) /\ D \subseteq live
      /\ D = (IF helper[w].m_pJsonData # NULL THEN Subtree(t, helper[w].m_pJsonData) ELSE {})
  <2>1. Shape(tree, live, helper, used, {})
    BY StepFacts DEF IInv
  <2>2. data(w) \in live \cup {NULL}
    BY <1>0, KindFacts
  <2>3. CASE data(w) # NULL
    <3>1. Subtree(tree, data(w)) \subseteq live
      BY <2>1, <2>2, <2>3, BelowLive DEF Shape, Subtree
    <3>2. Subtree(t, data(w)) = Subtree(tree, data(w))
      BY <1>c, <2>2, <2>3, ArgumentFacts
    <3> QED BY <1>0, <2>3, <3>1, <3>2 DEF OwnItems, Family, data
  <2>4. CASE data(w) = NULL
    BY <1>0, <2>4 DEF OwnItems, Family, data
  <2> QED BY <2>3, <2>4
<1>2. /\ tree' = Freed(t, D) /\ live' = (live \ D) \cup argument.new
      /\ used' = used \ (S \ {w})
      /\ helper' = [Forget(helper, S) EXCEPT ![w] = NewHelper(TRUE, n)]
  BY <1>0 DEF parse
<1>3. InStep(t, L, helper, used, X) /\ n \in X
  BY <1>c DEF Created
<1>4. live' = L \ D
  BY <1>1, <1>2, <1>c DEF Created
<1>6. X \ {n} = {}
  OBVIOUS
<1> HIDE DEF D, S, t, n, L, X
<1>5. InStep(tree', L \ D, helper', used \ (S \ {w}), X \ {n})
  BY <1>0, <1>1, <1>2, <1>3, ParseStep
<1> QED BY <1>2, <1>4, <1>5, <1>6 DEF IInv

LEMMA SetIn ==
  ASSUME HelperAssumption, DistinctKeys, Kept, IInv,
         NEW w \in Helpers, NEW k \in Keys, NEW argument \in Arguments, set(w, k, argument)
  PROVE  \E o \in Objects :
           /\ setCommon(w, k, argument, o)
           /\ Sets(w, argument, o, [helper EXCEPT ![w].m_pJsonData = o], Member(tree, o, k), k,
                   helper[w].obj[k])
<1>1. PICK o \in Base(w, Objects) : setCommon(w, k, argument, o)
  BY DEF set
<1> DEFINE v == helper[w].obj[k]
           i == Member(tree, o, k)
           g == [helper EXCEPT ![w].m_pJsonData = o]
<1>2. /\ w \in used /\ (helper[w].m_bRoot \/ helper[w].m_pJsonData # NULL)
      /\ v # NULL => Cached(helper, v) = {}
  BY DEF set, MayWrite, Obliged, Kept, NoNested, data
<1>3. /\ o \in Objects /\ o \in Nodes \ argument.new
      /\ (o = helper[w].m_pJsonData \/ (helper[w].m_pJsonData = NULL /\ o \notin live))
  BY <1>1 DEF setCommon, Base, data, HelperAssumption
<1>c. Created(argument)
  BY ArgumentStep
<1>4. Shape(tree, live, helper, used, {})
  BY StepFacts DEF IInv
<1>5. v \in Helpers \cup {NULL} /\ helper \in [Helpers -> Objs]
  BY <1>4 DEF Shape, Objs
<1>6. g[w].m_pJsonData = o /\ g[w].obj = helper[w].obj
  <2>1. Moves(helper, g, w, o)
    BY <1>3, <1>5, DataChange DEF Pointers
  <2> QED BY <2>1 DEF Moves
<1>7. Place(argument.tree, g, w, i, k, v)
  <2>1. i = Member(argument.tree, o, k)
    BY <1>3, <1>c, ArgumentSame
  <2> HIDE DEF g, i
  <2> QED BY <1>3, <1>6, <2>1 DEF Place, KeyPlace
<1>8. Sets(w, argument, o, g, i, k, v)
  <2>1. g = [helper EXCEPT ![w].m_pJsonData = o]
    OBVIOUS
  <2> HIDE DEF g, i, v
  <2> QED BY <1>2, <1>3, <1>5, <1>7, <1>c, <2>1 DEF Sets
<1> QED BY <1>1, <1>3, <1>8

LEMMA SetCall ==
  ASSUME HelperAssumption, DistinctKeys, Kept, IInv,
         NEW w \in Helpers, NEW k \in Keys, NEW argument \in Arguments, set(w, k, argument)
  PROVE  IInv'
<1>1. PICK o \in Objects :
        /\ setCommon(w, k, argument, o)
        /\ Sets(w, argument, o, [helper EXCEPT ![w].m_pJsonData = o], Member(tree, o, k), k,
                helper[w].obj[k])
  BY SetIn
<1> DEFINE i == Member(tree, o, k)
<1>2. InStep(Put(argument.tree, o, i, argument.top, k),
             (live \ Gone(tree, o, i)) \cup {o} \cup argument.new,
             Point([helper EXCEPT ![w].m_pJsonData = o], helper[w].obj[k], argument.top), used, {})
  BY <1>1, SetStep
<1> QED BY <1>1, <1>2 DEF IInv, setCommon

LEMMA AddCall ==
  ASSUME HelperAssumption, DistinctKeys, Kept, IInv,
         NEW w \in Helpers, NEW k \in Keys, NEW n \in Nodes, addEmptySub(w, k, n)
  PROVE  IInv'
<1>1. PICK o \in Base(w, Objects) \ {n} :
        /\ o \in Objects /\ tree' = Put(tree, o, 0, n, k)
        /\ live' = live \cup {o, n} /\ helper' = [helper EXCEPT ![w].m_pJsonData = o]
  BY DEF addEmptySub
<1>2. /\ w \in used /\ (helper[w].m_bRoot \/ helper[w].m_pJsonData # NULL)
      /\ helper[w].obj[k] = NULL /\ n \in Nodes \ live /\ used' = used
  BY DEF addEmptySub, MayWrite, Obliged, Kept, data
<1>3. n # o /\ (o = helper[w].m_pJsonData \/ (helper[w].m_pJsonData = NULL /\ o \notin live))
  BY <1>1 DEF Base, data
<1>4. InStep(tree', live \cup {o, n}, helper', used, {})
  <2>1. Adds(w, o, n, k, helper', tree')
    BY <1>1, <1>2, <1>3 DEF Adds
  <2> QED BY <2>1, AddStep
<1> QED BY <1>1, <1>2, <1>4 DEF IInv

LEMMA LookupKeyCall ==
  ASSUME HelperAssumption, DistinctKeys, Kept, IInv,
         NEW w \in Helpers, NEW k \in Keys, NEW v \in Helpers, lookupKey(w, k, v)
  PROVE  IInv'
<1>1. /\ w \in used /\ helper[w].obj[k] = NULL /\ v \in Helpers \ used
      /\ used' = used \cup {v}
  BY DEF lookupKey
<1>2. /\ helper \in [Helpers -> Objs] /\ InStep(tree, live, helper, used, {})
  BY DEF IInv, InStep, Typed
<1>3. CASE data(w) = NULL
  <2>1. PICK o, n \in Objects \ live :
          /\ o # n /\ tree' = Put(tree, o, 0, n, k) /\ live' = live \cup {o, n}
          /\ helper' = [helper EXCEPT ![w].m_pJsonData = o, ![w].obj[k] = v,
                                      ![v] = NewHelper(FALSE, n)]
    BY <1>3 DEF lookupKey
  <2>2. /\ helper[w].m_bRoot \/ helper[w].m_pJsonData # NULL
        /\ o \in Objects /\ n \in Nodes \ live /\ n # o
        /\ helper[w].m_pJsonData = NULL /\ o \notin live
    BY <1>3, <2>1 DEF lookupKey, MayWrite, Obliged, Kept, data, HelperAssumption
  <2> DEFINE g == [helper EXCEPT ![w].m_pJsonData = o]
  <2>3. /\ InStep(tree', live', g, used, {}) /\ Moves(helper, g, w, o)
        /\ First(tree', o, k) = n
    <3>1. g = [helper EXCEPT ![w].m_pJsonData = o]
      OBVIOUS
    <3> HIDE DEF g
    <3>2. /\ InStep(tree', live \cup {o, n}, g, used, {}) /\ Moves(helper, g, w, o)
          /\ o \notin live => First(tree', o, k) = n
      <4>1. o = helper[w].m_pJsonData \/ (helper[w].m_pJsonData = NULL /\ o \notin live)
        BY <2>2
      <4>2. tree' = Put(tree, o, 0, n, k) /\ n # o /\ n \in Nodes \ live
        BY <2>1, <2>2
      <4>3. Adds(w, o, n, k, g, tree')
        BY <1>1, <2>2, <3>1, <4>1, <4>2 DEF Adds
      <4> QED BY <4>3, AddStep
    <3> QED BY <2>1, <2>2, <3>2
  <2>4. helper' = [g EXCEPT ![w].obj[k] = v, ![v] = NewHelper(FALSE, n)]
    BY <2>1
  <2> HIDE DEF g
  <2>5. g[w].m_pJsonData = o /\ g[w].obj[k] = NULL
    BY <1>1, <2>3 DEF Moves
  <2>6. Wraps(tree', g, helper', w, v, n)
    <3>1. WrapsKey(tree', g, helper', w, v, n, k)
      BY <2>2, <2>3, <2>4, <2>5 DEF WrapsKey
    <3> QED BY <3>1 DEF Wraps
  <2>7. InStep(tree', live', helper', used \cup {v}, {})
    BY <1>1, <2>3, <2>6, WrapStep
  <2> QED BY <1>1, <2>7 DEF IInv
<1>4. CASE data(w) # NULL
  <2> DEFINE c == KeyItem(w, k)
  <2>1. /\ helper' = [helper EXCEPT ![w].obj[k] = v, ![v] = NewHelper(FALSE, c)]
        /\ isObject(w) /\ tree' = tree /\ live' = live
    BY <1>4 DEF lookupKey
  <2>2. helper[w].m_pJsonData \in Objects /\ c = First(tree, helper[w].m_pJsonData, k)
    BY <1>1, <2>1, KindFacts DEF data, KeyItem, First
  <2> HIDE DEF c
  <2>3. Wraps(tree, helper, helper', w, v, c)
    <3>1. WrapsKey(tree, helper, helper', w, v, c, k)
      BY <1>1, <2>1, <2>2 DEF WrapsKey
    <3> QED BY <3>1 DEF Wraps
  <2>4. InStep(tree, live, helper', used \cup {v}, {})
    BY <1>1, <1>2, <2>3, WrapStep
  <2> QED BY <1>1, <2>1, <2>4 DEF IInv
<1> QED BY <1>3, <1>4

LEMMA DelCall ==
  ASSUME HelperAssumption, DistinctKeys, Kept, IInv,
         NEW w \in Helpers, NEW k \in Keys, del(w, k)
  PROVE  IInv'
<1> DEFINE a == data(w)
           i == Member(tree, a, k)
           v == helper[w].obj[k]
           S == IF v = NULL THEN {} ELSE Family(v)
           f == Forget(helper, S)
<1>1. /\ tree' = Cut(tree, a, i) /\ live' = live \ Gone(tree, a, i)
      /\ helper' = [f EXCEPT ![w].obj[k] = NULL] /\ used' = used \ S
      /\ w \in used /\ isObject(w)
  BY DEF del, MayWrite
<1>2. a = helper[w].m_pJsonData /\ a \in Objects
  BY <1>1, KindFacts DEF data
<1>3. /\ S = (IF v = NULL THEN {} ELSE Below(Wrapped(helper), v))
      /\ f = Forget(helper, S) /\ v = helper[w].obj[k] /\ i = Member(tree, a, k)
  BY DEF Family
<1>4. InStep(tree, live, helper, used, {})
  BY DEF IInv
<1> HIDE DEF a, i, v, S, f
<1>5. Unwraps(tree, helper, f, helper', w, i, k, v)
  BY <1>1, <1>2, <1>3 DEF Unwraps, UnwrapsKey
<1>6. InStep(tree', live', helper', used', {})
  <2> DEFINE G == Gone(tree, a, i)
  <2>1. /\ G = Gone(tree, helper[w].m_pJsonData, i)
        /\ tree' = Cut(tree, helper[w].m_pJsonData, i) /\ live' = live \ G
    BY <1>1, <1>2
  <2> HIDE DEF G
  <2>2. InStep(tree', live \ G, helper', used \ S, {})
    <3>1. Cuts(tree, live, helper, used, {}, w, i, k, v, S, f, helper', G, tree')
      BY <1>1, <1>3, <1>4, <1>5, <2>1 DEF Cuts
    <3> QED BY <3>1, CutStep
  <2> QED BY <1>1, <2>1, <2>2
<1> QED BY <1>6 DEF IInv

LEMMA LookupIndexCall ==
  ASSUME HelperAssumption, DistinctKeys, Kept, IInv,
         NEW w \in Helpers, NEW i \in Indexes, NEW v \in Helpers, lookupIndex(w, i, v)
  PROVE  IInv'
<1>1. w \in used /\ helper[w].arr[i] = NULL /\ tree' = tree
  BY DEF lookupIndex
<1>2. InStep(tree, live, helper, used, {})
  BY DEF IInv
<1>3. CASE data(w) = NULL
  <2>1. PICK a \in Nodes \ (Objects \cup Values \cup live) :
          live' = live \cup {a} /\ helper' = [helper EXCEPT ![w].m_pJsonData = a]
    BY <1>3 DEF lookupIndex
  <2>2. /\ helper[w].m_bRoot \/ helper[w].m_pJsonData # NULL
        /\ helper[w].m_pJsonData = NULL /\ used' = used /\ a \in Nodes \ live
    BY <1>3, <2>1 DEF lookupIndex, MayWrite, Obliged, Kept, data
  <2>3. InStep(tree, live \cup {a}, helper', used, {})
    BY <1>1, <1>2, <2>1, <2>2, BaseStep
  <2> QED BY <1>1, <2>1, <2>2, <2>3 DEF IInv
<1>4. CASE data(w) # NULL
  <2> DEFINE c == IndexItem(w, i)
  <2>1. /\ helper' = [helper EXCEPT ![w].arr[i] = v, ![v] = NewHelper(FALSE, c)]
        /\ isArrayItem(w, i) /\ live' = live /\ v \in Helpers \ used /\ used' = used \cup {v}
    BY <1>4 DEF lookupIndex
  <2>2. /\ helper[w].m_pJsonData \in Nodes \ (Objects \cup Values)
        /\ i + 1 \in DOMAIN tree[helper[w].m_pJsonData].children
        /\ c = tree[helper[w].m_pJsonData].children[i + 1]
    BY <1>1, <2>1, KindFacts DEF data, IndexItem, ItemAt
  <2> HIDE DEF c
  <2>3. Wraps(tree, helper, helper', w, v, c)
    <3>1. WrapsIndex(tree, helper, helper', w, v, c, i)
      BY <1>1, <2>1, <2>2 DEF WrapsIndex
    <3> QED BY <3>1 DEF Wraps
  <2>4. InStep(tree, live, helper', used \cup {v}, {})
    BY <1>1, <1>2, <2>1, <2>3, WrapStep
  <2> QED BY <1>1, <2>1, <2>4 DEF IInv
<1> QED BY <1>3, <1>4

(* The calls on an array of which w keeps or gets an item.                     *)
LEMMA ArrayIn ==
  ASSUME HelperAssumption, DistinctKeys, IInv,
         NEW w \in used, NEW argument \in Arguments, isArray(w),
         NEW i, NEW v, v \in Helpers \cup {NULL}, IndexPlace(tree, helper, w, i, v),
         v # NULL => Cached(helper, v) = {}
  PROVE  Sets(w, argument, data(w), helper, i, NULL, v)
<1> DEFINE a == data(w)
<1>1. /\ a = helper[w].m_pJsonData /\ a \in Nodes \ (Objects \cup Values) /\ a \in live
      /\ w \in Helpers /\ live \subseteq Nodes /\ a # NULL
  BY KindFacts DEF data, HelperAssumption
<1>c. Created(argument)
  BY ArgumentStep
<1>2. a \in Nodes \ argument.new
  BY <1>1, <1>c DEF Created
<1>3. argument.tree[a] = tree[a] /\ Gone(tree, a, i) \subseteq live \ {a}
  BY <1>2, <1>c, ArgumentSame
<1>4. helper \in [Helpers -> Objs]
  BY DEF IInv, InStep, Typed
<1>5. helper = [helper EXCEPT ![w].m_pJsonData = a]
  <2>1. [helper[w] EXCEPT !.m_pJsonData = helper[w].m_pJsonData] = helper[w]
    <3>1. helper[w] \in Objs
      BY <1>1, <1>4
    <3> QED BY <3>1 DEF Objs
  <2> QED BY <1>1, <1>4, <2>1
<1> HIDE DEF a
<1>6. Place(argument.tree, helper, w, i, NULL, v)
  <2>1. IndexPlace(argument.tree, helper, w, i, v)
    BY <1>1, <1>3 DEF IndexPlace
  <2> QED BY <2>1 DEF Place
<1> QED BY <1>1, <1>2, <1>5, <1>6, <1>c DEF Sets, a

LEMMA ArrayCall ==
  ASSUME HelperAssumption, DistinctKeys, IInv,
         NEW w \in used, NEW argument \in Arguments, isArray(w),
         NEW i, NEW v, v \in Helpers \cup {NULL}, IndexPlace(tree, helper, w, i, v),
         v # NULL => Cached(helper, v) = {},
         tree' = Put(argument.tree, data(w), i, argument.top, NULL),
         live' = (live \ Gone(tree, data(w), i)) \cup argument.new,
         helper' = Point(helper, v, argument.top), used' = used
  PROVE  IInv'
<1> DEFINE a == data(w)
<1>1. a \in live /\ live \subseteq Nodes
  BY KindFacts DEF data, HelperAssumption
<1>c. Created(argument)
  BY ArgumentStep
<1>2. a \in Nodes \ argument.new
  BY <1>1, <1>c DEF Created
<1>3. Gone(tree, a, i) \subseteq live \ {a}
  BY <1>2, <1>c, ArgumentSame
<1> HIDE DEF a
<1>7. InStep(Put(argument.tree, a, i, argument.top, NULL),
             (live \ Gone(tree, a, i)) \cup {a} \cup argument.new,
             Point(helper, v, argument.top), used, {})
  BY ArrayIn, SetStep DEF a
<1>8. (live \ Gone(tree, a, i)) \cup {a} \cup argument.new
      = (live \ Gone(tree, a, i)) \cup argument.new
  BY <1>1, <1>3
<1> QED BY <1>7, <1>8 DEF IInv, a

LEMMA SetIndexCall ==
  ASSUME HelperAssumption, DistinctKeys, Kept, IInv,
         NEW w \in Helpers, NEW i \in Indexes, NEW argument \in Arguments,
         setIndex(w, i, argument)
  PROVE  IInv'
<1> DEFINE v == helper[w].arr[i]
<1>1. /\ w \in used /\ isArrayItem(w, i)
      /\ v # NULL => Cached(helper, v) = {}
  BY DEF setIndex, MayWrite, Obliged, Kept, NoNested
<1>2. /\ tree' = Put(argument.tree, data(w), i + 1, argument.top, NULL)
      /\ live' = (live \ Gone(tree, data(w), i + 1)) \cup argument.new
      /\ helper' = Point(helper, v, argument.top) /\ used' = used
  BY DEF setIndex, setCommonIndex
<1>3. /\ isArray(w) /\ data(w) \in Nodes \ (Objects \cup Values)
      /\ i + 1 \in DOMAIN tree[data(w)].children
  BY <1>1, KindFacts
<1>4. v \in Helpers \cup {NULL}
  BY DEF IInv, InStep, Typed, Objs
<1>5. IndexPlace(tree, helper, w, i + 1, v)
  BY <1>3 DEF IndexPlace, data
<1> HIDE DEF v
<1> QED BY <1>1, <1>2, <1>3, <1>4, <1>5, ArrayCall

LEMMA AppendCall ==
  ASSUME HelperAssumption, DistinctKeys, Kept, IInv,
         NEW w \in Helpers, NEW argument \in Arguments, append(w, argument)
  PROVE  IInv'
<1>1. /\ w \in used /\ isArray(w) /\ live' = live \cup argument.new /\ used' = used
      /\ tree' = Put(argument.tree, data(w), 0, argument.top, NULL) /\ helper' = helper
  BY DEF append, appendCommon, MayWrite
<1>2. data(w) \in Nodes \ (Objects \cup Values) /\ data(w) \in Nodes
  BY <1>1, KindFacts
<1>3. Gone(tree, data(w), 0) = {}
  <2>1. tree \in [Nodes -> Items]
    BY DEF IInv, InStep, Typed
  <2>2. tree[data(w)].children \in Seq(Nodes)
    BY <1>2, <2>1, ChildrenType
  <2>3. 0 \notin DOMAIN tree[data(w)].children
    BY <2>2
  <2> QED BY <2>3 DEF Gone
<1>4. helper' = Point(helper, NULL, argument.top) /\ IndexPlace(tree, helper, w, 0, NULL)
  BY <1>1, <1>2 DEF Point, IndexPlace, data
<1>5. live' = (live \ Gone(tree, data(w), 0)) \cup argument.new
  BY <1>1, <1>3
<1> QED BY <1>1, <1>4, <1>5, ArrayCall

LEMMA DelIndexCall ==
  ASSUME HelperAssumption, DistinctKeys, Kept, IInv,
         NEW w \in Helpers, NEW i \in Indexes, delIndex(w, i)
  PROVE  IInv'
<1> DEFINE a == data(w)
           v == helper[w].arr[i]
           S == IF v = NULL THEN {} ELSE Family(v)
           f == Forget(helper, S)
<1>1. /\ tree' = Cut(tree, a, i + 1) /\ live' = live \ Gone(tree, a, i + 1)
      /\ helper' = [f EXCEPT ![w].arr[i] = NULL] /\ used' = used \ S
      /\ w \in used /\ isArrayItem(w, i)
      /\ \A j \in Indexes : j > i => helper[w].arr[j] = NULL
  BY DEF delIndex, MayWrite, Obliged, Kept
<1>2. /\ a = helper[w].m_pJsonData /\ a \in Nodes \ (Objects \cup Values)
      /\ i + 1 \in DOMAIN tree[a].children
  BY <1>1, KindFacts DEF data
<1>3. /\ S = (IF v = NULL THEN {} ELSE Below(Wrapped(helper), v))
      /\ f = Forget(helper, S) /\ v = helper[w].arr[i]
  BY DEF Family
<1>4. InStep(tree, live, helper, used, {})
  BY DEF IInv
<1> HIDE DEF a, v, S, f
<1> DEFINE m == i + 1
<1>5. Unwraps(tree, helper, f, helper', w, m, NULL, v)
  BY <1>1, <1>2, <1>3 DEF Unwraps, UnwrapsIndex
<1>6. InStep(tree', live', helper', used', {})
  <2> DEFINE G == Gone(tree, a, m)
  <2>1. /\ G = Gone(tree, helper[w].m_pJsonData, m)
        /\ tree' = Cut(tree, helper[w].m_pJsonData, m) /\ live' = live \ G
    BY <1>1, <1>2
  <2> HIDE DEF G, m
  <2>2. InStep(tree', live \ G, helper', used \ S, {})
    <3>1. Cuts(tree, live, helper, used, {}, w, m, NULL, v, S, f, helper', G, tree')
      BY <1>1, <1>3, <1>4, <1>5, <2>1 DEF Cuts
    <3> QED BY <3>1, CutStep
  <2> QED BY <1>1, <2>1, <2>2
<1> QED BY <1>6 DEF IInv

-----------------------------------------------------------------------------
(* The theorems                                                              *)

LEMMA NextIInv ==
  ASSUME HelperAssumption, DistinctKeys, Kept, IInv, [Next]_vars
  PROVE  IInv'
<1>1. CASE UNCHANGED vars
  BY <1>1 DEF vars, IInv
<1>2. ASSUME NEW w \in Helpers, construct(w) \/ destroy(w) \/ clear(w) \/ parse(w, Failed)
      PROVE  IInv'
  BY <1>2, ConstructCall, DestroyCall, ClearCall
<1>3. ASSUME NEW w \in Helpers, NEW argument \in Arguments,
             parse(w, argument) \/ append(w, argument)
      PROVE  IInv'
  BY <1>3, ParseCall, AppendCall
<1>4. ASSUME NEW w \in Helpers, NEW k \in Keys,
             \/ \E argument \in Arguments : set(w, k, argument)
             \/ \E n \in Nodes : addEmptySub(w, k, n)
             \/ \E v \in Helpers : lookupKey(w, k, v)
             \/ del(w, k)
      PROVE  IInv'
  BY <1>4, SetCall, AddCall, LookupKeyCall, DelCall
<1>5. ASSUME NEW w \in Helpers, NEW i \in Indexes,
             \/ \E argument \in Arguments : setIndex(w, i, argument)
             \/ \E v \in Helpers : lookupIndex(w, i, v)
             \/ delIndex(w, i)
      PROVE  IInv'
  BY <1>5, SetIndexCall, LookupIndexCall, DelIndexCall
<1>6. CASE Next
  BY <1>2, <1>3, <1>4, <1>5, <1>6 DEF Next
<1> QED BY <1>1, <1>6

LEMMA CurrentItems ==
  ASSUME HelperAssumption, IInv
  PROVE  WrappersCurrent
<1> SUFFICES ASSUME NEW w \in used
             PROVE  /\ data(w) \in live \cup {NULL}
                    /\ \A k \in Keys : helper[w].obj[k] # NULL => /\ isObject(w)
                         /\ data(helper[w].obj[k]) = KeyItem(w, k)
                    /\ \A i \in Indexes : helper[w].arr[i] # NULL => /\ isArrayItem(w, i)
                         /\ data(helper[w].arr[i]) = IndexItem(w, i)
  BY DEF WrappersCurrent
<1>1. Current(tree, helper, w)
  BY DEF IInv, InStep
<1>2. ASSUME NEW k \in Keys, helper[w].obj[k] # NULL
      PROVE  isObject(w) /\ data(helper[w].obj[k]) = KeyItem(w, k)
  BY <1>1, <1>2, KindFacts DEF Current, data, KeyItem, First
<1>3. ASSUME NEW i \in Indexes, helper[w].arr[i] # NULL
      PROVE  isArrayItem(w, i) /\ data(helper[w].arr[i]) = IndexItem(w, i)
  <2>1. /\ data(w) \in Nodes \ (Objects \cup Values) /\ i + 1 \in DOMAIN tree[data(w)].children
        /\ data(helper[w].arr[i]) = tree[data(w)].children[i + 1]
    BY <1>1, <1>3 DEF Current, data
  <2> QED BY <2>1, KindFacts DEF IndexItem, ItemAt
<1> QED BY <1>2, <1>3, KindFacts

LEMMA OwnersDiffer ==
  ASSUME HelperAssumption, IInv
  PROVE  OneOwner
<1>s. Shape(tree, live, helper, used, {})
  BY StepFacts DEF IInv
<1> DEFINE R == RootsOf(helper, used)
           next == Children(tree)
<1>1. /\ next \in [Nodes -> SUBSET Nodes] /\ IsForest(next, live, R) /\ NULL \notin Nodes
      /\ live \subseteq Nodes /\ R \subseteq live /\ helper \in [Helpers -> Objs]
      /\ \A u, w \in used :
           helper[u].m_pJsonData = helper[w].m_pJsonData => helper[u].m_pJsonData = NULL \/ u = w
  <2>1. R \cup {} = R
    OBVIOUS
  <2> QED BY <1>s, <2>1 DEF Shape
<1>2. Owners = OwnersOf(helper, used) /\ R = {data(w) : w \in Owners} \ {NULL}
  BY DEF Owners, OwnersOf, RootsOf, data
<1> HIDE DEF R, next
<1>3. ASSUME NEW n \in live PROVE \E w \in Owners : Owning(n) = {w}
  <2>1. PICK r \in R : n \in Below(next, r)
    BY <1>1 DEF IsForest
  <2>2. PICK w \in Owners : data(w) = r /\ r # NULL
    BY <1>2, <2>1
  <2>3. w \in Owning(n)
    BY <2>1, <2>2 DEF Owning, Subtree, next
  <2>4. ASSUME NEW u \in Owning(n) PROVE u = w
    <3>1. u \in Owners /\ data(u) \in R /\ n \in Below(next, data(u))
      BY <1>2 DEF Owning, Subtree, next
    <3>2. data(u) = r
      BY <1>1, <2>1, <3>1, TreesDisjoint
    <3> QED BY <1>1, <2>2, <3>1, <3>2 DEF Owners, data
  <2> QED BY <2>3, <2>4
<1>4. ASSUME NEW v \in used PROVE \E w \in Owners : {u \in Owners : v \in Family(u)} = {w}
  <2>1. /\ Wrapped(helper) \in [Helpers -> SUBSET Helpers]
        /\ IsForest(Wrapped(helper), used, Owners)
    BY <1>1, <1>2, <1>s, WrappedType DEF Shape, Wrapping
  <2>2. PICK w \in Owners : v \in Family(w)
    BY <2>1 DEF IsForest, Family
  <2>3. ASSUME NEW u \in Owners, v \in Family(u) PROVE u = w
    BY <2>1, <2>2, <2>3, TreesDisjoint DEF Family
  <2> QED BY <2>2, <2>3
<1> QED BY <1>3, <1>4 DEF OneOwner

(* The invariant holds if the callers keep the four obligations and use no    *)
(* two keys that differ in case only.                                        *)
THEOREM InStepInvariant ==
  ASSUME DistinctKeys, Kept
  PROVE  Spec => []IInv
<1>1. Init => IInv
  BY HelperAssumption, InitIInv
<1>2. IInv /\ [Next]_vars => IInv'
  BY HelperAssumption, NextIInv
<1> QED BY <1>1, <1>2, PTL DEF Spec

(* No wrapper leads to freed memory, and each wrapper a map has is that of the *)
(* item that is there now: with any number of objects, items and maps.       *)
THEOREM NoStaleWrapper ==
  ASSUME DistinctKeys, Kept
  PROVE  Spec => []WrappersCurrent
<1>1. Spec => []IInv
  BY InStepInvariant
<1>2. IInv => WrappersCurrent
  BY HelperAssumption, CurrentItems
<1> QED BY <1>1, <1>2, PTL

(* Every item and every wrapper is deleted by exactly one object of the        *)
(* caller: no leak, no sharing, no second free.                              *)
THEOREM OneOwnerEach ==
  ASSUME DistinctKeys, Kept
  PROVE  Spec => []OneOwner
<1>1. Spec => []IInv
  BY InStepInvariant
<1>2. IInv => OneOwner
  BY HelperAssumption, OwnersDiffer
<1> QED BY <1>1, <1>2, PTL

-----------------------------------------------------------------------------
(* What a call wrote                                                         *)

LEMMA PutReads ==
  ASSUME HelperAssumption, DistinctKeys,
         NEW t, NEW L, NEW h, NEW U, NEW X, NEW w, NEW i, NEW k, NEW v, NEW n,
         NEW G, NEW u, NEW g, PutsIn(t, L, h, U, X, w, i, k, v, n, G, u, g)
  PROVE  LET a == h[w].m_pJsonData IN
         /\ u[n].type = t[n].type /\ Placed(t[a].children, u[a].children, i, n)
         /\ k # NULL /\ i = Member(t, a, k) => First(u, a, k) = n
         /\ g[w].m_pJsonData = a
<1>h. /\ InStep(t, L, h, U, X) /\ w \in U /\ Place(t, h, w, i, k, v) /\ n \in X
      /\ h[w].m_pJsonData \notin Subtree(t, n)
      /\ G = Gone(t, h[w].m_pJsonData, i)
      /\ u = Put(t, h[w].m_pJsonData, i, n, k) /\ g = Point(h, v, n)
  BY DEF PutsIn
<1>s. Shape(t, L, h, U, X)
  BY <1>h, StepFacts
<1> DEFINE a == h[w].m_pJsonData
           s == t[a].children
           R == RootsOf(h, U) \cup X
<1>0. /\ t \in [Nodes -> Items] /\ L \subseteq Nodes /\ h \in [Helpers -> Objs]
      /\ n \in L /\ n \in Pointers /\ Wrapping(h, U) /\ IsForest(Children(t), L, R)
      /\ \A m \in Nodes : n \notin Children(t)[m] /\ IsInjective(t[m].children)
  BY <1>s, <1>h DEF Shape, Pointers
<1>v. /\ v \in Helpers \cup {NULL} /\ a \in L /\ a \in Nodes /\ w \in Helpers
      /\ v # NULL => v \in Cached(h, w)
  BY <1>h, PlaceFacts
<1>2. IsPut(t, L, R, a, i, n, k, G, u)
  <2>1. k \in Keys \cup {NULL}
    BY <1>h DEF Place, KeyPlace
  <2>2. Documents(t, L, R)
    BY <1>h DEF InStep
  <2>3. Puts(t, L, R, a, i, n, k, G, u)
    BY <1>0, <1>h, <1>v, <2>1, <2>2 DEF Puts
  <2> HIDE DEF R, a
  <2> QED BY <2>3, PutFacts
<1>4. /\ n \notin G /\ a \notin G /\ n # a
      /\ Placed(s, u[a].children, i, n)
      /\ \A m \in Nodes \ (G \cup {a, n}) : u[m] = t[m]
      /\ u[a].key = t[a].key /\ u[n].key = k /\ u[n].type = t[n].type
  BY <1>2 DEF IsPut
<1>5. KeysKept(t, u, a, i)
  <2>1. /\ s \in Seq(Nodes) /\ Children(t)[a] = ToSet(s)
        /\ \A j \in DOMAIN s : s[j] \in ToSet(s) /\ s[j] \in Nodes
    BY <1>0, <1>v, ChildrenType DEF ToSet
  <2>2. \A m \in L \ G, c \in G : c \in Children(t)[m] => m = a /\ c \in Dropped(t, a, i)
    <3> HIDE DEF a, R
    <3>1. a \in L /\ G = Gone(t, a, i)
      BY <1>h, <1>v DEF a
    <3> QED BY <1>0, <3>1, GoneFacts
  <2>3. ASSUME NEW j \in DOMAIN s, j # i PROVE u[s[j]].key = t[s[j]].key
    <3>1. s[j] # n /\ s[j] \in Nodes /\ s[j] \in Children(t)[a]
      BY <1>0, <1>v, <2>1
    <3>2. s[j] \notin G
      <4>1. ASSUME s[j] \in Dropped(t, a, i) PROVE FALSE
        <5>1. i \in DOMAIN s /\ s[j] = s[i]
          BY <4>1 DEF Dropped
        <5> QED BY <1>0, <1>v, <2>3, <5>1 DEF IsInjective
      <4> QED BY <1>4, <1>v, <2>2, <3>1, <4>1
    <3> QED BY <1>4, <3>1, <3>2
  <2> QED BY <2>3 DEF KeysKept
<1>6. k # NULL /\ i = Member(t, a, k) => First(u, a, k) = n
  BY <1>4, <1>5, PutSame
<1>7. g[w].m_pJsonData = a
  <2>1. IF v = NULL THEN g = h ELSE Moves(h, g, v, n)
    BY <1>0, <1>h, <1>v, PointFacts
  <2>2. CASE v # NULL
    <3>1. v # w
      <4>1. w \notin Below(Wrapped(h), v) /\ v \in Below(Wrapped(h), v)
        BY <1>0, <1>h, <1>v, <2>2, FamilyOfWrapper
      <4> QED BY <4>1
    <3> QED BY <1>v, <2>1, <2>2, <3>1 DEF Moves
  <2> QED BY <2>1, <2>2
<1> QED BY <1>4, <1>6, <1>7

(* The name and the arguments of the call, that of the writing ones.           *)
LEMMA CallName ==
  ASSUME Next
  PROVE  \/ call'[1] \notin {"set", "setIndex", "append"}
         \/ \E w \in Helpers, k \in Keys, argument \in Arguments :
              set(w, k, argument) /\ call' = <<"set", w, k, argument.of>>
         \/ \E w \in Helpers, i \in Indexes, argument \in Arguments :
              setIndex(w, i, argument) /\ call' = <<"setIndex", w, i, argument.of>>
         \/ \E w \in Helpers, argument \in Arguments :
              append(w, argument) /\ call' = <<"append", w, argument.of>>
<1>1. ASSUME NEW w \in Helpers, construct(w) \/ destroy(w) \/ clear(w)
      PROVE  call'[1] \notin {"set", "setIndex", "append"}
  BY <1>1 DEF construct, destroy, clear
<1>2. ASSUME NEW w \in Helpers, NEW argument, parse(w, argument)
      PROVE  call'[1] \notin {"set", "setIndex", "append"}
  BY <1>2 DEF parse
<1>3. ASSUME NEW w \in Helpers, NEW k \in Keys, NEW v,
             addEmptySub(w, k, v) \/ lookupKey(w, k, v) \/ del(w, k)
      PROVE  call'[1] \notin {"set", "setIndex", "append"}
  <2>1. \/ call' = <<"addEmptySub", w, k>> \/ call' = <<"lookup", w, k>>
        \/ call' = <<"del", w, k>>
    <3>1. addEmptySub(w, k, v) => call' = <<"addEmptySub", w, k>>
      BY DEF addEmptySub
    <3>2. lookupKey(w, k, v) => call' = <<"lookup", w, k>>
      BY DEF lookupKey
    <3>3. del(w, k) => call' = <<"del", w, k>>
      BY DEF del
    <3> QED BY <1>3, <3>1, <3>2, <3>3
  <2> QED BY <2>1
<1>4. ASSUME NEW w \in Helpers, NEW i \in Indexes, NEW v,
             lookupIndex(w, i, v) \/ delIndex(w, i)
      PROVE  call'[1] \notin {"set", "setIndex", "append"}
  <2>1. call' = <<"lookupIndex", w, i>> \/ call' = <<"delIndex", w, i>>
    <3>1. lookupIndex(w, i, v) => call' = <<"lookupIndex", w, i>>
      BY DEF lookupIndex
    <3>2. delIndex(w, i) => call' = <<"delIndex", w, i>>
      BY DEF delIndex
    <3> QED BY <1>4, <3>1, <3>2
  <2> QED BY <2>1
<1>5. ASSUME NEW w \in Helpers, NEW k \in Keys, NEW argument, set(w, k, argument)
      PROVE  call' = <<"set", w, k, argument.of>>
  BY <1>5 DEF set
<1>6. ASSUME NEW w \in Helpers, NEW i \in Indexes, NEW argument, setIndex(w, i, argument)
      PROVE  call' = <<"setIndex", w, i, argument.of>>
  BY <1>6 DEF setIndex
<1>7. ASSUME NEW w \in Helpers, NEW argument, append(w, argument)
      PROVE  call' = <<"append", w, argument.of>>
  BY <1>7 DEF append
<1> QED BY <1>1, <1>2, <1>3, <1>4, <1>5, <1>6, <1>7 DEF Next

(* An argument that is named for the type of a value is a new item of it.      *)
LEMMA ValueArgument ==
  ASSUME HelperAssumption, IInv, NEW argument \in Arguments, NEW T \in CppTypes,
         argument.of = typeOf(T)
  PROVE  argument.top \in Values /\ argument.tree[argument.top].type = typeOf(T)
<1>0. typeOf(T) \in {"bool", "number", "string"}
  BY DEF CppTypes, typeOf
<1>1. tree \in [Nodes -> Items]
  BY DEF IInv, InStep, Typed
<1>2. CASE \E n \in Values \ live, S \in CppTypes : argument = Fresh(n, typeOf(S))
  <2>1. PICK n \in Values \ live, S \in CppTypes : argument = Fresh(n, typeOf(S))
    BY <1>2
  <2>2. argument.of = typeOf(S) /\ argument.top = n
        /\ argument.tree = [tree EXCEPT ![n].type = typeOf(S)]
    BY <2>1 DEF Fresh
  <2>3. n \in Nodes /\ tree[n] \in Items
    BY <1>1 DEF HelperAssumption
  <2>4. argument.tree[n] = [tree[n] EXCEPT !.type = typeOf(S)]
    BY <1>1, <2>2, <2>3
  <2>5. argument.tree[n].type = typeOf(S)
    BY <2>3, <2>4 DEF Items
  <2> QED BY <2>2, <2>5
<1>3. CASE \E n \in Nodes \ (live \cup Values) : argument = Fresh(n, "none")
  BY <1>0, <1>3 DEF Fresh
<1>4. CASE \E v \in used : argument \in Copies(v)
  <2>1. argument.of = "helper"
    BY <1>4 DEF Copies, Copied
  <2> QED BY <1>0, <2>1
<1> QED BY <1>2, <1>3, <1>4 DEF Arguments

LEMMA ReadsBack ==
  ASSUME HelperAssumption, NEW T \in CppTypes, NEW n \in Values, tree'[n].type = typeOf(T)
  PROVE  (T = "char*" \/ getItem(n, T)') /\ Shown(n)' = {typeOf(T)}
<1>1. n \notin Objects /\ n # NULL
  BY DEF HelperAssumption
<1>2. ASSUME NEW type PROVE cJSON_Is(type, n)' <=> type = typeOf(T)
  BY <1>1 DEF cJSON_Is
<1>3. T = "char*" \/ getItem(n, T)'
  BY <1>2 DEF getItem, CppTypes, typeOf
<1>4. Shown(n)' = {typeOf(T)}
  BY <1>2 DEF Shown, CppTypes, typeOf
<1> QED BY <1>3, <1>4

LEMMA SetReads ==
  ASSUME HelperAssumption, DistinctKeys, Kept, IInv, NEW w \in Helpers, NEW k \in Keys,
         NEW argument \in Arguments, set(w, k, argument),
         NEW T \in CppTypes, argument.of = typeOf(T)
  PROVE  get(w, k, T)' /\ text(w, k)' = {typeOf(T)}
<1> DEFINE n == argument.top
<1>1. PICK o \in Objects :
        /\ setCommon(w, k, argument, o)
        /\ Sets(w, argument, o, [helper EXCEPT ![w].m_pJsonData = o], Member(tree, o, k), k,
                helper[w].obj[k])
  BY SetIn
<1> DEFINE i == Member(tree, o, k)
           v == helper[w].obj[k]
           g == [helper EXCEPT ![w].m_pJsonData = o]
<1>2. /\ PutsIn(argument.tree, live \cup argument.new \cup {o}, g, used, {n}, w, i, k, v, n,
                Gone(argument.tree, o, i), tree', helper')
      /\ Moves(helper, g, w, o)
  <2>1. tree' = Put(argument.tree, o, i, n, k) /\ helper' = Point(g, v, n)
    BY <1>1 DEF setCommon
  <2> HIDE DEF i, v, g, n
  <2>2. Sets(w, argument, o, g, i, k, v)
    BY <1>1 DEF i, v, g
  <2> QED BY <2>1, <2>2, SetFacts DEF n
<1>3. i = Member(argument.tree, o, k)
  BY <1>1, ArgumentSame DEF Sets
<1> HIDE DEF i, v, g, n
<1>4. g[w].m_pJsonData = o
  BY <1>2 DEF Moves
<1>5. /\ tree'[n].type = argument.tree[n].type /\ helper'[w].m_pJsonData = o
      /\ k # NULL /\ i = Member(argument.tree, o, k) => First(tree', o, k) = n
  BY <1>2, <1>4, PutReads
<1>6. First(tree', o, k) = n
  BY <1>3, <1>5 DEF HelperAssumption
<1>7. n \in Values /\ tree'[n].type = typeOf(T)
  BY <1>5, ValueArgument DEF n
<1>8. data(w)' = o /\ KeyItem(w, k)' = n
  BY <1>5, <1>6 DEF data, KeyItem, First
<1>9. isObject(w)'
  BY <1>8 DEF isObject, cJSON_Is, HelperAssumption
<1>10. (T = "char*" \/ getItem(n, T)') /\ Shown(n)' = {typeOf(T)}
  BY <1>7, ReadsBack
<1>11. getItem(KeyItem(w, k), T)' <=> getItem(n, T)'
  BY <1>8 DEF getItem, cJSON_Is
<1>12. Shown(KeyItem(w, k))' = Shown(n)'
  BY <1>8 DEF Shown, cJSON_Is
<1> QED BY <1>9, <1>10, <1>11, <1>12 DEF get, text

(* What is put into the place i of an array, or at its end, is the item there. *)
LEMMA ArrayReads ==
  ASSUME HelperAssumption, DistinctKeys, IInv,
         NEW w \in used, NEW argument \in Arguments, isArray(w),
         NEW i, NEW v, v \in Helpers \cup {NULL}, IndexPlace(tree, helper, w, i, v),
         v # NULL => Cached(helper, v) = {},
         tree' = Put(argument.tree, data(w), i, argument.top, NULL),
         helper' = Point(helper, v, argument.top),
         NEW j \in Indexes,
         IF i \in DOMAIN tree[data(w)].children THEN i = j + 1
         ELSE j = Len(tree[data(w)].children),
         NEW T \in CppTypes, argument.of = typeOf(T)
  PROVE  getIndex(w, j, T)' /\ textIndex(w, j)' = {typeOf(T)}
<1> DEFINE n == argument.top
           a == data(w)
<1>0. a \in Nodes \ (Objects \cup Values) /\ a = helper[w].m_pJsonData /\ a # NULL
  BY KindFacts DEF data, HelperAssumption
<1>1. Sets(w, argument, a, helper, i, NULL, v)
  BY ArrayIn
<1>2. argument.tree[a] = tree[a]
  BY <1>1, ArgumentSame DEF Sets
<1>3. PutsIn(argument.tree, live \cup argument.new \cup {a}, helper, used, {n}, w, i, NULL, v, n,
             Gone(argument.tree, a, i), tree', helper')
  BY <1>1, SetFacts
<1> HIDE DEF n, a
<1>4. /\ tree'[n].type = argument.tree[n].type /\ helper'[w].m_pJsonData = a
      /\ Placed(argument.tree[a].children, tree'[a].children, i, n)
  BY <1>0, <1>3, PutReads
<1>5. /\ j + 1 \in DOMAIN tree'[a].children /\ tree'[a].children[j + 1] = n
      /\ j >= 0 /\ Len(tree'[a].children) > j
  <2>1. Placed(tree[a].children, tree'[a].children, i, n) /\ j \in Int
    BY <1>2, <1>4 DEF HelperAssumption
  <2>2. IF i \in DOMAIN tree[a].children THEN i = j + 1 ELSE j = Len(tree[a].children)
    BY DEF a
  <2> QED BY <2>1, <2>2 DEF Placed
<1>6. n \in Values /\ tree'[n].type = typeOf(T)
  BY <1>4, ValueArgument DEF n
<1>7. data(w)' = a /\ IndexItem(w, j)' = n
  BY <1>4, <1>5 DEF data, IndexItem, ItemAt
<1>8. isArrayItem(w, j)'
  <2>1. isArray(w)'
    BY <1>0, <1>7 DEF isArray, cJSON_Is
  <2>2. getArraySize(w)' = Len(tree'[a].children)
    BY <1>7, <2>1 DEF getArraySize
  <2> QED BY <1>5, <2>2 DEF isArrayItem
<1>9. (T = "char*" \/ getItem(n, T)') /\ Shown(n)' = {typeOf(T)}
  BY <1>6, ReadsBack
<1>10. getItem(IndexItem(w, j), T)' <=> getItem(n, T)'
  BY <1>7 DEF getItem, cJSON_Is
<1>11. Shown(IndexItem(w, j))' = Shown(n)'
  BY <1>7 DEF Shown, cJSON_Is
<1> QED BY <1>8, <1>9, <1>10, <1>11 DEF getIndex, textIndex

LEMMA SetIndexReads ==
  ASSUME HelperAssumption, DistinctKeys, Kept, IInv, NEW w \in Helpers, NEW i \in Indexes,
         NEW argument \in Arguments, setIndex(w, i, argument),
         NEW T \in CppTypes, argument.of = typeOf(T)
  PROVE  getIndex(w, i, T)' /\ textIndex(w, i)' = {typeOf(T)}
<1> DEFINE v == helper[w].arr[i]
           m == i + 1
<1>1. /\ w \in used /\ isArrayItem(w, i)
      /\ v # NULL => Cached(helper, v) = {}
  BY DEF setIndex, MayWrite, Obliged, Kept, NoNested
<1>2. /\ tree' = Put(argument.tree, data(w), m, argument.top, NULL)
      /\ helper' = Point(helper, v, argument.top)
  BY DEF setIndex, setCommonIndex
<1>3. /\ isArray(w) /\ data(w) \in Nodes \ (Objects \cup Values)
      /\ m \in DOMAIN tree[data(w)].children
  BY <1>1, KindFacts
<1>4. v \in Helpers \cup {NULL}
  BY DEF IInv, InStep, Typed, Objs
<1>5. IndexPlace(tree, helper, w, m, v)
  BY <1>3 DEF IndexPlace, data
<1>6. IF m \in DOMAIN tree[data(w)].children THEN m = i + 1
      ELSE i = Len(tree[data(w)].children)
  BY <1>3
<1> HIDE DEF v, m
<1> QED BY <1>1, <1>2, <1>3, <1>4, <1>5, <1>6, ArrayReads

LEMMA AppendReads ==
  ASSUME HelperAssumption, DistinctKeys, Kept, IInv, NEW w \in Helpers,
         NEW argument \in Arguments, append(w, argument),
         NEW i \in Indexes, i = getArraySize(w),
         NEW T \in CppTypes, argument.of = typeOf(T)
  PROVE  getIndex(w, i, T)' /\ textIndex(w, i)' = {typeOf(T)}
<1>1. /\ w \in used /\ isArray(w) /\ helper' = helper
      /\ tree' = Put(argument.tree, data(w), 0, argument.top, NULL)
  BY DEF append, appendCommon, MayWrite
<1>2. data(w) \in Nodes \ (Objects \cup Values) /\ data(w) \in Nodes
  BY <1>1, KindFacts
<1>3. 0 \notin DOMAIN tree[data(w)].children
  <2>1. tree \in [Nodes -> Items]
    BY DEF IInv, InStep, Typed
  <2>2. tree[data(w)].children \in Seq(Nodes)
    BY <1>2, <2>1, ChildrenType
  <2> QED BY <2>2
<1>4. helper' = Point(helper, NULL, argument.top) /\ IndexPlace(tree, helper, w, 0, NULL)
  BY <1>1, <1>2 DEF Point, IndexPlace, data
<1>5. IF 0 \in DOMAIN tree[data(w)].children THEN 0 = i + 1
      ELSE i = Len(tree[data(w)].children)
  BY <1>1, <1>3 DEF getArraySize
<1> QED BY <1>1, <1>4, <1>5, ArrayReads

(* What was set or appended with an overload can be read at once with the same *)
(* overload from the same object, and as a text.                             *)
THEOREM WrittenIsRead ==
  ASSUME DistinctKeys, Kept
  PROVE  Spec => GetReadsSet
<1>1. ASSUME IInv, Next, NEW w \in Helpers, NEW T \in CppTypes, NEW k \in Keys,
             call' = <<"set", w, k, typeOf(T)>>
      PROVE  get(w, k, T)' /\ text(w, k)' = {typeOf(T)}
  <2>1. PICK x \in Helpers, l \in Keys, argument \in Arguments :
          set(x, l, argument) /\ call' = <<"set", x, l, argument.of>>
    <3>1. call'[1] = "set"
      BY <1>1
    <3> QED BY <1>1, <3>1, CallName
  <2>2. x = w /\ l = k /\ argument.of = typeOf(T)
    BY <1>1, <2>1
  <2> QED BY <1>1, <2>1, <2>2, HelperAssumption, SetReads
<1>2. ASSUME IInv, Next, NEW w \in Helpers, NEW T \in CppTypes, NEW i \in Indexes,
             call' = <<"setIndex", w, i, typeOf(T)>>
      PROVE  getIndex(w, i, T)' /\ textIndex(w, i)' = {typeOf(T)}
  <2>1. PICK x \in Helpers, j \in Indexes, argument \in Arguments :
          setIndex(x, j, argument) /\ call' = <<"setIndex", x, j, argument.of>>
    <3>1. call'[1] = "setIndex"
      BY <1>2
    <3> QED BY <1>2, <3>1, CallName
  <2>2. x = w /\ j = i /\ argument.of = typeOf(T)
    BY <1>2, <2>1
  <2> QED BY <1>2, <2>1, <2>2, HelperAssumption, SetIndexReads
<1>3. ASSUME IInv, Next, NEW w \in Helpers, NEW T \in CppTypes, NEW i \in Indexes,
             call' = <<"append", w, typeOf(T)>>, i = getArraySize(w)
      PROVE  getIndex(w, i, T)' /\ textIndex(w, i)' = {typeOf(T)}
  <2>1. PICK x \in Helpers, argument \in Arguments :
          append(x, argument) /\ call' = <<"append", x, argument.of>>
    <3>1. call'[1] = "append"
      BY <1>3
    <3> QED BY <1>3, <3>1, CallName
  <2>2. x = w /\ argument.of = typeOf(T)
    BY <1>3, <2>1
  <2> QED BY <1>3, <2>1, <2>2, HelperAssumption, AppendReads
<1> DEFINE Reads ==
      \A w \in Helpers, T \in CppTypes :
        /\ \A k \in Keys : call' = <<"set", w, k, typeOf(T)>> =>
             get(w, k, T)' /\ text(w, k)' = {typeOf(T)}
        /\ \A i \in Indexes :
             \/ call' = <<"setIndex", w, i, typeOf(T)>>
             \/ call' = <<"append", w, typeOf(T)>> /\ i = getArraySize(w)
             => getIndex(w, i, T)' /\ textIndex(w, i)' = {typeOf(T)}
<1>4. IInv /\ [Next]_vars => [Reads]_vars
  <2>1. ASSUME IInv, Next PROVE Reads
    BY <1>1, <1>2, <1>3, <2>1
  <2> HIDE DEF Reads
  <2> QED BY <2>1
<1>5. Spec => []IInv
  BY InStepInvariant
<1> QED BY <1>4, <1>5, PTL DEF Spec, GetReadsSet
=============================================================================
