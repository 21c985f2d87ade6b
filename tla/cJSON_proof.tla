------------------------------ MODULE cJSON_proof ------------------------------
(***************************************************************************)
(* Proofs about the lists of cJSON: in every state the memory holds a       *)
(* forest of lists, and each call changes them as JsonTree says.  First the *)
(* assignments and what a heap represents, then the operations on lists     *)
(* one after the other, at the end the steps.                               *)
(***************************************************************************)
EXTENDS cJSON, SequenceTheorems, WellFoundedInduction, FiniteSetTheorems, TLAPS

(* A set of naturals that holds 0 and each successor of an element is Nat.     *)
LEMMA NatSetInduction ==
  ASSUME NEW S, 0 \in S, \A n \in Nat : n \in S => n + 1 \in S
  PROVE  \A n \in Nat : n \in S
<1> DEFINE R == OpToRel(<, Nat)
           T == Nat \ S
<1>1. \A x, y \in Nat : <<x, y>> \in R <=> x < y
  BY DEF OpToRel
<1>2. IsWellFoundedOn(R, Nat)
  BY NatLessThanWellFounded, Zenon
<1> HIDE DEF R
<1>3. SUFFICES ASSUME T # {} PROVE FALSE
  OBVIOUS
<1>4. PICK n \in T : \A y \in T : ~ (<<y, n>> \in R)
  BY <1>2, <1>3, WFMin, Zenon
<1>5. n \in Nat /\ n # 0
  BY <1>4
<1>6. n - 1 \in Nat /\ <<n - 1, n>> \in R
  BY <1>1, <1>5
<1>7. n - 1 \in S
  BY <1>4, <1>6
<1> QED BY <1>4, <1>5, <1>6, <1>7

(* g is the recursive function on 0 .. n with base b and step F.               *)
Approximates(g, n, X, b, F) ==
  /\ g \in [0 .. n -> X] /\ g[0] = b
  /\ \A k \in 0 .. n - 1 : g[k + 1] = F[k][g[k]]

(* Two approximations agree where both are defined.                           *)
LEMMA ApproximationsAgree ==
  ASSUME NEW X, NEW b \in X, NEW F \in [Nat -> [X -> X]], NEW m \in Nat, NEW n \in Nat,
         NEW g, Approximates(g, m, X, b, F), NEW h, Approximates(h, n, X, b, F)
  PROVE  \A k \in Nat : k <= m /\ k <= n => g[k] = h[k]
<1> DEFINE S == {k \in Nat : k <= m /\ k <= n => g[k] = h[k]}
<1>1. 0 \in S
  BY DEF Approximates
<1>2. ASSUME NEW k \in Nat, k \in S PROVE k + 1 \in S
  <2>1. SUFFICES ASSUME k + 1 <= m, k + 1 <= n PROVE g[k + 1] = h[k + 1]
    OBVIOUS
  <2>2. k \in 0 .. m - 1 /\ k \in 0 .. n - 1 /\ g[k] = h[k]
    BY <1>2, <2>1
  <2> QED BY <2>2 DEF Approximates
<1> HIDE DEF S
<1>3. \A k \in Nat : k \in S
  BY <1>1, <1>2, NatSetInduction
<1> QED BY <1>3 DEF S

(* There is one of every length.                                              *)
LEMMA ApproximationsExist ==
  ASSUME NEW X, NEW b \in X, NEW F \in [Nat -> [X -> X]]
  PROVE  \A n \in Nat : \E g : Approximates(g, n, X, b, F)
<1> DEFINE S == {n \in Nat : \E g : Approximates(g, n, X, b, F)}
<1>1. 0 \in S
  <2> DEFINE g == [k \in 0 .. 0 |-> b]
  <2>1. Approximates(g, 0, X, b, F)
    BY DEF Approximates
  <2> QED BY <2>1
<1>2. ASSUME NEW n \in Nat, n \in S PROVE n + 1 \in S
  <2>1. PICK g : Approximates(g, n, X, b, F)
    BY <1>2
  <2> DEFINE h == [k \in 0 .. n + 1 |-> IF k <= n THEN g[k] ELSE F[n][g[n]]]
  <2>2. \A k \in 0 .. n : g[k] \in X
    BY <2>1 DEF Approximates
  <2>3. F[n][g[n]] \in X
    BY <2>2
  <2>4. h \in [0 .. n + 1 -> X] /\ h[0] = b
    BY <2>1, <2>2, <2>3 DEF Approximates
  <2>5. ASSUME NEW k \in 0 .. n PROVE h[k + 1] = F[k][h[k]]
    <3>1. h[k] = g[k]
      OBVIOUS
    <3>2. CASE k = n
      BY <3>1, <3>2
    <3>3. CASE k # n
      <4>1. k \in 0 .. n - 1 /\ h[k + 1] = g[k + 1]
        BY <3>3
      <4> QED BY <2>1, <3>1, <4>1 DEF Approximates
    <3> QED BY <3>2, <3>3
  <2> HIDE DEF h
  <2>6. (n + 1) - 1 = n
    OBVIOUS
  <2>7. Approximates(h, n + 1, X, b, F)
    BY <2>4, <2>5, <2>6 DEF Approximates
  <2> QED BY <2>7
<1> HIDE DEF S
<1>3. \A n \in Nat : n \in S
  BY <1>1, <1>2, NatSetInduction
<1> QED BY <1>3 DEF S

(* A function that is defined by recursion over Nat exists.                    *)
Recursive(X, b, F) == b \in X /\ F \in [Nat -> [X -> X]]
Solves(f, X, b, F) ==
  f \in [Nat -> X] /\ f[0] = b /\ \A n \in Nat : f[n + 1] = F[n][f[n]]

LEMMA Recursion ==
  ASSUME NEW X, NEW b, NEW F, Recursive(X, b, F)
  PROVE  \E f : Solves(f, X, b, F)
<1> USE DEF Recursive
<1> DEFINE a(n) == CHOOSE g : Approximates(g, n, X, b, F)
           g == [n \in Nat |-> a(n)[n]]
<1>1. ASSUME NEW n \in Nat PROVE Approximates(a(n), n, X, b, F)
  BY ApproximationsExist
<1> HIDE DEF a
<1>2. ASSUME NEW n \in Nat PROVE a(n)[n] \in X
  BY <1>1 DEF Approximates
<1>3. a(0)[0] = b
  BY <1>1 DEF Approximates
<1>4. ASSUME NEW n \in Nat PROVE a(n + 1)[n + 1] = F[n][a(n)[n]]
  <2>1. n + 1 \in Nat /\ n <= n + 1 /\ n <= n /\ n \in 0 .. (n + 1) - 1
    OBVIOUS
  <2>2. Approximates(a(n), n, X, b, F) /\ Approximates(a(n + 1), n + 1, X, b, F)
    BY <1>1, <2>1
  <2>3. a(n)[n] = a(n + 1)[n]
    BY <2>1, <2>2, ApproximationsAgree
  <2>4. a(n + 1)[n + 1] = F[n][a(n + 1)[n]]
    BY <2>1, <2>2 DEF Approximates
  <2> QED BY <2>3, <2>4
<1>5. Solves(g, X, b, F)
  BY <1>2, <1>3, <1>4 DEF Solves
<1> QED BY <1>5

-----------------------------------------------------------------------------
(* Assignments.                                                               *)

(* What the fields of an item hold.                                           *)
LEMMA HeapType ==
  ASSUME NEW h \in Heaps, NEW x \in Nodes
  PROVE  /\ h[x].child \in Pointers /\ h[x].next \in Pointers /\ h[x].prev \in Pointers
         /\ h[x].string \in Keys \cup {NULL}
BY DEF Heaps, Items

(* One assignment to a field changes that field of that item.                 *)
LEMMA SetNext ==
  ASSUME NEW h \in Heaps, NEW p \in Pointers, NEW v \in Pointers
  PROVE  /\ Set(h, p, "next", v) \in Heaps
         /\ \A x \in Nodes :
              /\ Set(h, p, "next", v)[x].next = IF x = p THEN v ELSE h[x].next
              /\ Set(h, p, "next", v)[x].prev = h[x].prev
              /\ Set(h, p, "next", v)[x].child = h[x].child
              /\ Set(h, p, "next", v)[x].string = h[x].string
<1>1. CASE p = NULL
  BY <1>1, ItemAssumption DEF Set, ItemAssumption
<1>2. CASE p # NULL
  <2>1. p \in Nodes
    BY <1>2 DEF Pointers
  <2>2. Set(h, p, "next", v) = [h EXCEPT ![p] = [h[p] EXCEPT !.next = v]]
    BY <1>2, <2>1 DEF Set, Heaps
  <2> QED BY <2>1, <2>2 DEF Heaps, Items
<1> QED BY <1>1, <1>2

(* The same of prev.                                                          *)
LEMMA SetPrev ==
  ASSUME NEW h \in Heaps, NEW p \in Pointers, NEW v \in Pointers
  PROVE  /\ Set(h, p, "prev", v) \in Heaps
         /\ \A x \in Nodes :
              /\ Set(h, p, "prev", v)[x].prev = IF x = p THEN v ELSE h[x].prev
              /\ Set(h, p, "prev", v)[x].next = h[x].next
              /\ Set(h, p, "prev", v)[x].child = h[x].child
              /\ Set(h, p, "prev", v)[x].string = h[x].string
<1>1. CASE p = NULL
  BY <1>1, ItemAssumption DEF Set, ItemAssumption
<1>2. CASE p # NULL
  <2>1. p \in Nodes
    BY <1>2 DEF Pointers
  <2>2. Set(h, p, "prev", v) = [h EXCEPT ![p] = [h[p] EXCEPT !.prev = v]]
    BY <1>2, <2>1 DEF Set, Heaps
  <2> QED BY <2>1, <2>2 DEF Heaps, Items
<1> QED BY <1>1, <1>2

(* Of child.                                                                  *)
LEMMA SetChild ==
  ASSUME NEW h \in Heaps, NEW p \in Pointers, NEW v \in Pointers
  PROVE  /\ Set(h, p, "child", v) \in Heaps
         /\ \A x \in Nodes :
              /\ Set(h, p, "child", v)[x].child = IF x = p THEN v ELSE h[x].child
              /\ Set(h, p, "child", v)[x].next = h[x].next
              /\ Set(h, p, "child", v)[x].prev = h[x].prev
              /\ Set(h, p, "child", v)[x].string = h[x].string
<1>1. CASE p = NULL
  BY <1>1, ItemAssumption DEF Set, ItemAssumption
<1>2. CASE p # NULL
  <2>1. p \in Nodes
    BY <1>2 DEF Pointers
  <2>2. Set(h, p, "child", v) = [h EXCEPT ![p] = [h[p] EXCEPT !.child = v]]
    BY <1>2, <2>1 DEF Set, Heaps
  <2> QED BY <2>1, <2>2 DEF Heaps, Items
<1> QED BY <1>1, <1>2

(* Of the key.                                                                *)
LEMMA SetString ==
  ASSUME NEW h \in Heaps, NEW p \in Nodes, NEW k \in Keys
  PROVE  /\ Set(h, p, "string", k) \in Heaps
         /\ \A x \in Nodes :
              /\ Set(h, p, "string", k)[x].string = IF x = p THEN k ELSE h[x].string
              /\ Set(h, p, "string", k)[x].next = h[x].next
              /\ Set(h, p, "string", k)[x].prev = h[x].prev
              /\ Set(h, p, "string", k)[x].child = h[x].child
<1>1. Set(h, p, "string", k) = [h EXCEPT ![p] = [h[p] EXCEPT !.string = k]]
  BY ItemAssumption DEF Set, Heaps, ItemAssumption
<1> QED BY <1>1 DEF Heaps, Items

(* suffix_object sets next of the one and prev of the other.                  *)
LEMMA Suffixed ==
  ASSUME NEW h \in Heaps, NEW p \in Pointers, NEW v \in Pointers
  PROVE  /\ suffix_object(h, p, v) \in Heaps
         /\ \A x \in Nodes :
              /\ suffix_object(h, p, v)[x].next = IF x = p THEN v ELSE h[x].next
              /\ suffix_object(h, p, v)[x].prev = IF x = v THEN p ELSE h[x].prev
              /\ suffix_object(h, p, v)[x].child = h[x].child
              /\ suffix_object(h, p, v)[x].string = h[x].string
<1> DEFINE h1 == Set(h, p, "next", v)
           h2 == Set(h1, v, "prev", p)
<1>1. suffix_object(h, p, v) = h2
  BY DEF suffix_object
<1>2. /\ h1 \in Heaps
      /\ \A x \in Nodes :
           /\ h1[x].next = IF x = p THEN v ELSE h[x].next
           /\ h1[x].prev = h[x].prev
           /\ h1[x].child = h[x].child
           /\ h1[x].string = h[x].string
  BY SetNext
<1> HIDE DEF h1
<1>3. /\ h2 \in Heaps
      /\ \A x \in Nodes :
           /\ h2[x].prev = IF x = v THEN p ELSE h1[x].prev
           /\ h2[x].next = h1[x].next
           /\ h2[x].child = h1[x].child
           /\ h2[x].string = h1[x].string
  BY <1>2, SetPrev
<1> HIDE DEF h2
<1> QED BY <1>1, <1>2, <1>3

-----------------------------------------------------------------------------
(* Lists.                                                                     *)

(* The element of a sequence, NULL outside it: what next and prev lead to.    *)
At(s, i) == IF i \in DOMAIN s THEN s[i] ELSE NULL
Injective(s) == \A i, j \in DOMAIN s : s[i] = s[j] => i = j
Links(h, s) ==
  \A i \in DOMAIN s : h[s[i]].prev = At(s, i - 1) /\ h[s[i]].next = At(s, i + 1)

(* NULL is a pointer and no item.                                             *)
LEMMA NULLFacts == NULL \in Pointers /\ NULL \notin Nodes /\ Nodes \subseteq Pointers
BY ItemAssumption DEF ItemAssumption, Pointers

(* What List walks through.                                                    *)
Walks(walk, h) ==
  /\ walk \in [Nat -> [Pointers -> Seq(Nodes)]]
  /\ \A p \in Pointers : walk[0][p] = <<>>
  /\ \A n \in Nat : walk[n + 1][NULL] = <<>>
  /\ \A n \in Nat, p \in Nodes : walk[n + 1][p] = <<p>> \o walk[n][h[p].next]

(* List is the walk as deep as there are items.                               *)
LEMMA ListWalks ==
  ASSUME NEW h \in Heaps
  PROVE  \E walk : Walks(walk, h) /\ \A p \in Pointers : List(h, p) = walk[Cardinality(Nodes)][p]
<1> DEFINE X == [Pointers -> Seq(Nodes)]
           Step(w) == [q \in Pointers |-> IF q = NULL THEN <<>> ELSE <<q>> \o w[h[q].next]]
           b == [q \in Pointers |-> <<>>]
           F == [n \in Nat |-> [w \in X |-> Step(w)]]
           D(walk, steps) == [q \in Pointers |-> IF q = NULL \/ steps = 0 THEN <<>>
                           ELSE <<q>> \o walk[steps - 1][h[q].next]]
           G(walk) == walk = [steps \in Nat |-> D(walk, steps)]
           walk == CHOOSE w : G(w)
<1>1. ASSUME NEW w \in X PROVE Step(w) \in X
  <2>1. ASSUME NEW q \in Pointers, q # NULL PROVE <<q>> \o w[h[q].next] \in Seq(Nodes)
    <3>1. q \in Nodes /\ h[q].next \in Pointers
      BY <2>1, HeapType DEF Pointers
    <3> QED BY <3>1
  <2> QED BY <2>1
<1>2. b \in X
  OBVIOUS
<1>a. F \in [Nat -> [X -> X]]
  BY <1>1
<1>3. \A n \in Nat : \A w \in X : F[n][w] = Step(w)
  OBVIOUS
<1> HIDE DEF F, b, X
<1>b. PICK g : Solves(g, X, b, F)
  BY <1>2, <1>a, Recursion DEF Recursive
<1>4. g \in [Nat -> X] /\ g[0] = b /\ \A n \in Nat : g[n + 1] = F[n][g[n]]
  BY <1>b DEF Solves
<1>5. ASSUME NEW n \in Nat PROVE g[n] = D(g, n)
  <2>1. CASE n = 0
    BY <1>4, <2>1 DEF b
  <2>2. CASE n # 0
    <3>1. n - 1 \in Nat /\ (n - 1) + 1 = n
      BY <2>2
    <3>2. g[n] = Step(g[n - 1])
      BY <1>3, <1>4, <3>1
    <3>3. Step(g[n - 1]) = D(g, n)
      BY <2>2
    <3> QED BY <3>2, <3>3
  <2> QED BY <2>1, <2>2
<1>6. G(g)
  <2>1. g = [n \in Nat |-> g[n]]
    BY <1>4
  <2>2. [n \in Nat |-> g[n]] = [n \in Nat |-> D(g, n)]
    BY <1>5, Zenon
  <2> QED BY <2>1, <2>2
<1> HIDE DEF D
<1>7. G(walk)
  BY <1>6, Zenon
<1>8. \A p \in Pointers : List(h, p) = walk[Cardinality(Nodes)][p]
  BY DEF List, D
<1> HIDE DEF walk
<1>9. \A n \in Nat : walk[n] = D(walk, n)
  BY <1>7
<1>10. \A n \in Nat : walk[n] \in X
  <2> DEFINE S == {n \in Nat : walk[n] \in X}
  <2>1. 0 \in S
    <3>1. walk[0] = [q \in Pointers |-> <<>>]
      BY <1>9 DEF D
    <3>2. <<>> \in Seq(Nodes)
      BY EmptySeq
    <3> QED BY <3>1, <3>2 DEF X
  <2>2. ASSUME NEW n \in Nat, n \in S PROVE n + 1 \in S
    <3>1. n + 1 \in Nat /\ n + 1 # 0 /\ (n + 1) - 1 = n
      OBVIOUS
    <3>2. walk[n + 1] = Step(walk[n])
      BY <1>9, <3>1 DEF D
    <3> QED BY <1>1, <2>2, <3>1, <3>2
  <2> HIDE DEF S
  <2>3. \A n \in Nat : n \in S
    BY <2>1, <2>2, NatSetInduction
  <2> QED BY <2>3 DEF S
<1>11. Walks(walk, h)
  <2>1. walk \in [Nat -> X]
    BY <1>7, <1>10
  <2>2. \A p \in Pointers : walk[0][p] = <<>>
    BY <1>9 DEF D
  <2>3. ASSUME NEW n \in Nat, NEW p \in Pointers
        PROVE walk[n + 1][p] = IF p = NULL THEN <<>> ELSE <<p>> \o walk[n][h[p].next]
    <3>1. n + 1 \in Nat /\ n + 1 # 0 /\ (n + 1) - 1 = n
      OBVIOUS
    <3>2. walk[n + 1] = Step(walk[n])
      BY <1>9, <3>1 DEF D
    <3> HIDE DEF walk
    <3> QED BY <3>2
  <2> QED BY <2>1, <2>2, <2>3, NULLFacts DEF Walks, X
<1> QED BY <1>8, <1>11

(* A list is a sequence of items.                                             *)
LEMMA ListType ==
  ASSUME NEW h \in Heaps, NEW p \in Pointers
  PROVE  List(h, p) \in Seq(Nodes)
<1>1. PICK walk : Walks(walk, h) /\ \A q \in Pointers : List(h, q) = walk[Cardinality(Nodes)][q]
  BY ListWalks
<1>2. Cardinality(Nodes) \in Nat
  BY ItemAssumption, FS_CardinalityType DEF ItemAssumption
<1> QED BY <1>1, <1>2 DEF Walks

(* A sequence without repetitions is no longer than there are items.          *)
LEMMA InjectiveLength ==
  ASSUME NEW s \in Seq(Nodes), Injective(s)
  PROVE  Len(s) <= Cardinality(Nodes)
<1>1. IsFiniteSet(Nodes)
  BY ItemAssumption DEF ItemAssumption
<1>2. s \in [1 .. Len(s) -> Nodes] /\ DOMAIN s = 1 .. Len(s) /\ Len(s) \in Nat
  BY LenProperties
<1>3. s \in Injection(1 .. Len(s), Nodes)
  BY <1>2 DEF Injective, Injection, IsInjective
<1>4. Cardinality(1 .. Len(s)) <= Cardinality(Nodes)
  BY <1>1, <1>3, FS_Injection
<1>5. Cardinality(1 .. Len(s)) = Len(s)
  <2>1. 1 \in Int /\ Len(s) \in Int /\ (IF 1 > Len(s) THEN 0 ELSE Len(s) - 1 + 1) = Len(s)
    BY <1>2
  <2> QED BY <2>1, FS_Interval, Zenon
<1> QED BY <1>4, <1>5

(* A sequence that next leads through is the list that starts at its first.    *)
LEMMA ListIs ==
  ASSUME NEW h \in Heaps, NEW s \in Seq(Nodes), Injective(s), Links(h, s)
  PROVE  List(h, At(s, 1)) = s
<1>1. PICK walk : Walks(walk, h) /\ \A q \in Pointers : List(h, q) = walk[Cardinality(Nodes)][q]
  BY ListWalks
<1>2. Cardinality(Nodes) \in Nat /\ Len(s) <= Cardinality(Nodes) /\ Len(s) \in Nat
      /\ DOMAIN s = 1 .. Len(s)
  BY ItemAssumption, FS_CardinalityType, InjectiveLength, LenProperties DEF ItemAssumption
<1> DEFINE Tail_(i) == SubSeq(s, i, Len(s))
           S == {n \in Nat : \A i \in 1 .. Len(s) + 1 :
                   Len(s) + 1 - i <= n => walk[n][At(s, i)] = SubSeq(s, i, Len(s))}
<1>3. SubSeq(s, Len(s) + 1, Len(s)) = <<>> /\ At(s, Len(s) + 1) = NULL
  BY <1>2, SubSeqEmpty DEF At
<1>4. \A i \in 1 .. Len(s) : At(s, i) = s[i] /\ s[i] \in Nodes
  BY <1>2, ElementOfSeq DEF At
<1>5. 0 \in S
  <2>1. SUFFICES ASSUME NEW i \in 1 .. Len(s) + 1, Len(s) + 1 - i <= 0
                 PROVE  walk[0][At(s, i)] = SubSeq(s, i, Len(s))
    OBVIOUS
  <2>2. i = Len(s) + 1
    BY <1>2, <2>1
  <2> QED BY <1>1, <1>3, <2>2, NULLFacts DEF Walks
<1>6. ASSUME NEW n \in Nat, n \in S PROVE n + 1 \in S
  <2>1. SUFFICES ASSUME NEW i \in 1 .. Len(s) + 1, Len(s) + 1 - i <= n + 1
                 PROVE  walk[n + 1][At(s, i)] = SubSeq(s, i, Len(s))
    OBVIOUS
  <2>2. CASE i = Len(s) + 1
    BY <1>1, <1>3, <2>2 DEF Walks
  <2>3. CASE i # Len(s) + 1
    <3>1. i \in 1 .. Len(s) /\ i + 1 \in 1 .. Len(s) + 1 /\ Len(s) + 1 - (i + 1) <= n
      BY <1>2, <2>1, <2>3
    <3>2. walk[n][At(s, i + 1)] = SubSeq(s, i + 1, Len(s))
      BY <1>6, <3>1
    <3>3. walk[n + 1][s[i]] = <<s[i]>> \o walk[n][h[s[i]].next]
      BY <1>1, <1>4, <3>1 DEF Walks
    <3>4. h[s[i]].next = At(s, i + 1)
      BY <1>2, <3>1 DEF Links
    <3>5. SubSeq(s, i, Len(s)) = <<s[i]>> \o SubSeq(s, i + 1, Len(s))
      <4>1. Len(s) \in i .. Len(s)
        BY <1>2, <3>1
      <4> QED BY <3>1, <4>1, SubSeqRecursiveFirst
    <3>6. At(s, i) = s[i]
      BY <1>4, <3>1
    <3> QED BY <3>2, <3>3, <3>4, <3>5, <3>6
  <2> QED BY <2>2, <2>3
<1> HIDE DEF S
<1>7. \A n \in Nat : n \in S
  BY <1>5, <1>6, NatSetInduction
<1>8. walk[Cardinality(Nodes)][At(s, 1)] = SubSeq(s, 1, Len(s))
  <2>1. 1 \in 1 .. Len(s) + 1 /\ Len(s) + 1 - 1 <= Cardinality(Nodes)
    BY <1>2
  <2>2. Cardinality(Nodes) \in S
    BY <1>2, <1>7
  <2> QED BY <2>1, <2>2 DEF S
<1>9. At(s, 1) \in Pointers
  BY <1>2, <1>4, NULLFacts DEF At
<1> QED BY <1>1, <1>8, <1>9, SubSeqFull

-----------------------------------------------------------------------------
(* What is below a node (Forest.tla).                                         *)

(* The least set that holds n and is closed under next.                       *)
LEMMA BelowFacts ==
  ASSUME NEW N, NEW next \in [N -> SUBSET N], NEW n \in N
  PROVE  /\ n \in Below(next, n) /\ Below(next, n) \subseteq N
         /\ \A p \in Below(next, n) : next[p] \subseteq Below(next, n)
         /\ \A S \in SUBSET N : n \in S /\ (\A p \in S : next[p] \subseteq S)
              => Below(next, n) \subseteq S
<1> DEFINE closed == {S \in SUBSET N : n \in S /\ \A p \in S : next[p] \subseteq S}
<1>1. Below(next, n) = {m \in N : \A S \in closed : m \in S}
  BY DEF Below
<1>2. ASSUME NEW p \in Below(next, n), NEW c \in next[p] PROVE c \in Below(next, n)
  <2>1. ASSUME NEW S \in closed PROVE c \in S
    BY <1>1, <1>2, <2>1
  <2> QED BY <1>1, <1>2, <2>1
<1> QED BY <1>1, <1>2

(* What is below n, other than n, is a child of something below n.            *)
LEMMA BelowParent ==
  ASSUME NEW N, NEW next \in [N -> SUBSET N], NEW n \in N, NEW m \in Below(next, n), m # n
  PROVE  \E p \in Below(next, n) : m \in next[p]
<1> DEFINE S == {n} \cup {c \in Below(next, n) : \E p \in Below(next, n) : c \in next[p]}
<1>1. S \in SUBSET N /\ n \in S /\ S \subseteq Below(next, n)
  BY BelowFacts
<1>2. ASSUME NEW p \in S, NEW c \in next[p] PROVE c \in S
  <2>1. p \in Below(next, n) /\ c \in Below(next, n)
    BY <1>1, <1>2, BelowFacts
  <2> QED BY <1>2, <2>1
<1>3. Below(next, n) \subseteq S
  <2> HIDE DEF S
  <2> QED BY <1>1, <1>2, BelowFacts
<1> QED BY <1>3

(* What is below something below n is below n.                                *)
LEMMA BelowTrans ==
  ASSUME NEW N, NEW next \in [N -> SUBSET N], NEW n \in N, NEW m \in Below(next, n)
  PROVE  m \in N /\ Below(next, m) \subseteq Below(next, n)
BY BelowFacts

(* Below n only what is below n matters.                                      *)
LEMMA BelowLocal ==
  ASSUME NEW N, NEW next \in [N -> SUBSET N], NEW other \in [N -> SUBSET N], NEW n \in N,
         \A p \in Below(next, n) : other[p] = next[p]
  PROVE  Below(other, n) = Below(next, n)
<1>1. Below(other, n) \subseteq Below(next, n)
  <2>1. Below(next, n) \in SUBSET N /\ n \in Below(next, n)
    BY BelowFacts
  <2>2. \A p \in Below(next, n) : other[p] \subseteq Below(next, n)
    BY BelowFacts
  <2> QED BY <2>1, <2>2, BelowFacts
<1>2. Below(next, n) \subseteq Below(other, n)
  <2>1. Below(other, n) \in SUBSET N /\ n \in Below(other, n)
    BY BelowFacts
  <2>2. \A p \in Below(other, n) : next[p] \subseteq Below(other, n)
    BY <1>1, BelowFacts
  <2> QED BY <2>1, <2>2, BelowFacts
<1> QED BY <1>1, <1>2

-----------------------------------------------------------------------------
(* What a heap represents: a forest of sequences.                             *)

InNone(ch, n) == \A m \in Nodes : n \notin ToSet(ch[m])

OnePlace(ch) ==
  \A m, n \in Nodes : \A i \in DOMAIN ch[m], j \in DOMAIN ch[n] :
    ch[m][i] = ch[n][j] => m = n /\ i = j

Stores(h, ch) ==
  /\ \A n \in Nodes : h[n].child = At(ch[n], 1) /\ Links(h, ch[n])
  /\ \A n \in Nodes : InNone(ch, n) => h[n].prev = NULL /\ h[n].next = NULL

(* In every set of items there is one that is no child of another in it.      *)
Acyclic(ch) ==
  \A S \in SUBSET Nodes : S # {} => \E n \in S : \A m \in S : n \notin ToSet(ch[m])

MembersHaveKeys(h, ch) ==
  \A o \in Objects : \A n \in ToSet(ch[o]) : h[n].string \in Keys

Represents(h, l, ch) ==
  /\ h \in Heaps /\ l \subseteq Nodes /\ ch \in [Nodes -> Seq(Nodes)]
  /\ \A n \in Nodes : ToSet(ch[n]) \subseteq l
  /\ \A n \in Nodes \ l : ch[n] = <<>> /\ h[n].string = NULL
  /\ OnePlace(ch) /\ Stores(h, ch) /\ Acyclic(ch) /\ MembersHaveKeys(h, ch)

Kids(ch) == [n \in Nodes |-> ToSet(ch[n])]

(* Facts about one sequence.                                                   *)
LEMMA SeqFacts ==
  ASSUME NEW s \in Seq(Nodes)
  PROVE  /\ Len(s) \in Nat /\ DOMAIN s = 1 .. Len(s)
         /\ ToSet(s) \subseteq Nodes
         /\ \A i \in DOMAIN s : s[i] \in Nodes /\ At(s, i) = s[i] /\ s[i] \in ToSet(s)
         /\ \A n \in ToSet(s) : \E i \in DOMAIN s : s[i] = n
         /\ \A i : At(s, i) \in Pointers /\ (At(s, i) # NULL <=> i \in DOMAIN s)
<1>1. Len(s) \in Nat /\ DOMAIN s = 1 .. Len(s) /\ \A i \in DOMAIN s : s[i] \in Nodes
  BY LenProperties, ElementOfSeq
<1> QED BY <1>1, NULLFacts DEF ToSet, At

(* What is used most of a heap that represents lists.                         *)
LEMMA RepresentsFacts ==
  ASSUME NEW h, NEW l, NEW ch, Represents(h, l, ch)
  PROVE  /\ h \in Heaps /\ l \subseteq Nodes /\ ch \in [Nodes -> Seq(Nodes)]
         /\ Kids(ch) \in [Nodes -> SUBSET Nodes]
         /\ \A n \in Nodes : ToSet(ch[n]) \subseteq l /\ ch[n] \in Seq(Nodes)
                            /\ Injective(ch[n]) /\ Links(h, ch[n])
                            /\ h[n].child = At(ch[n], 1) /\ Kids(ch)[n] = ToSet(ch[n])
         /\ \A m, n \in Nodes : ToSet(ch[m]) \cap ToSet(ch[n]) # {} => m = n
<1>1. h \in Heaps /\ l \subseteq Nodes /\ ch \in [Nodes -> Seq(Nodes)]
  BY DEF Represents
<1>2. \A n \in Nodes : ToSet(ch[n]) \subseteq l /\ ch[n] \in Seq(Nodes)
  BY DEF Represents
<1>3. \A n \in Nodes : Injective(ch[n])
  BY DEF Represents, OnePlace, Injective
<1>4. \A n \in Nodes : Links(h, ch[n]) /\ h[n].child = At(ch[n], 1)
  BY DEF Represents, Stores
<1>5. \A m, n \in Nodes : ToSet(ch[m]) \cap ToSet(ch[n]) # {} => m = n
  <2>1. OnePlace(ch)
    BY DEF Represents
  <2>2. ASSUME NEW m \in Nodes, NEW n \in Nodes, NEW x \in ToSet(ch[m]) \cap ToSet(ch[n])
        PROVE m = n
    <3>1. PICK i \in DOMAIN ch[m] : ch[m][i] = x
      BY <2>2 DEF ToSet
    <3>2. PICK j \in DOMAIN ch[n] : ch[n][j] = x
      BY <2>2 DEF ToSet
    <3> QED BY <2>1, <3>1, <3>2 DEF OnePlace
  <2> QED BY <2>2
<1>6. Kids(ch) \in [Nodes -> SUBSET Nodes] /\ \A n \in Nodes : Kids(ch)[n] = ToSet(ch[n])
  BY <1>2, SeqFacts DEF Kids
<1> QED BY <1>1, <1>2, <1>3, <1>4, <1>5, <1>6

(* The walk over next finds the sequence that is represented.                 *)
LEMMA ChildrenAre ==
  ASSUME NEW h, NEW l, NEW ch, Represents(h, l, ch)
  PROVE  \A n \in Nodes : ChildrenOf(h, n) = ch[n]
<1>1. ASSUME NEW n \in Nodes PROVE ChildrenOf(h, n) = ch[n]
  <2>1. h \in Heaps /\ ch[n] \in Seq(Nodes) /\ Injective(ch[n]) /\ Links(h, ch[n])
        /\ h[n].child = At(ch[n], 1)
    BY RepresentsFacts
  <2>2. List(h, At(ch[n], 1)) = ch[n]
    BY <2>1, ListIs
  <2> QED BY <2>1, <2>2 DEF ChildrenOf
<1> QED BY <1>1

(* What a step that changes the list of a to t has to do.                      *)
Relists(h, l, ch, a, t, h2) ==
  /\ Represents(h, l, ch) /\ a \in l /\ h2 \in Heaps
  /\ t \in Seq(Nodes) /\ Injective(t) /\ ToSet(t) \subseteq l
  /\ \A n \in ToSet(t) : n \in ToSet(ch[a]) \/ InNone(ch, n)
  /\ \A n \in Nodes : h2[n].child = IF n = a THEN At(t, 1) ELSE h[n].child
  /\ \A n \in Nodes : n \notin ToSet(ch[a]) /\ n \notin ToSet(t)
       => h2[n].next = h[n].next /\ h2[n].prev = h[n].prev
  /\ \A n \in ToSet(ch[a]) : n \notin ToSet(t) => h2[n].next = NULL /\ h2[n].prev = NULL
  /\ \A n \in Nodes \ l : h2[n].string = NULL
  /\ Links(h2, t) /\ Acyclic([ch EXCEPT ![a] = t]) /\ MembersHaveKeys(h2, [ch EXCEPT ![a] = t])

(* Then the heap represents the changed list, and the others as before.       *)
LEMMA Relist ==
  ASSUME NEW h, NEW l, NEW ch, NEW a, NEW t, NEW h2, Relists(h, l, ch, a, t, h2)
  PROVE  Represents(h2, l, [ch EXCEPT ![a] = t])
<1> DEFINE c == [ch EXCEPT ![a] = t]
<1>1. Represents(h, l, ch) /\ a \in l
  BY DEF Relists
<1>2. a \in Nodes /\ ch \in [Nodes -> Seq(Nodes)] /\ t \in Seq(Nodes)
  BY <1>1, RepresentsFacts DEF Relists
<1>3. c \in [Nodes -> Seq(Nodes)] /\ c[a] = t /\ \A n \in Nodes : n # a => c[n] = ch[n]
  BY <1>2
<1>4. Acyclic(c) /\ MembersHaveKeys(h2, c)
  BY DEF Relists
<1> HIDE DEF c
<1>5. \A n \in Nodes : ToSet(c[n]) \subseteq l
  <2>1. \A n \in Nodes : ToSet(ch[n]) \subseteq l
    BY <1>1, RepresentsFacts
  <2>2. ToSet(t) \subseteq l
    BY DEF Relists
  <2> QED BY <1>3, <2>1, <2>2
<1>6. \A n \in Nodes \ l : c[n] = <<>> /\ h2[n].string = NULL
  <2>1. \A n \in Nodes \ l : ch[n] = <<>>
    BY <1>1 DEF Represents
  <2> QED BY <1>1, <1>3, <2>1 DEF Relists
<1>7. OnePlace(c)
  <2>1. OnePlace(ch) /\ Injective(t)
    BY <1>1 DEF Represents, Relists
  <2>2. ASSUME NEW n \in Nodes, n # a PROVE ToSet(ch[n]) \cap ToSet(t) = {}
    <3>1. ASSUME NEW x \in ToSet(t), x \in ToSet(ch[n]) PROVE FALSE
      <4>1. x \in ToSet(ch[a])
        BY <3>1 DEF Relists, InNone
      <4>2. PICK i \in DOMAIN ch[n] : ch[n][i] = x
        BY <3>1 DEF ToSet
      <4>3. PICK j \in DOMAIN ch[a] : ch[a][j] = x
        BY <4>1 DEF ToSet
      <4> QED BY <1>2, <2>1, <2>2, <4>2, <4>3 DEF OnePlace
    <3> QED BY <3>1
  <2>3. ASSUME NEW m \in Nodes, NEW n \in Nodes, NEW i \in DOMAIN c[m], NEW j \in DOMAIN c[n],
               c[m][i] = c[n][j]
        PROVE  m = n /\ i = j
    <3>1. c[m][i] \in ToSet(c[m]) /\ c[m][i] \in ToSet(c[n])
      BY <2>3 DEF ToSet
    <3>2. CASE m = a /\ n = a
      BY <1>3, <2>1, <2>3, <3>2 DEF Injective
    <3>3. CASE m # a /\ n # a
      <4>1. c[m] = ch[m] /\ c[n] = ch[n]
        BY <1>3, <3>3
      <4>2. i \in DOMAIN ch[m] /\ j \in DOMAIN ch[n] /\ ch[m][i] = ch[n][j]
        BY <2>3, <4>1
      <4> QED BY <2>1, <4>2 DEF OnePlace
    <3>4. CASE m = a /\ n # a
      BY <1>3, <2>2, <3>1, <3>4
    <3>5. CASE m # a /\ n = a
      BY <1>3, <2>2, <3>1, <3>5
    <3> QED BY <3>2, <3>3, <3>4, <3>5
  <2> QED BY <2>3 DEF OnePlace
<1>8. Stores(h2, c)
  <2>1. ASSUME NEW n \in Nodes PROVE h2[n].child = At(c[n], 1)
    <3>1. h[n].child = At(ch[n], 1)
      BY <1>1, RepresentsFacts
    <3>2. h2[n].child = IF n = a THEN At(t, 1) ELSE h[n].child
      BY DEF Relists
    <3> QED BY <1>3, <3>1, <3>2
  <2>2. ASSUME NEW n \in Nodes PROVE Links(h2, c[n])
    <3>1. CASE n = a
      BY <1>3, <3>1 DEF Relists
    <3>2. CASE n # a
      <4>1. Links(h, ch[n]) /\ ch[n] \in Seq(Nodes)
        BY <1>1, RepresentsFacts
      <4>2. ASSUME NEW i \in DOMAIN ch[n]
            PROVE  h2[ch[n][i]].next = h[ch[n][i]].next /\ h2[ch[n][i]].prev = h[ch[n][i]].prev
        <5>1. ch[n][i] \in ToSet(ch[n]) /\ ch[n][i] \in Nodes
          BY <4>1, SeqFacts
        <5>2. ch[n][i] \notin ToSet(ch[a])
          BY <1>1, <1>2, <3>2, <5>1, RepresentsFacts
        <5>3. ch[n][i] \notin ToSet(t)
          BY <5>1, <5>2 DEF Relists, InNone
        <5> QED BY <5>1, <5>2, <5>3 DEF Relists
      <4> QED BY <1>3, <3>2, <4>1, <4>2 DEF Links
    <3> QED BY <3>1, <3>2
  <2>3. ASSUME NEW n \in Nodes, InNone(c, n) PROVE h2[n].prev = NULL /\ h2[n].next = NULL
    <3>1. n \notin ToSet(t)
      BY <1>2, <1>3, <2>3 DEF InNone
    <3>2. CASE n \in ToSet(ch[a])
      BY <3>1, <3>2 DEF Relists
    <3>3. CASE n \notin ToSet(ch[a])
      <4>1. InNone(ch, n)
        BY <1>3, <2>3, <3>3 DEF InNone
      <4>2. h[n].prev = NULL /\ h[n].next = NULL
        BY <1>1, <4>1 DEF Represents, Stores
      <4> QED BY <3>1, <3>3, <4>2 DEF Relists
    <3> QED BY <3>2, <3>3
  <2> QED BY <2>1, <2>2, <2>3 DEF Stores
<1>9. h2 \in Heaps /\ l \subseteq Nodes
  BY <1>1, RepresentsFacts DEF Relists
<1> QED BY <1>3, <1>4, <1>5, <1>6, <1>7, <1>8, <1>9 DEF Represents, c

(* Fewer children keep it acyclic, and so does one more that a is not below.   *)
LEMMA AcyclicLess ==
  ASSUME NEW ch, NEW c, Acyclic(ch), \A n \in Nodes : ToSet(c[n]) \subseteq ToSet(ch[n])
  PROVE  Acyclic(c)
BY DEF Acyclic

(* One more child that its parent is not below keeps the lists acyclic.       *)
LEMMA AcyclicMore ==
  ASSUME NEW h, NEW l, NEW ch, Represents(h, l, ch), NEW a \in l, NEW n \in Nodes, NEW t,
         ToSet(t) \subseteq ToSet(ch[a]) \cup {n}, a \notin Below(Kids(ch), n)
  PROVE  Acyclic([ch EXCEPT ![a] = t])
<1> DEFINE c == [ch EXCEPT ![a] = t]
<1>1. a \in Nodes /\ c[a] = t /\ \A m \in Nodes : m # a => c[m] = ch[m]
  BY RepresentsFacts
<1> HIDE DEF c
<1>2. /\ n \in Below(Kids(ch), n)
      /\ \A p \in Below(Kids(ch), n) : p \in Nodes /\ ToSet(ch[p]) \subseteq Below(Kids(ch), n)
  <2>1. Kids(ch) \in [Nodes -> SUBSET Nodes] /\ \A p \in Nodes : Kids(ch)[p] = ToSet(ch[p])
    BY RepresentsFacts
  <2> QED BY <2>1, BelowFacts
<1>3. ASSUME NEW S \in SUBSET Nodes, S # {} PROVE \E x \in S : \A m \in S : x \notin ToSet(c[m])
  <2> DEFINE T == {x \in S : x \notin Below(Kids(ch), n)}
  <2>0. Acyclic(ch)
    BY DEF Represents
  <2>1. CASE T # {}
    <3>1. PICK x \in T : \A m \in T : x \notin ToSet(ch[m])
      BY <2>0, <2>1 DEF Acyclic
    <3>2. \A m \in S : x \notin ToSet(ch[m])
      BY <1>2, <3>1
    <3>3. x # n
      BY <1>2
    <3> QED BY <1>1, <3>2, <3>3
  <2>2. CASE T = {}
    <3>1. PICK x \in S : \A m \in S : x \notin ToSet(ch[m])
      BY <1>3, <2>0 DEF Acyclic
    <3>2. a \notin S
      BY <2>2
    <3> QED BY <1>1, <3>1, <3>2
  <2> QED BY <2>1, <2>2
<1> QED BY <1>3 DEF Acyclic, c

-----------------------------------------------------------------------------
(* Insertion into a sequence.                                                 *)

(* t is s with n at place k.                                                  *)
Inserts(s, k, n, t) ==
  /\ t \in Seq(Nodes) /\ Len(t) = Len(s) + 1
  /\ \A i \in 1 .. Len(s) + 1 : t[i] = IF i < k THEN s[i] ELSE IF i = k THEN n ELSE s[i - 1]

(* InsertAt of the community modules, element by element.                     *)
LEMMA InsertFacts ==
  ASSUME NEW s \in Seq(Nodes), NEW k \in 1 .. Len(s) + 1, NEW n \in Nodes
  PROVE  Inserts(s, k, n, InsertAt(s, k, n))
<1> DEFINE p == SubSeq(s, 1, k - 1)
           q == SubSeq(s, k, Len(s))
           r == p \o <<n>>
           t == InsertAt(s, k, n)
<1>1. Len(s) \in Nat /\ k \in Nat
  BY LenProperties
<1>2. p \in Seq(Nodes) /\ Len(p) = k - 1 /\ \A i \in 1 .. k - 1 : p[i] = s[i]
  BY <1>1, SubSeqProperties, LenProperties
<1>3. q \in Seq(Nodes) /\ Len(q) = Len(s) - k + 1
      /\ \A i \in 1 .. Len(s) - k + 1 : q[i] = s[k + i - 1]
  BY <1>1, SubSeqProperties, LenProperties
<1>4. t = r \o q
  BY DEF InsertAt
<1> HIDE DEF p, q, t
<1>5. <<n>> \in Seq(Nodes) /\ Len(<<n>>) = 1 /\ <<n>>[1] = n
  OBVIOUS
<1>6. /\ r \in Seq(Nodes) /\ Len(r) = k
      /\ \A i \in 1 .. k : r[i] = IF i < k THEN s[i] ELSE n
  <2>1. /\ r \in Seq(Nodes) /\ Len(r) = Len(p) + 1
        /\ \A i \in 1 .. Len(p) + 1 : r[i] = IF i <= Len(p) THEN p[i] ELSE <<n>>[i - Len(p)]
    BY <1>2, <1>5, ConcatProperties
  <2> HIDE DEF r
  <2>2. ASSUME NEW i \in 1 .. k PROVE r[i] = IF i < k THEN s[i] ELSE n
    <3>1. i \in 1 .. Len(p) + 1 /\ (i <= Len(p) <=> i < k) /\ (i >= k => i - Len(p) = 1)
      BY <1>1, <1>2
    <3>2. r[i] = IF i <= Len(p) THEN p[i] ELSE <<n>>[i - Len(p)]
      BY <2>1, <3>1
    <3>3. CASE i < k
      BY <1>1, <1>2, <3>1, <3>2, <3>3
    <3>4. CASE i >= k
      BY <1>5, <3>1, <3>2, <3>4
    <3> QED BY <1>1, <3>3, <3>4
  <2> QED BY <1>1, <1>2, <2>1, <2>2
<1> HIDE DEF r
<1>7. /\ t \in Seq(Nodes) /\ Len(t) = Len(r) + Len(q)
      /\ \A i \in 1 .. Len(r) + Len(q) : t[i] = IF i <= Len(r) THEN r[i] ELSE q[i - Len(r)]
  BY <1>3, <1>4, <1>6, ConcatProperties
<1>8. Len(r) + Len(q) = Len(s) + 1 /\ Len(r) = k
  BY <1>1, <1>3, <1>6
<1>9. ASSUME NEW i \in 1 .. Len(s) + 1
      PROVE  t[i] = IF i < k THEN s[i] ELSE IF i = k THEN n ELSE s[i - 1]
  <2>1. t[i] = IF i <= k THEN r[i] ELSE q[i - k]
    BY <1>7, <1>8
  <2>2. CASE i <= k
    <3>1. i \in 1 .. k
      BY <1>1, <2>2
    <3> QED BY <1>1, <1>6, <2>1, <2>2, <3>1
  <2>3. CASE i > k
    <3>1. i - k \in 1 .. Len(s) - k + 1 /\ k + (i - k) - 1 = i - 1 /\ ~ (i <= k) /\ ~ (i < k)
          /\ i # k
      BY <1>1, <2>3
    <3> QED BY <1>3, <2>1, <3>1
  <2> QED BY <1>1, <2>2, <2>3
<1>10. t \in Seq(Nodes) /\ Len(t) = Len(s) + 1
  BY <1>7, <1>8
<1> QED BY <1>9, <1>10 DEF t, Inserts

(* To insert behind the last element is to append.                            *)
LEMMA InsertLast ==
  ASSUME NEW s \in Seq(Nodes), NEW n \in Nodes
  PROVE  InsertAt(s, Len(s) + 1, n) = Append(s, n)
<1>1. Len(s) \in Nat /\ Len(s) + 1 \in 1 .. Len(s) + 1
  BY LenProperties
<1> DEFINE t == InsertAt(s, Len(s) + 1, n)
           u == Append(s, n)
<1>2. /\ t \in Seq(Nodes) /\ Len(t) = Len(s) + 1
      /\ \A i \in 1 .. Len(s) + 1 :
            t[i] = IF i < Len(s) + 1 THEN s[i] ELSE IF i = Len(s) + 1 THEN n ELSE s[i - 1]
  <2>1. Inserts(s, Len(s) + 1, n, t)
    BY <1>1, InsertFacts
  <2> QED BY <2>1 DEF Inserts
<1>3. /\ u \in Seq(Nodes) /\ Len(u) = Len(s) + 1
      /\ \A i \in 1 .. Len(s) : u[i] = s[i]
      /\ u[Len(s) + 1] = n
  BY AppendProperties
<1> HIDE DEF t, u
<1>4. \A i \in 1 .. Len(t) : t[i] = u[i]
  BY <1>1, <1>2, <1>3
<1>5. t = u
  BY <1>2, <1>3, <1>4, SeqEqual
<1> QED BY <1>5 DEF t, u

(* The elements of the longer sequence and its neighbours.                    *)
LEMMA InsertSet ==
  ASSUME NEW s \in Seq(Nodes), NEW k \in 1 .. Len(s) + 1, NEW n \in Nodes
  PROVE  /\ ToSet(InsertAt(s, k, n)) = ToSet(s) \cup {n}
         /\ Injective(s) /\ n \notin ToSet(s) => Injective(InsertAt(s, k, n))
         /\ \A j \in Int : At(InsertAt(s, k, n), j)
              = IF j < k THEN At(s, j) ELSE IF j = k THEN n ELSE At(s, j - 1)
<1> DEFINE t == InsertAt(s, k, n)
<1>1. /\ t \in Seq(Nodes) /\ Len(t) = Len(s) + 1
      /\ \A i \in 1 .. Len(s) + 1 : t[i] = IF i < k THEN s[i] ELSE IF i = k THEN n ELSE s[i - 1]
  <2>1. Inserts(s, k, n, t)
    BY InsertFacts
  <2> QED BY <2>1 DEF Inserts
<1> HIDE DEF t
<1>2. Len(s) \in Nat /\ DOMAIN s = 1 .. Len(s) /\ DOMAIN t = 1 .. Len(s) + 1 /\ k \in Nat /\ k >= 1
      /\ k <= Len(s) + 1
  BY <1>1, LenProperties
<1>3. ToSet(t) = ToSet(s) \cup {n}
  <2>1. ASSUME NEW i \in DOMAIN t PROVE t[i] \in ToSet(s) \cup {n}
    BY <1>1, <1>2 DEF ToSet
  <2>2. ASSUME NEW i \in DOMAIN s PROVE s[i] \in ToSet(t)
    <3>1. CASE i < k
      BY <1>1, <1>2, <3>1 DEF ToSet
    <3>2. CASE i >= k
      <4>1. i + 1 \in DOMAIN t /\ (i + 1) - 1 = i /\ ~ (i + 1 < k) /\ i + 1 # k
        BY <1>2, <3>2
      <4>2. t[i + 1] = s[i]
        BY <1>1, <1>2, <4>1
      <4> QED BY <4>1, <4>2 DEF ToSet
    <3> QED BY <1>2, <3>1, <3>2
  <2>3. n \in ToSet(t)
    <3>1. k \in DOMAIN t /\ t[k] = n
      BY <1>1, <1>2
    <3> QED BY <3>1 DEF ToSet
  <2> QED BY <2>1, <2>2, <2>3 DEF ToSet
<1>4. ASSUME Injective(s), n \notin ToSet(s) PROVE Injective(t)
  <2>1. SUFFICES ASSUME NEW i \in DOMAIN t, NEW j \in DOMAIN t, t[i] = t[j] PROVE i = j
    BY DEF Injective
  <2>2. \A m \in DOMAIN s : s[m] # n
    BY <1>4 DEF ToSet
  <2> DEFINE f(x) == IF x < k THEN x ELSE x - 1
  <2>3. \A x \in DOMAIN t : IF x = k THEN t[x] = n ELSE f(x) \in DOMAIN s /\ t[x] = s[f(x)]
    BY <1>1, <1>2
  <2>4. \A x, y \in DOMAIN s : s[x] = s[y] => x = y
    BY <1>4 DEF Injective
  <2>5. \A x, y \in DOMAIN t : x # k /\ y # k /\ f(x) = f(y) => x = y
    BY <1>2
  <2> HIDE DEF f
  <2> QED BY <2>1, <2>2, <2>3, <2>4, <2>5
<1>5. ASSUME NEW j \in Int
      PROVE  At(t, j) = IF j < k THEN At(s, j) ELSE IF j = k THEN n ELSE At(s, j - 1)
  <2>1. (j \in DOMAIN t <=> 1 <= j /\ j <= Len(s) + 1) /\ (j \in DOMAIN s <=> 1 <= j /\ j <= Len(s))
        /\ (j - 1 \in DOMAIN s <=> 2 <= j /\ j <= Len(s) + 1)
    BY <1>2
  <2>2. j \in DOMAIN t => t[j] = IF j < k THEN s[j] ELSE IF j = k THEN n ELSE s[j - 1]
    BY <1>1, <1>2
  <2> QED BY <1>2, <2>1, <2>2 DEF At
<1> QED BY <1>3, <1>4, <1>5 DEF t

(* n is linked into a list s before its element k, or at its end.              *)
LinksIn(h, s, k, n, h2) ==
  \A x \in Nodes :
    /\ h2[x].next = IF x = n THEN At(s, k) ELSE IF x = At(s, k - 1) THEN n ELSE h[x].next
    /\ h2[x].prev = IF x = n THEN At(s, k - 1) ELSE IF x = At(s, k) THEN n ELSE h[x].prev

(* Its links are those of the longer sequence.                                *)
LEMMA LinkedIn ==
  ASSUME NEW h, NEW h2, NEW s \in Seq(Nodes), NEW k \in 1 .. Len(s) + 1, NEW n \in Nodes,
         Injective(s), n \notin ToSet(s), Links(h, s), LinksIn(h, s, k, n, h2)
  PROVE  Links(h2, InsertAt(s, k, n))
<1> DEFINE t == InsertAt(s, k, n)
<1>1. /\ t \in Seq(Nodes) /\ Len(t) = Len(s) + 1
      /\ \A i \in 1 .. Len(s) + 1 : t[i] = IF i < k THEN s[i] ELSE IF i = k THEN n ELSE s[i - 1]
  <2>1. Inserts(s, k, n, t)
    BY InsertFacts
  <2> QED BY <2>1 DEF Inserts
<1>2. \A j \in Int : At(t, j) = IF j < k THEN At(s, j) ELSE IF j = k THEN n ELSE At(s, j - 1)
  BY InsertSet
<1> HIDE DEF t
<1>3. Len(s) \in Nat /\ DOMAIN s = 1 .. Len(s) /\ DOMAIN t = 1 .. Len(s) + 1 /\ k \in Nat /\ k >= 1
      /\ k <= Len(s) + 1
  BY <1>1, LenProperties
<1>4. \A i \in DOMAIN s : s[i] \in Nodes /\ s[i] # n /\ h[s[i]].prev = At(s, i - 1)
      /\ h[s[i]].next = At(s, i + 1)
  BY SeqFacts DEF Links
<1>5. ASSUME NEW i \in DOMAIN s, NEW j \in Int PROVE s[i] = At(s, j) <=> i = j
  BY <1>4, NULLFacts DEF At, Injective
<1>6. ASSUME NEW i \in DOMAIN s
      PROVE  /\ h2[s[i]].next = IF i = k - 1 THEN n ELSE At(s, i + 1)
             /\ h2[s[i]].prev = IF i = k THEN n ELSE At(s, i - 1)
  <2>1. s[i] \in Nodes /\ s[i] # n /\ h[s[i]].prev = At(s, i - 1) /\ h[s[i]].next = At(s, i + 1)
    BY <1>4
  <2>2. k \in Int /\ k - 1 \in Int
    BY <1>3
  <2>3. (s[i] = At(s, k) <=> i = k) /\ (s[i] = At(s, k - 1) <=> i = k - 1)
    BY <1>5, <2>2
  <2>4. /\ h2[s[i]].next = IF s[i] = n THEN At(s, k) ELSE IF s[i] = At(s, k - 1) THEN n
             ELSE h[s[i]].next
        /\ h2[s[i]].prev = IF s[i] = n THEN At(s, k - 1) ELSE IF s[i] = At(s, k) THEN n
             ELSE h[s[i]].prev
    BY <2>1 DEF LinksIn
  <2> QED BY <2>1, <2>3, <2>4
<1>7. h2[n].next = At(s, k) /\ h2[n].prev = At(s, k - 1)
  BY DEF LinksIn
<1>8. ASSUME NEW i \in DOMAIN t PROVE h2[t[i]].prev = At(t, i - 1) /\ h2[t[i]].next = At(t, i + 1)
  <2>1. i \in Int /\ i - 1 \in Int /\ i + 1 \in Int /\ (i - 1) - 1 = i - 2 /\ (i + 1) - 1 = i
    BY <1>3
  <2>2. At(t, i - 1) = IF i - 1 < k THEN At(s, i - 1) ELSE IF i - 1 = k THEN n ELSE At(s, i - 2)
    BY <1>2, <2>1
  <2>3. At(t, i + 1) = IF i + 1 < k THEN At(s, i + 1) ELSE IF i + 1 = k THEN n ELSE At(s, i)
    BY <1>2, <2>1
  <2>4. CASE i < k
    <3>1. i \in DOMAIN s /\ t[i] = s[i]
      BY <1>1, <1>3, <2>4
    <3>2. i # k /\ i - 1 < k /\ (i = k - 1 <=> i + 1 = k) /\ (i # k - 1 => i + 1 < k)
          /\ ~ (i = k - 1 /\ i + 1 < k)
      BY <1>3, <2>4
    <3> QED BY <1>6, <2>2, <2>3, <3>1, <3>2
  <2>5. CASE i = k
    <3>1. t[i] = n
      BY <1>1, <1>3, <2>5
    <3>2. i - 1 < k /\ ~ (i + 1 < k) /\ i + 1 # k
      BY <1>3, <2>5
    <3> QED BY <1>7, <2>2, <2>3, <2>5, <3>1, <3>2
  <2>6. CASE i > k
    <3>1. i - 1 \in DOMAIN s /\ t[i] = s[i - 1]
      BY <1>1, <1>3, <2>6
    <3>2. i - 1 # k - 1 /\ ~ (i - 1 < k) /\ ~ (i + 1 < k) /\ i + 1 # k /\ (i - 1) + 1 = i
      BY <1>3, <2>6
    <3> QED BY <1>6, <2>1, <2>2, <2>3, <3>1, <3>2
  <2> QED BY <1>3, <2>4, <2>5, <2>6
<1> QED BY <1>8 DEF Links, t

(* What a call that puts n into the list of a has to do.                       *)
Attaches(h, l, ch, a, k, n, h2) ==
  /\ Represents(h, l, ch) /\ h2 \in Heaps
  /\ a \in l /\ n \in l /\ InNone(ch, n) /\ a \notin Below(Kids(ch), n)
  /\ k \in 1 .. Len(ch[a]) + 1
  /\ LinksIn(h, ch[a], k, n, h2)
  /\ \A x \in Nodes : h2[x].child = IF x = a /\ k = 1 THEN n ELSE h[x].child
  /\ \A x \in Nodes : h2[x].string = h[x].string
  /\ a \in Objects => h[n].string \in Keys

(* Then the heap represents the list with n in it.                            *)
LEMMA Attach ==
  ASSUME NEW h, NEW l, NEW ch, NEW a, NEW k, NEW n, NEW h2, Attaches(h, l, ch, a, k, n, h2)
  PROVE  Represents(h2, l, [ch EXCEPT ![a] = InsertAt(ch[a], k, n)])
<1> DEFINE s == ch[a]
           t == InsertAt(s, k, n)
           c == [ch EXCEPT ![a] = t]
<1>1. Represents(h, l, ch) /\ h2 \in Heaps /\ a \in l /\ n \in l /\ InNone(ch, n)
      /\ k \in 1 .. Len(s) + 1
  BY DEF Attaches
<1>2. a \in Nodes /\ n \in Nodes /\ s \in Seq(Nodes) /\ Injective(s) /\ Links(h, s)
      /\ ToSet(s) \subseteq l
      /\ h[a].child = At(s, 1)
  BY <1>1, RepresentsFacts
<1>3. n \notin ToSet(s)
  BY <1>1, <1>2 DEF InNone
<1>4. t \in Seq(Nodes) /\ ToSet(t) = ToSet(s) \cup {n} /\ Injective(t)
  BY <1>1, <1>2, <1>3, InsertFacts, InsertSet DEF Inserts
<1>5. Links(h2, t)
  <2>1. LinksIn(h, s, k, n, h2)
    BY DEF Attaches
  <2> QED BY <1>1, <1>2, <1>3, <2>1, LinkedIn
<1>6. At(t, 1) = IF k = 1 THEN n ELSE At(s, 1)
  <2>1. 1 \in Int /\ Len(s) \in Nat /\ k \in Nat /\ k >= 1
    BY <1>1, <1>2, LenProperties
  <2>2. At(t, 1) = IF 1 < k THEN At(s, 1) ELSE IF 1 = k THEN n ELSE At(s, 1 - 1)
    BY <1>1, <1>2, <2>1, InsertSet
  <2> QED BY <2>1, <2>2
<1>7. Acyclic(c)
  <2>1. a \notin Below(Kids(ch), n) /\ ToSet(t) \subseteq ToSet(ch[a]) \cup {n}
    BY <1>4 DEF Attaches
  <2> HIDE DEF t
  <2> QED BY <1>1, <1>2, <2>1, AcyclicMore
<1>8. \A x \in Nodes : h2[x].string = h[x].string
  BY DEF Attaches
<1>9. MembersHaveKeys(h2, c)
  <2>1. ASSUME NEW o \in Objects, NEW x \in ToSet(c[o]) PROVE h2[x].string \in Keys
    <3>0. o \in Nodes /\ ch \in [Nodes -> Seq(Nodes)]
      BY <1>1, RepresentsFacts, ItemAssumption DEF ItemAssumption
    <3>1. MembersHaveKeys(h, ch)
      BY <1>1 DEF Represents
    <3>2. CASE o = a
      <4>1. x \in ToSet(t)
        BY <2>1, <3>0, <3>2
      <4>2. x \in ToSet(s) \/ x = n
        BY <1>4, <4>1
      <4>3. x \in Nodes /\ h2[x].string = h[x].string
        BY <1>2, <1>8, <4>2, SeqFacts
      <4>4. x \in ToSet(s) => h[x].string \in Keys
        BY <2>1, <3>1, <3>2 DEF MembersHaveKeys
      <4>5. x = n => h[x].string \in Keys
        BY <2>1, <3>2 DEF Attaches
      <4> QED BY <4>2, <4>3, <4>4, <4>5
    <3>3. CASE o # a
      <4>1. x \in ToSet(ch[o]) /\ x \in Nodes
        BY <2>1, <3>0, <3>3, SeqFacts
      <4> QED BY <1>8, <3>1, <4>1 DEF MembersHaveKeys
    <3> QED BY <3>2, <3>3
  <2> HIDE DEF c
  <2> QED BY <2>1 DEF MembersHaveKeys
<1>10. ASSUME NEW x \in Nodes, x \notin ToSet(s), x \notin ToSet(t)
       PROVE  h2[x].next = h[x].next /\ h2[x].prev = h[x].prev
  <2>1. x # n /\ x # At(s, k) /\ x # At(s, k - 1)
    BY <1>2, <1>4, <1>10, NULLFacts DEF At, ToSet
  <2> QED BY <2>1 DEF Attaches, LinksIn
<1>11. \A x \in Nodes \ l : h2[x].string = NULL
  BY <1>1, <1>8 DEF Represents
<1>12. \A x \in Nodes : h2[x].child = IF x = a THEN At(t, 1) ELSE h[x].child
  BY <1>2, <1>6 DEF Attaches
<1>13. ToSet(t) \subseteq l /\ (\A x \in ToSet(t) : x \in ToSet(ch[a]) \/ InNone(ch, x))
       /\ (\A x \in ToSet(ch[a]) : x \in ToSet(t))
  BY <1>1, <1>2, <1>4
<1> HIDE DEF t
<1>14. Relists(h, l, ch, a, t, h2)
  BY <1>1, <1>4, <1>5, <1>7, <1>9, <1>10, <1>11, <1>12, <1>13 DEF Relists
<1> QED BY <1>14, Relist DEF t

-----------------------------------------------------------------------------
(* Adding and inserting.                                                      *)

(* What the caller grants: n is outside and a is not below it.                 *)
Attachable(h, l, ch, a, n) ==
  /\ Represents(h, l, ch)
  /\ a \in l /\ n \in l /\ InNone(ch, n) /\ a \notin Below(Kids(ch), n)
  /\ a \in Objects => h[n].string \in Keys

(* What follows from the grant.                                               *)
LEMMA AttachableFacts ==
  ASSUME NEW h, NEW l, NEW ch, NEW a, NEW n, Attachable(h, l, ch, a, n)
  PROVE  /\ a \in Nodes /\ n \in Nodes /\ a # n /\ h \in Heaps
         /\ ch[a] \in Seq(Nodes) /\ Injective(ch[a]) /\ Links(h, ch[a]) /\ n \notin ToSet(ch[a])
         /\ h[a].child = At(ch[a], 1) /\ h[n].next = NULL /\ h[n].prev = NULL
         /\ ChildrenOf(h, a) = ch[a]
<1>1. Represents(h, l, ch) /\ a \in l /\ n \in l /\ InNone(ch, n) /\ a \notin Below(Kids(ch), n)
  BY DEF Attachable
<1>2. a \in Nodes /\ n \in Nodes
  BY <1>1, RepresentsFacts
<1>3. n \in Below(Kids(ch), n)
  BY <1>1, <1>2, RepresentsFacts, BelowFacts
<1>4. h[n].next = NULL /\ h[n].prev = NULL
  BY <1>1, <1>2 DEF Represents, Stores
<1> QED BY <1>1, <1>2, <1>3, <1>4, RepresentsFacts, ChildrenAre DEF InNone

(* add_item_to_array appends.                                                 *)
LEMMA AddItem ==
  ASSUME NEW h, NEW l, NEW ch, NEW a, NEW n, Attachable(h, l, ch, a, n)
  PROVE  Attaches(h, l, ch, a, Len(ch[a]) + 1, n, add_item_to_array(h, a, n))
<1> DEFINE s == ch[a]
           h2 == add_item_to_array(h, a, n)
           k == Len(s) + 1
<1>1. /\ a \in Nodes /\ n \in Nodes /\ a # n /\ h \in Heaps
      /\ s \in Seq(Nodes) /\ Injective(s) /\ Links(h, s) /\ n \notin ToSet(s)
      /\ h[a].child = At(s, 1) /\ h[n].next = NULL /\ h[n].prev = NULL
      /\ ChildrenOf(h, a) = s
  BY AttachableFacts
<1>2. Len(s) \in Nat /\ DOMAIN s = 1 .. Len(s) /\ n \in Pointers /\ a \in Pointers
  BY <1>1, LenProperties, NULLFacts
<1>3. At(s, k) = NULL /\ k \in 1 .. Len(s) + 1 /\ k - 1 = Len(s)
  BY <1>2 DEF At
<1> HIDE DEF h2
<1>4. /\ h2 \in Heaps /\ LinksIn(h, s, k, n, h2)
      /\ \A x \in Nodes : h2[x].child = IF x = a /\ k = 1 THEN n ELSE h[x].child
      /\ \A x \in Nodes : h2[x].string = h[x].string
  <2>1. CASE h[a].child = NULL
    <3>1. Len(s) = 0
      <4>1. ~ (1 \in DOMAIN s)
        BY <1>1, <2>1, SeqFacts
      <4> QED BY <1>2, <4>1
    <3>2. k = 1 /\ At(s, k - 1) = NULL
      BY <1>2, <3>1 DEF At
    <3>3. h2 = Set(h, a, "child", n)
      BY <2>1 DEF h2, add_item_to_array
    <3>4. /\ h2 \in Heaps
          /\ \A x \in Nodes :
               /\ h2[x].child = IF x = a THEN n ELSE h[x].child
               /\ h2[x].next = h[x].next
               /\ h2[x].prev = h[x].prev
               /\ h2[x].string = h[x].string
      BY <1>1, <1>2, <3>3, SetChild
    <3>5. LinksIn(h, s, k, n, h2)
      BY <1>1, <1>3, <3>2, <3>4, NULLFacts DEF LinksIn
    <3> QED BY <3>2, <3>4, <3>5
  <2>2. CASE h[a].child # NULL
    <3>1. 1 \in DOMAIN s
      BY <1>1, <2>2, SeqFacts
    <3>2. Len(s) >= 1 /\ Len(s) \in DOMAIN s
      BY <1>2, <3>1
    <3>3. k # 1 /\ At(s, k - 1) = s[Len(s)] /\ s[Len(s)] \in Nodes
      BY <1>1, <1>2, <1>3, <3>2, SeqFacts
    <3>a. PICK p : p = s[Len(s)]
      OBVIOUS
    <3>4. h2 = suffix_object(h, p, n)
      BY <3>a, <1>1, <2>2 DEF h2, add_item_to_array, Last
    <3>5. p \in Pointers /\ p # n
      BY <3>a, <1>1, <3>2, <3>3, NULLFacts, SeqFacts
    <3>b. h \in Heaps /\ p \in Pointers /\ n \in Pointers
      BY <1>1, <1>2, <3>5
    <3>6. /\ h2 \in Heaps
          /\ \A x \in Nodes :
               /\ h2[x].next = IF x = p THEN n ELSE h[x].next
               /\ h2[x].prev = IF x = n THEN p ELSE h[x].prev
               /\ h2[x].child = h[x].child
               /\ h2[x].string = h[x].string
      BY <3>4, <3>b, Suffixed
    <3>7. LinksIn(h, s, k, n, h2)
      BY <1>1, <1>3, <3>a, <3>3, <3>5, <3>6, NULLFacts DEF LinksIn
    <3> QED BY <3>3, <3>6, <3>7
  <2> QED BY <2>1, <2>2
<1> QED BY <1>3, <1>4 DEF Attaches, Attachable, h2

(* InsertBefore puts n before the element k.                                  *)
LEMMA InsertItem ==
  ASSUME NEW h, NEW l, NEW ch, NEW a, NEW n, Attachable(h, l, ch, a, n), NEW k \in DOMAIN ch[a]
  PROVE  Attaches(h, l, ch, a, k, n, InsertBefore(h, a, ch[a][k], n))
<1> DEFINE s == ch[a]
           p == s[k]
           h1 == Set(h, n, "next", p)
           h2 == Set(h1, n, "prev", h1[p].prev)
           h3 == Set(h2, p, "prev", n)
           h4 == IF h3[a].child = p THEN Set(h3, a, "child", n) ELSE Set(h3, h3[n].prev, "next", n)
<1>1. /\ a \in Nodes /\ n \in Nodes /\ a # n /\ h \in Heaps
      /\ s \in Seq(Nodes) /\ Injective(s) /\ Links(h, s) /\ n \notin ToSet(s)
      /\ h[a].child = At(s, 1) /\ h[n].next = NULL /\ h[n].prev = NULL
  BY AttachableFacts
<1>2. Len(s) \in Nat /\ DOMAIN s = 1 .. Len(s) /\ k \in 1 .. Len(s) + 1 /\ n \in Pointers
      /\ a \in Pointers
  BY <1>1, LenProperties, NULLFacts
<1>3. At(s, k) = p /\ p \in Nodes /\ p \in Pointers /\ p # n /\ h[p].prev = At(s, k - 1)
      /\ At(s, k - 1) \in Pointers /\ At(s, k - 1) # n
  <2>1. At(s, k) = p /\ p \in Nodes /\ p \in ToSet(s) /\ At(s, k - 1) \in Pointers
    BY <1>1, SeqFacts
  <2>2. h[p].prev = At(s, k - 1)
    BY <1>1 DEF Links
  <2>3. At(s, k - 1) # n
    BY <1>1, NULLFacts DEF At, ToSet
  <2> QED BY <1>1, <2>1, <2>2, <2>3, NULLFacts
<1>4. InsertBefore(h, a, p, n) = h4
  BY DEF InsertBefore
<1> HIDE DEF p
<1>5. /\ h1 \in Heaps
      /\ \A x \in Nodes :
           /\ h1[x].next = IF x = n THEN p ELSE h[x].next
           /\ h1[x].prev = h[x].prev
           /\ h1[x].child = h[x].child
           /\ h1[x].string = h[x].string
  BY <1>1, <1>2, <1>3, SetNext
<1> HIDE DEF h1
<1>6. h1[p].prev = At(s, k - 1)
  BY <1>3, <1>5
<1>7. /\ h2 \in Heaps
      /\ \A x \in Nodes :
           /\ h2[x].prev = IF x = n THEN At(s, k - 1) ELSE h1[x].prev
           /\ h2[x].next = h1[x].next
           /\ h2[x].child = h1[x].child
           /\ h2[x].string = h1[x].string
  BY <1>2, <1>3, <1>5, <1>6, SetPrev
<1> HIDE DEF h2
<1>8. /\ h3 \in Heaps
      /\ \A x \in Nodes :
           /\ h3[x].prev = IF x = p THEN n ELSE h2[x].prev
           /\ h3[x].next = h2[x].next
           /\ h3[x].child = h2[x].child
           /\ h3[x].string = h2[x].string
  BY <1>2, <1>3, <1>7, SetPrev
<1> HIDE DEF h3
<1>9. h3[a].child = At(s, 1) /\ h3[n].prev = At(s, k - 1)
  BY <1>1, <1>3, <1>5, <1>7, <1>8
<1>10. k = 1 <=> At(s, 1) = p
  <2>1. 1 \in DOMAIN s
    BY <1>2
  <2>2. At(s, 1) = s[1]
    BY <1>1, <2>1, SeqFacts
  <2> QED BY <1>1, <2>1, <2>2 DEF Injective, p
<1>11. /\ h4 \in Heaps /\ LinksIn(h, s, k, n, h4)
       /\ \A x \in Nodes : h4[x].child = IF x = a /\ k = 1 THEN n ELSE h[x].child
       /\ \A x \in Nodes : h4[x].string = h[x].string
  <2>1. CASE k = 1
    <3>0. h3[a].child = p
      BY <1>9, <1>10, <2>1
    <3>1. h4 = Set(h3, a, "child", n)
      BY <3>0
    <3> HIDE DEF h4
    <3>2. /\ h4 \in Heaps
          /\ \A x \in Nodes :
               /\ h4[x].child = IF x = a THEN n ELSE h3[x].child
               /\ h4[x].next = h3[x].next
               /\ h4[x].prev = h3[x].prev
               /\ h4[x].string = h3[x].string
      BY <1>2, <1>8, <3>1, SetChild
    <3>3. At(s, k - 1) = NULL
      BY <1>2, <2>1 DEF At
    <3>4. LinksIn(h, s, k, n, h4)
      BY <1>3, <1>5, <1>7, <1>8, <3>2, <3>3, NULLFacts DEF LinksIn
    <3>5. \A x \in Nodes : h4[x].child = IF x = a THEN n ELSE h[x].child
      BY <1>5, <1>7, <1>8, <3>2
    <3>6. \A x \in Nodes : h4[x].string = h[x].string
      BY <1>5, <1>7, <1>8, <3>2
    <3> QED BY <2>1, <3>2, <3>4, <3>5, <3>6
  <2>2. CASE k # 1
    <3>0. h3[a].child # p
      BY <1>9, <1>10, <2>2
    <3>1. h4 = Set(h3, At(s, k - 1), "next", n)
      BY <1>9, <3>0
    <3> HIDE DEF h4
    <3>a. PICK q : q = At(s, k - 1)
      OBVIOUS
    <3>b. h4 = Set(h3, q, "next", n)
      BY <3>1, <3>a
    <3>c. h3 \in Heaps /\ q \in Pointers /\ n \in Pointers
      BY <1>2, <1>3, <1>8, <3>a
    <3>2. /\ h4 \in Heaps
          /\ \A x \in Nodes :
               /\ h4[x].next = IF x = q THEN n ELSE h3[x].next
               /\ h4[x].prev = h3[x].prev
               /\ h4[x].child = h3[x].child
               /\ h4[x].string = h3[x].string
      BY <3>b, <3>c, SetNext
    <3>3. LinksIn(h, s, k, n, h4)
      BY <1>3, <1>5, <1>7, <1>8, <3>a, <3>2, NULLFacts DEF LinksIn
    <3>4. \A x \in Nodes : h4[x].child = h[x].child /\ h4[x].string = h[x].string
      BY <1>5, <1>7, <1>8, <3>2
    <3> QED BY <2>2, <3>2, <3>3, <3>4
  <2> QED BY <2>1, <2>2
<1> HIDE DEF h4
<1>12. Attaches(h, l, ch, a, k, n, h4)
  BY <1>2, <1>11 DEF Attaches, Attachable
<1> QED BY <1>4, <1>12 DEF p

-----------------------------------------------------------------------------
(* Detaching.                                                                 *)

(* RemoveAt of the community modules, element by element.                     *)
LEMMA RemoveFacts ==
  ASSUME NEW S, NEW s \in Seq(S), NEW i \in DOMAIN s
  PROVE  /\ RemoveAt(s, i) \in Seq(S) /\ Len(RemoveAt(s, i)) = Len(s) - 1
         /\ DOMAIN RemoveAt(s, i) = 1 .. Len(s) - 1
         /\ \A j \in 1 .. Len(s) - 1 :
              RemoveAt(s, i)[j] = IF j < i THEN s[j] ELSE s[j + 1]
<1>1. i \in 1 .. Len(s) /\ Len(s) \in Nat
  OBVIOUS
<1>2. /\ SubSeq(s, 1, i - 1) \in Seq(S) /\ Len(SubSeq(s, 1, i - 1)) = i - 1
      /\ \A j \in 1 .. i - 1 : SubSeq(s, 1, i - 1)[j] = s[j]
  BY <1>1
<1>3. /\ SubSeq(s, i + 1, Len(s)) \in Seq(S) /\ Len(SubSeq(s, i + 1, Len(s))) = Len(s) - i
      /\ \A j \in 1 .. Len(s) - i : SubSeq(s, i + 1, Len(s))[j] = s[i + j]
  BY <1>1
<1> DEFINE p == SubSeq(s, 1, i - 1)
           q == SubSeq(s, i + 1, Len(s))
<1>4. RemoveAt(s, i) = p \o q
  BY DEF RemoveAt
<1> HIDE DEF p, q
<1>a. p \in Seq(S) /\ q \in Seq(S) /\ Len(p) = i - 1 /\ Len(q) = Len(s) - i
  BY <1>2, <1>3 DEF p, q
<1> DEFINE r == RemoveAt(s, i)
<1>b. /\ r \in Seq(S) /\ Len(r) = Len(p) + Len(q)
      /\ \A j \in 1 .. Len(p) + Len(q) : r[j] = IF j <= Len(p) THEN p[j] ELSE q[j - Len(p)]
  <2>1. PICK u \in Seq(S), v \in Seq(S) : u = p /\ v = q
    BY <1>a
  <2>2. u \o v \in Seq(S) /\ Len(u \o v) = Len(u) + Len(v)
    BY ConcatProperties
  <2>3. \A j \in 1 .. Len(u) + Len(v) :
          (u \o v)[j] = IF j <= Len(u) THEN u[j] ELSE v[j - Len(u)]
    BY ConcatProperties
  <2> QED BY <1>4, <2>1, <2>2, <2>3
<1> HIDE DEF r
<1>5. /\ r \in Seq(S) /\ Len(r) = Len(s) - 1 /\ DOMAIN r = 1 .. Len(s) - 1
      /\ \A j \in 1 .. Len(s) - 1 : r[j] = IF j <= Len(p) THEN p[j] ELSE q[j - Len(p)]
  <2>1. Len(p) + Len(q) = Len(s) - 1
    BY <1>1, <1>a
  <2>2. r \in Seq(S) /\ Len(r) = Len(s) - 1
    BY <1>b, <2>1
  <2>3. DOMAIN r = 1 .. Len(s) - 1
    BY <2>2
  <2> QED BY <1>b, <2>1, <2>2, <2>3
<1>6. ASSUME NEW j \in 1 .. Len(s) - 1
      PROVE  r[j] = IF j < i THEN s[j] ELSE s[j + 1]
  <2>1. CASE j < i
    <3>1. j \in 1 .. i - 1 /\ j <= Len(p)
      BY <1>1, <1>a, <2>1
    <3>2. p[j] = s[j]
      BY <1>2, <3>1 DEF p
    <3> QED BY <1>5, <2>1, <3>1, <3>2
  <2>2. CASE ~ (j < i)
    <3>1. j - Len(p) \in 1 .. Len(s) - i /\ ~ (j <= Len(p)) /\ i + (j - Len(p)) = j + 1
      BY <1>1, <1>a, <2>2
    <3>2. q[j - Len(p)] = s[j + 1]
      BY <1>3, <3>1 DEF q
    <3> QED BY <1>5, <2>2, <3>1, <3>2
  <2> QED BY <2>1, <2>2
<1> QED BY <1>5, <1>6 DEF r

(* The elements of the shorter sequence and its neighbours.                   *)
LEMMA RemoveSet ==
  ASSUME NEW s \in Seq(Nodes), NEW k \in DOMAIN s, Injective(s)
  PROVE  /\ ToSet(RemoveAt(s, k)) = ToSet(s) \ {s[k]}
         /\ Injective(RemoveAt(s, k))
         /\ \A j \in Int : At(RemoveAt(s, k), j) = IF j < k THEN At(s, j) ELSE At(s, j + 1)
<1> DEFINE t == RemoveAt(s, k)
           f(i) == IF i < k THEN i ELSE i + 1
<1>1. /\ t \in Seq(Nodes) /\ Len(t) = Len(s) - 1 /\ DOMAIN t = 1 .. Len(s) - 1
      /\ \A j \in 1 .. Len(s) - 1 : t[j] = IF j < k THEN s[j] ELSE s[j + 1]
  BY RemoveFacts
<1> HIDE DEF t
<1>2. Len(s) \in Nat /\ DOMAIN s = 1 .. Len(s) /\ k \in Nat /\ k >= 1 /\ k <= Len(s)
  BY LenProperties
<1>3. \A i \in DOMAIN t : f(i) \in DOMAIN s /\ f(i) # k /\ t[i] = s[f(i)]
  BY <1>1, <1>2
<1>4. \A i, j \in DOMAIN t : f(i) = f(j) => i = j
  BY <1>1, <1>2
<1>5. \A i \in DOMAIN s : i # k => \E j \in DOMAIN t : f(j) = i
  <2>1. ASSUME NEW i \in DOMAIN s, i < k PROVE i \in DOMAIN t /\ f(i) = i
    BY <1>1, <1>2, <2>1
  <2>2. ASSUME NEW i \in DOMAIN s, i > k PROVE i - 1 \in DOMAIN t /\ f(i - 1) = i
    BY <1>1, <1>2, <2>2
  <2>3. \A i \in DOMAIN s : i # k => i < k \/ i > k
    BY <1>2
  <2> HIDE DEF f
  <2> QED BY <2>1, <2>2, <2>3
<1>6. ASSUME NEW j \in Int PROVE At(t, j) = IF j < k THEN At(s, j) ELSE At(s, j + 1)
  <2>1. /\ j < k => (j \in DOMAIN t <=> j \in DOMAIN s)
        /\ ~ (j < k) => (j \in DOMAIN t <=> j + 1 \in DOMAIN s)
    BY <1>1, <1>2
  <2>2. j \in DOMAIN t => t[j] = IF j < k THEN s[j] ELSE s[j + 1]
    BY <1>1
  <2> QED BY <2>1, <2>2 DEF At
<1> HIDE DEF f
<1>7. \A i, j \in DOMAIN s : s[i] = s[j] => i = j
  BY DEF Injective
<1>8. ToSet(t) = ToSet(s) \ {s[k]}
  <2>1. ASSUME NEW i \in DOMAIN t PROVE t[i] \in ToSet(s) \ {s[k]}
    BY <1>3, <1>7, <2>1 DEF ToSet
  <2>2. ASSUME NEW i \in DOMAIN s, s[i] # s[k] PROVE s[i] \in ToSet(t)
    BY <1>3, <1>5, <2>2 DEF ToSet
  <2> QED BY <2>1, <2>2 DEF ToSet
<1>9. Injective(t)
  BY <1>3, <1>4, <1>7 DEF Injective
<1> QED BY <1>6, <1>8, <1>9 DEF t

(* The element k of a list s is taken out of it.                               *)
LinksOut(h, s, k, h2) ==
  \A x \in Nodes :
    /\ h2[x].next = IF x = s[k] THEN NULL ELSE IF x = At(s, k - 1) THEN At(s, k + 1) ELSE h[x].next
    /\ h2[x].prev = IF x = s[k] THEN NULL ELSE IF x = At(s, k + 1) THEN At(s, k - 1) ELSE h[x].prev

(* What remains has the links of the shorter sequence.                        *)
LEMMA LinkedOut ==
  ASSUME NEW h, NEW h2, NEW s \in Seq(Nodes), NEW k \in DOMAIN s,
         Injective(s), Links(h, s), LinksOut(h, s, k, h2)
  PROVE  Links(h2, RemoveAt(s, k))
<1> DEFINE t == RemoveAt(s, k)
<1>1. /\ t \in Seq(Nodes) /\ Len(t) = Len(s) - 1 /\ DOMAIN t = 1 .. Len(s) - 1
      /\ \A j \in 1 .. Len(s) - 1 : t[j] = IF j < k THEN s[j] ELSE s[j + 1]
  BY RemoveFacts
<1>2. \A j \in Int : At(t, j) = IF j < k THEN At(s, j) ELSE At(s, j + 1)
  BY RemoveSet
<1> HIDE DEF t
<1>3. Len(s) \in Nat /\ DOMAIN s = 1 .. Len(s) /\ k \in Nat /\ k >= 1 /\ k <= Len(s)
  BY LenProperties
<1>4. \A i \in DOMAIN s : s[i] \in Nodes /\ h[s[i]].prev = At(s, i - 1)
      /\ h[s[i]].next = At(s, i + 1)
  BY SeqFacts DEF Links
<1>5. ASSUME NEW i \in DOMAIN s, NEW j \in Int PROVE s[i] = At(s, j) <=> i = j
  BY <1>4, NULLFacts DEF At, Injective
<1>6. ASSUME NEW i \in DOMAIN s, i # k
      PROVE  /\ h2[s[i]].next = IF i = k - 1 THEN At(s, k + 1) ELSE At(s, i + 1)
             /\ h2[s[i]].prev = IF i = k + 1 THEN At(s, k - 1) ELSE At(s, i - 1)
  <2>1. s[i] \in Nodes /\ h[s[i]].prev = At(s, i - 1) /\ h[s[i]].next = At(s, i + 1) /\ s[i] # s[k]
    BY <1>4, <1>6 DEF Injective
  <2>2. k + 1 \in Int /\ k - 1 \in Int
    BY <1>3
  <2>3. (s[i] = At(s, k + 1) <=> i = k + 1) /\ (s[i] = At(s, k - 1) <=> i = k - 1)
    BY <1>5, <2>2
  <2>4. /\ h2[s[i]].next = IF s[i] = s[k] THEN NULL
             ELSE IF s[i] = At(s, k - 1) THEN At(s, k + 1) ELSE h[s[i]].next
        /\ h2[s[i]].prev = IF s[i] = s[k] THEN NULL
             ELSE IF s[i] = At(s, k + 1) THEN At(s, k - 1) ELSE h[s[i]].prev
    BY <2>1 DEF LinksOut
  <2> QED BY <2>1, <2>3, <2>4
<1>7. ASSUME NEW i \in DOMAIN t PROVE h2[t[i]].prev = At(t, i - 1) /\ h2[t[i]].next = At(t, i + 1)
  <2>1. i \in Int /\ i - 1 \in Int /\ i + 1 \in Int /\ (i - 1) + 1 = i
    BY <1>1, <1>3
  <2>2. At(t, i - 1) = IF i - 1 < k THEN At(s, i - 1) ELSE At(s, i)
    BY <1>2, <2>1
  <2>3. At(t, i + 1) = IF i + 1 < k THEN At(s, i + 1) ELSE At(s, i + 2)
    <3>1. (i + 1) + 1 = i + 2
      BY <2>1
    <3> QED BY <1>2, <2>1, <3>1
  <2>4. CASE i < k
    <3>1. i \in DOMAIN s /\ t[i] = s[i] /\ i # k
      BY <1>1, <1>3, <2>4
    <3>2. i # k + 1 /\ i - 1 < k /\ (i = k - 1 => k + 1 = i + 2 /\ ~ (i + 1 < k))
          /\ (i # k - 1 => i + 1 < k)
      BY <1>1, <1>3, <2>4
    <3> QED BY <1>6, <2>2, <2>3, <3>1, <3>2
  <2>5. CASE i >= k
    <3>1. i + 1 \in DOMAIN s /\ t[i] = s[i + 1] /\ i + 1 # k
      BY <1>1, <1>3, <2>5
    <3>2. i + 1 # k - 1 /\ ~ (i + 1 < k) /\ (i + 1) + 1 = i + 2 /\ (i + 1) - 1 = i
          /\ (i + 1 = k + 1 => i - 1 < k /\ k - 1 = i - 1) /\ (i + 1 # k + 1 => ~ (i - 1 < k))
      BY <1>1, <1>3, <2>5
    <3> QED BY <1>6, <2>2, <2>3, <3>1, <3>2
  <2> QED BY <1>1, <1>3, <2>4, <2>5
<1> QED BY <1>7 DEF Links, t

(* No key changes.                                                            *)
SameKeys(h, h2) == \A x \in Nodes : h2[x].string = h[x].string

(* DetachItemViaPointer takes one item out of its list and clears its links.  *)
LEMMA DetachItem ==
  ASSUME NEW h, NEW l, NEW ch, Represents(h, l, ch), NEW a \in l, NEW k \in DOMAIN ch[a]
  PROVE  /\ Represents(DetachItemViaPointer(h, a, ch[a][k]),
              l, [ch EXCEPT ![a] = RemoveAt(ch[a], k)])
         /\ SameKeys(h, DetachItemViaPointer(h, a, ch[a][k]))
<1> DEFINE s == ch[a]
           p == s[k]
           before == At(s, k - 1)
           after == At(s, k + 1)
           t == RemoveAt(s, k)
           h1 == Set(h, h[p].prev, "next", h[p].next)
           h2 == Set(h1, h1[p].next, "prev", h1[p].prev)
           h3 == IF h2[a].child = p THEN Set(h2, a, "child", h2[p].next) ELSE h2
           h4 == Set(h3, p, "prev", NULL)
           h5 == Set(h4, p, "next", NULL)
<1>1. /\ a \in Nodes /\ h \in Heaps
      /\ s \in Seq(Nodes) /\ Injective(s) /\ Links(h, s) /\ ToSet(s) \subseteq l
      /\ h[a].child = At(s, 1)
  BY RepresentsFacts
<1>2. Len(s) \in Nat /\ DOMAIN s = 1 .. Len(s) /\ NULL \in Pointers /\ a \in Pointers
  BY <1>1, LenProperties, NULLFacts
<1>3. /\ p \in Nodes /\ p \in Pointers /\ before \in Pointers /\ after \in Pointers
      /\ h[p].prev = before /\ h[p].next = after
      /\ before # p /\ after # p
  <2>1. p \in Nodes /\ before \in Pointers /\ after \in Pointers
    BY <1>1, SeqFacts
  <2>2. h[p].prev = before /\ h[p].next = after
    BY <1>1 DEF Links
  <2>3. before # p /\ after # p
    <3>1. k - 1 # k /\ k + 1 # k
      BY <1>2
    <3> QED BY <1>1, <2>1, <3>1, NULLFacts DEF At, Injective
  <2> QED BY <2>1, <2>2, <2>3, NULLFacts
<1>4. DetachItemViaPointer(h, a, p) = h5
  BY DEF DetachItemViaPointer
<1>5. k = 1 <=> At(s, 1) = p
  <2>1. 1 \in DOMAIN s
    BY <1>2
  <2>2. At(s, 1) = s[1]
    BY <1>1, <2>1, SeqFacts
  <2> QED BY <1>1, <2>1, <2>2 DEF Injective
<1>6. t \in Seq(Nodes) /\ ToSet(t) = ToSet(s) \ {p} /\ Injective(t)
  BY <1>1, RemoveFacts, RemoveSet
<1>7. At(t, 1) = IF k = 1 THEN after ELSE At(s, 1)
  <2>1. k \in Nat /\ k >= 1 /\ 1 \in Int /\ (1 < k <=> k # 1) /\ (k = 1 => k + 1 = 1 + 1)
    BY <1>2
  <2>2. At(t, 1) = IF 1 < k THEN At(s, 1) ELSE At(s, 1 + 1)
    BY <1>1, <2>1, RemoveSet
  <2> QED BY <2>1, <2>2
<1>8. LinksOut(h, s, k, h5) <=>
        \A x \in Nodes :
          /\ h5[x].next = IF x = p THEN NULL ELSE IF x = before THEN after ELSE h[x].next
          /\ h5[x].prev = IF x = p THEN NULL ELSE IF x = after THEN before ELSE h[x].prev
  BY DEF LinksOut
<1>b. \A x \in Nodes : x \notin ToSet(s) => x # p /\ x # before /\ x # after
  BY <1>1, NULLFacts DEF At, ToSet
<1> HIDE DEF p, before, after, h5
<1>9. /\ h1 \in Heaps
      /\ \A x \in Nodes :
           /\ h1[x].next = IF x = before THEN after ELSE h[x].next
           /\ h1[x].prev = h[x].prev
           /\ h1[x].child = h[x].child
           /\ h1[x].string = h[x].string
  <2>1. h1 = Set(h, before, "next", after)
    BY <1>3
  <2> HIDE DEF h1
  <2>2. h \in Heaps /\ before \in Pointers /\ after \in Pointers
    BY <1>1, <1>3
  <2> QED BY <2>1, <2>2, SetNext
<1> HIDE DEF h1
<1>10. h1[p].next = after /\ h1[p].prev = before
  BY <1>3, <1>9
<1>11. /\ h2 \in Heaps
       /\ \A x \in Nodes :
            /\ h2[x].prev = IF x = after THEN before ELSE h1[x].prev
            /\ h2[x].next = h1[x].next
            /\ h2[x].child = h1[x].child
            /\ h2[x].string = h1[x].string
  <2>1. h2 = Set(h1, after, "prev", before)
    BY <1>10
  <2> HIDE DEF h2
  <2>2. h1 \in Heaps /\ before \in Pointers /\ after \in Pointers
    BY <1>3, <1>9
  <2> QED BY <2>1, <2>2, SetPrev
<1> HIDE DEF h2
<1>12. h2[a].child = At(s, 1) /\ h2[p].next = after
  BY <1>1, <1>3, <1>9, <1>10, <1>11
<1>13. /\ h3 \in Heaps
       /\ \A x \in Nodes :
            /\ h3[x].child = IF x = a /\ k = 1 THEN after ELSE h2[x].child
            /\ h3[x].next = h2[x].next
            /\ h3[x].prev = h2[x].prev
            /\ h3[x].string = h2[x].string
  <2>1. CASE k = 1
    <3>1. h3 = Set(h2, a, "child", after)
      BY <1>5, <1>12, <2>1
    <3> HIDE DEF h3
    <3>2. h2 \in Heaps /\ a \in Pointers /\ after \in Pointers
      BY <1>2, <1>3, <1>11
    <3>3. /\ h3 \in Heaps
          /\ \A x \in Nodes :
              /\ h3[x].child = IF x = a THEN after ELSE h2[x].child
              /\ h3[x].next = h2[x].next
              /\ h3[x].prev = h2[x].prev
              /\ h3[x].string = h2[x].string
      BY <3>1, <3>2, SetChild
    <3> QED BY <2>1, <3>3
  <2>2. CASE k # 1
    <3>1. h3 = h2
      BY <1>5, <1>12, <2>2
    <3> HIDE DEF h3
    <3> QED BY <1>11, <2>2, <3>1
  <2> QED BY <2>1, <2>2
<1> HIDE DEF h3
<1>14. /\ h4 \in Heaps
       /\ \A x \in Nodes :
            /\ h4[x].prev = IF x = p THEN NULL ELSE h3[x].prev
            /\ h4[x].next = h3[x].next
            /\ h4[x].child = h3[x].child
            /\ h4[x].string = h3[x].string
  BY <1>2, <1>3, <1>13, SetPrev
<1>15. h5 = Set(h4, p, "next", NULL)
  BY DEF h5
<1> HIDE DEF h4
<1>16. /\ h5 \in Heaps
       /\ \A x \in Nodes :
            /\ h5[x].next = IF x = p THEN NULL ELSE h4[x].next
            /\ h5[x].prev = h4[x].prev
            /\ h5[x].child = h4[x].child
            /\ h5[x].string = h4[x].string
  <2>1. h4 \in Heaps /\ p \in Pointers /\ NULL \in Pointers
    BY <1>2, <1>3, <1>14
  <2> QED BY <1>15, <2>1, SetNext
<1>17. LinksOut(h, s, k, h5)
  <2>1. ASSUME NEW x \in Nodes
        PROVE  /\ h5[x].next = IF x = p THEN NULL ELSE IF x = before THEN after ELSE h[x].next
               /\ h5[x].prev = IF x = p THEN NULL ELSE IF x = after THEN before ELSE h[x].prev
    BY <1>9, <1>11, <1>13, <1>14, <1>16
  <2> QED BY <1>8, <2>1
<1>18. \A x \in Nodes : h5[x].string = h[x].string
  BY <1>9, <1>11, <1>13, <1>14, <1>16
<1>19. \A x \in Nodes : h5[x].child = IF x = a THEN At(t, 1) ELSE h[x].child
  <2>1. \A x \in Nodes : h5[x].child = IF x = a /\ k = 1 THEN after ELSE h[x].child
    BY <1>9, <1>11, <1>13, <1>14, <1>16
  <2> HIDE DEF t
  <2> QED BY <1>1, <1>7, <2>1
<1>20. Links(h5, t)
  BY <1>1, <1>17, LinkedOut
<1> DEFINE c == [ch EXCEPT ![a] = t]
<1>21. c[a] = t /\ \A m \in Nodes : m # a => c[m] = ch[m]
  BY <1>1, RepresentsFacts
<1> HIDE DEF t, c
<1>22. \A m \in Nodes : ToSet(c[m]) \subseteq ToSet(ch[m])
  BY <1>6, <1>21
<1>23. Acyclic(c)
  BY <1>22, AcyclicLess DEF Represents
<1>24. MembersHaveKeys(h5, c)
  <2>1. MembersHaveKeys(h, ch) /\ Objects \subseteq Nodes
    BY ItemAssumption DEF Represents, ItemAssumption
  <2>2. \A o \in Objects : ToSet(ch[o]) \subseteq Nodes
    BY <2>1, RepresentsFacts, SeqFacts
  <2> QED BY <1>18, <1>22, <2>1, <2>2 DEF MembersHaveKeys
<1>25. \A x \in Nodes \ l : h5[x].string = NULL
  BY <1>18 DEF Represents
<1>26. ASSUME NEW x \in Nodes, x \notin ToSet(s)
       PROVE h5[x].next = h[x].next /\ h5[x].prev = h[x].prev
  BY <1>8, <1>17, <1>b, <1>26
<1>27. h5[p].next = NULL /\ h5[p].prev = NULL
  BY <1>3, <1>8, <1>17
<1>28. /\ ToSet(t) \subseteq l
       /\ \A x \in ToSet(t) : x \in ToSet(s)
       /\ \A x \in ToSet(s) : x \notin ToSet(t) => h5[x].next = NULL /\ h5[x].prev = NULL
  BY <1>1, <1>6, <1>27
<1>29. Relists(h, l, ch, a, t, h5)
  BY <1>1, <1>6, <1>16, <1>19, <1>20, <1>23, <1>24, <1>25, <1>26, <1>28 DEF Relists, c
<1> QED BY <1>4, <1>18, <1>29, Relist DEF t, p, SameKeys

-----------------------------------------------------------------------------
(* Replacing.                                                                 *)

(* ReplaceAt of the community modules, and its neighbours.                    *)
LEMMA ReplaceFacts ==
  ASSUME NEW s \in Seq(Nodes), NEW k \in DOMAIN s, NEW n \in Nodes, n \notin ToSet(s), Injective(s)
  PROVE  /\ ReplaceAt(s, k, n) \in Seq(Nodes) /\ Len(ReplaceAt(s, k, n)) = Len(s)
         /\ \A i \in DOMAIN s : ReplaceAt(s, k, n)[i] = IF i = k THEN n ELSE s[i]
         /\ ToSet(ReplaceAt(s, k, n)) = (ToSet(s) \ {s[k]}) \cup {n}
         /\ Injective(ReplaceAt(s, k, n))
         /\ \A j : At(ReplaceAt(s, k, n), j) = IF j = k THEN n ELSE At(s, j)
<1> DEFINE t == ReplaceAt(s, k, n)
<1>1. Len(s) \in Nat /\ DOMAIN s = 1 .. Len(s)
  BY LenProperties
<1>2. t \in Seq(Nodes) /\ Len(t) = Len(s) /\ \A i \in DOMAIN s : t[i] = IF i = k THEN n ELSE s[i]
  BY <1>1, ExceptSeq DEF ReplaceAt
<1> HIDE DEF t
<1>3. DOMAIN t = DOMAIN s
  BY <1>1, <1>2, LenProperties
<1>4. \A i, j \in DOMAIN s : s[i] = s[j] => i = j
  BY DEF Injective
<1>5. \A i \in DOMAIN s : s[i] # n
  BY DEF ToSet
<1>6. ToSet(t) = (ToSet(s) \ {s[k]}) \cup {n}
  <2>1. ASSUME NEW i \in DOMAIN t PROVE t[i] \in (ToSet(s) \ {s[k]}) \cup {n}
    BY <1>2, <1>3, <1>4 DEF ToSet
  <2>2. ASSUME NEW i \in DOMAIN s, s[i] # s[k] PROVE s[i] \in ToSet(t)
    <3>1. i \in DOMAIN t /\ t[i] = s[i]
      BY <1>2, <1>3, <2>2
    <3> QED BY <3>1 DEF ToSet
  <2>3. n \in ToSet(t)
    <3>1. k \in DOMAIN t /\ t[k] = n
      BY <1>2, <1>3
    <3> QED BY <3>1 DEF ToSet
  <2> QED BY <2>1, <2>2, <2>3 DEF ToSet
<1>7. Injective(t)
  BY <1>2, <1>3, <1>4, <1>5 DEF Injective
<1>8. ASSUME NEW j PROVE At(t, j) = IF j = k THEN n ELSE At(s, j)
  BY <1>2, <1>3 DEF At
<1> QED BY <1>2, <1>6, <1>7, <1>8 DEF t

(* n takes the place of the element k of a list s.                             *)
LinksFor(h, s, k, n, h2) ==
  \A x \in Nodes :
    /\ h2[x].next = IF x = s[k] THEN NULL ELSE IF x = n THEN At(s, k + 1)
                    ELSE IF x = At(s, k - 1) THEN n ELSE h[x].next
    /\ h2[x].prev = IF x = s[k] THEN NULL ELSE IF x = n THEN At(s, k - 1)
                    ELSE IF x = At(s, k + 1) THEN n ELSE h[x].prev

(* The links are those of the sequence with n in that place.                  *)
LEMMA LinkedFor ==
  ASSUME NEW h, NEW h2, NEW s \in Seq(Nodes), NEW k \in DOMAIN s, NEW n \in Nodes,
         Injective(s), n \notin ToSet(s), Links(h, s), LinksFor(h, s, k, n, h2)
  PROVE  Links(h2, ReplaceAt(s, k, n))
<1> DEFINE t == ReplaceAt(s, k, n)
<1>1. /\ t \in Seq(Nodes) /\ Len(t) = Len(s)
      /\ \A i \in DOMAIN s : t[i] = IF i = k THEN n ELSE s[i]
      /\ \A j : At(t, j) = IF j = k THEN n ELSE At(s, j)
  BY ReplaceFacts
<1> HIDE DEF t
<1>2. Len(s) \in Nat /\ DOMAIN s = 1 .. Len(s) /\ DOMAIN t = DOMAIN s
  BY <1>1, LenProperties
<1>4. \A i \in DOMAIN s : s[i] \in Nodes /\ s[i] # n /\ h[s[i]].prev = At(s, i - 1)
      /\ h[s[i]].next = At(s, i + 1)
  BY SeqFacts DEF Links
<1>5. ASSUME NEW i \in DOMAIN s, NEW j \in Int PROVE s[i] = At(s, j) <=> i = j
  BY <1>4, NULLFacts DEF At, Injective
<1>6. ASSUME NEW i \in DOMAIN s, i # k
      PROVE  /\ h2[s[i]].next = IF i = k - 1 THEN n ELSE At(s, i + 1)
             /\ h2[s[i]].prev = IF i = k + 1 THEN n ELSE At(s, i - 1)
  <2>1. s[i] \in Nodes /\ s[i] # n /\ h[s[i]].prev = At(s, i - 1)
        /\ h[s[i]].next = At(s, i + 1) /\ s[i] # s[k]
    BY <1>4, <1>6 DEF Injective
  <2>2. k + 1 \in Int /\ k - 1 \in Int
    BY <1>2
  <2>3. (s[i] = At(s, k + 1) <=> i = k + 1) /\ (s[i] = At(s, k - 1) <=> i = k - 1)
    BY <1>5, <2>2
  <2>4. /\ h2[s[i]].next = IF s[i] = s[k] THEN NULL ELSE IF s[i] = n THEN At(s, k + 1)
                           ELSE IF s[i] = At(s, k - 1) THEN n ELSE h[s[i]].next
        /\ h2[s[i]].prev = IF s[i] = s[k] THEN NULL ELSE IF s[i] = n THEN At(s, k - 1)
                           ELSE IF s[i] = At(s, k + 1) THEN n ELSE h[s[i]].prev
    BY <2>1 DEF LinksFor
  <2> QED BY <2>1, <2>3, <2>4
<1>7. h2[n].next = At(s, k + 1) /\ h2[n].prev = At(s, k - 1)
  BY <1>4 DEF LinksFor
<1>8. ASSUME NEW i \in DOMAIN t PROVE h2[t[i]].prev = At(t, i - 1) /\ h2[t[i]].next = At(t, i + 1)
  <2>1. At(t, i - 1) = IF i - 1 = k THEN n ELSE At(s, i - 1)
    BY <1>1
  <2>2. At(t, i + 1) = IF i + 1 = k THEN n ELSE At(s, i + 1)
    BY <1>1
  <2>3. (i = k - 1 <=> i + 1 = k) /\ (i = k + 1 <=> i - 1 = k) /\ i + 1 # i /\ i - 1 # i
    BY <1>2
  <2>4. CASE i = k
    <3>1. t[i] = n /\ i - 1 # k /\ i + 1 # k
      BY <1>1, <1>2, <2>3, <2>4
    <3> QED BY <1>7, <2>1, <2>2, <2>4, <3>1
  <2>5. CASE i # k
    <3>1. t[i] = s[i] /\ i \in DOMAIN s
      BY <1>1, <1>2, <2>5
    <3> QED BY <1>6, <2>1, <2>2, <2>3, <2>5, <3>1
  <2> QED BY <2>4, <2>5
<1> QED BY <1>8 DEF Links, t

(* ReplaceItemViaPointer, and what severs the old item, exchange the two.     *)
LEMMA ReplaceItem ==
  ASSUME NEW h, NEW l, NEW ch, NEW a, NEW n, Attachable(h, l, ch, a, n), NEW k \in DOMAIN ch[a]
  PROVE  LET h2 == Severed(ReplaceItemViaPointer(h, a, ch[a][k], n), ch[a][k]) IN
         /\ Represents(h2, l, [ch EXCEPT ![a] = ReplaceAt(ch[a], k, n)])
         /\ SameKeys(h, h2)
<1> DEFINE s == ch[a]
           p == s[k]
           before == At(s, k - 1)
           after == At(s, k + 1)
           t == ReplaceAt(s, k, n)
           h0 == Set(h, n, "next", h[p].next)
           h1 == Set(h0, n, "prev", h[p].prev)
           h2 == Set(h1, h1[n].next, "prev", n)
           h3 == Set(h2, h2[n].prev, "next", n)
           h4 == IF h3[a].child = p THEN Set(h3, a, "child", n) ELSE h3
           h5 == Set(h4, p, "next", NULL)
           h6 == Set(h5, p, "prev", NULL)
<1>1. /\ a \in Nodes /\ n \in Nodes /\ a # n /\ h \in Heaps
      /\ s \in Seq(Nodes) /\ Injective(s) /\ Links(h, s) /\ n \notin ToSet(s)
      /\ h[a].child = At(s, 1) /\ h[n].next = NULL /\ h[n].prev = NULL
  BY AttachableFacts
<1>r. Represents(h, l, ch) /\ a \in l /\ n \in l /\ InNone(ch, n) /\ ToSet(s) \subseteq l
  BY <1>1, RepresentsFacts DEF Attachable
<1>2. /\ Len(s) \in Nat /\ DOMAIN s = 1 .. Len(s)
      /\ NULL \in Pointers /\ a \in Pointers /\ n \in Pointers
  BY <1>1, LenProperties, NULLFacts
<1>3. /\ p \in Nodes /\ p \in Pointers /\ before \in Pointers /\ after \in Pointers
      /\ h[p].prev = before /\ h[p].next = after
      /\ before # p /\ after # p /\ p # n /\ before # n /\ after # n /\ p \in ToSet(s)
  <2>1. p \in Nodes /\ before \in Pointers /\ after \in Pointers /\ p \in ToSet(s)
    BY <1>1, SeqFacts
  <2>2. h[p].prev = before /\ h[p].next = after
    BY <1>1 DEF Links
  <2>3. before # p /\ after # p
    <3>1. k - 1 # k /\ k + 1 # k
      BY <1>2
    <3> QED BY <1>1, <2>1, <3>1, NULLFacts DEF At, Injective
  <2>4. before # n /\ after # n
    BY <1>1, NULLFacts DEF At, ToSet
  <2> QED BY <1>1, <2>1, <2>2, <2>3, <2>4, NULLFacts
<1>4. Severed(ReplaceItemViaPointer(h, a, p, n), p) = h6
  BY DEF Severed, ReplaceItemViaPointer
<1>5. k = 1 <=> At(s, 1) = p
  <2>1. 1 \in DOMAIN s
    BY <1>2
  <2>2. At(s, 1) = s[1]
    BY <1>1, <2>1, SeqFacts
  <2> QED BY <1>1, <2>1, <2>2 DEF Injective
<1>6. /\ t \in Seq(Nodes) /\ ToSet(t) = (ToSet(s) \ {p}) \cup {n} /\ Injective(t)
      /\ At(t, 1) = IF 1 = k THEN n ELSE At(s, 1)
  BY <1>1, ReplaceFacts
<1>8. LinksFor(h, s, k, n, h6) <=>
        \A x \in Nodes :
          /\ h6[x].next = IF x = p THEN NULL ELSE IF x = n THEN after
                          ELSE IF x = before THEN n ELSE h[x].next
          /\ h6[x].prev = IF x = p THEN NULL ELSE IF x = n THEN before
                          ELSE IF x = after THEN n ELSE h[x].prev
  BY DEF LinksFor
<1>b. \A x \in Nodes : x \notin ToSet(s) => x # p /\ x # before /\ x # after
  BY <1>1, NULLFacts DEF At, ToSet
<1> HIDE DEF p, before, after, h6, h5, h4, h3
<1>9. /\ h0 \in Heaps
      /\ \A x \in Nodes :
           /\ h0[x].next = IF x = n THEN after ELSE h[x].next
           /\ h0[x].prev = h[x].prev
           /\ h0[x].child = h[x].child
           /\ h0[x].string = h[x].string
  <2>1. h0 = Set(h, n, "next", after)
    BY <1>3
  <2> HIDE DEF h0
  <2>2. h \in Heaps /\ n \in Pointers /\ after \in Pointers
    BY <1>1, <1>2, <1>3
  <2> QED BY <2>1, <2>2, SetNext
<1> HIDE DEF h0
<1>10. /\ h1 \in Heaps
       /\ \A x \in Nodes :
            /\ h1[x].prev = IF x = n THEN before ELSE h0[x].prev
            /\ h1[x].next = h0[x].next
            /\ h1[x].child = h0[x].child
            /\ h1[x].string = h0[x].string
  <2>1. h1 = Set(h0, n, "prev", before)
    BY <1>3
  <2> HIDE DEF h1
  <2>2. h0 \in Heaps /\ n \in Pointers /\ before \in Pointers
    BY <1>2, <1>3, <1>9
  <2> QED BY <2>1, <2>2, SetPrev
<1> HIDE DEF h1
<1>11. /\ h2 \in Heaps
       /\ \A x \in Nodes :
            /\ h2[x].prev = IF x = after THEN n ELSE h1[x].prev
            /\ h2[x].next = h1[x].next
            /\ h2[x].child = h1[x].child
            /\ h2[x].string = h1[x].string
  <2>0. h1[n].next = after
    BY <1>1, <1>9, <1>10
  <2>1. h2 = Set(h1, after, "prev", n)
    BY <2>0
  <2> HIDE DEF h2
  <2>2. h1 \in Heaps /\ after \in Pointers /\ n \in Pointers
    BY <1>2, <1>3, <1>10
  <2> QED BY <2>1, <2>2, SetPrev
<1>a. h3 = Set(h2, h2[n].prev, "next", n)
  BY DEF h3
<1> HIDE DEF h2
<1>12. /\ h3 \in Heaps
       /\ \A x \in Nodes :
            /\ h3[x].next = IF x = before THEN n ELSE h2[x].next
            /\ h3[x].prev = h2[x].prev
            /\ h3[x].child = h2[x].child
            /\ h3[x].string = h2[x].string
  <2>0. h2[n].prev = before
    BY <1>1, <1>3, <1>10, <1>11
  <2>1. h3 = Set(h2, before, "next", n)
    BY <2>0, <1>a
  <2>2. h2 \in Heaps /\ before \in Pointers /\ n \in Pointers
    BY <1>2, <1>3, <1>11
  <2> QED BY <2>1, <2>2, SetNext
<1>13. /\ h4 \in Heaps
       /\ \A x \in Nodes :
            /\ h4[x].child = IF x = a /\ k = 1 THEN n ELSE h3[x].child
            /\ h4[x].next = h3[x].next
            /\ h4[x].prev = h3[x].prev
            /\ h4[x].string = h3[x].string
  <2>0. h3[a].child = At(s, 1)
    BY <1>1, <1>9, <1>10, <1>11, <1>12
  <2>1. CASE k = 1
    <3>1. h4 = Set(h3, a, "child", n)
      BY <1>5, <2>0, <2>1 DEF h4
    <3>2. h3 \in Heaps /\ a \in Pointers /\ n \in Pointers
      BY <1>2, <1>12
    <3>3. /\ h4 \in Heaps
          /\ \A x \in Nodes :
              /\ h4[x].child = IF x = a THEN n ELSE h3[x].child
              /\ h4[x].next = h3[x].next
              /\ h4[x].prev = h3[x].prev
              /\ h4[x].string = h3[x].string
      BY <3>1, <3>2, SetChild
    <3> QED BY <2>1, <3>3
  <2>2. CASE k # 1
    <3>1. h4 = h3
      BY <1>5, <2>0, <2>2 DEF h4
    <3> QED BY <1>12, <2>2, <3>1
  <2> QED BY <2>1, <2>2
<1>14. /\ h5 \in Heaps
       /\ \A x \in Nodes :
            /\ h5[x].next = IF x = p THEN NULL ELSE h4[x].next
            /\ h5[x].prev = h4[x].prev
            /\ h5[x].child = h4[x].child
            /\ h5[x].string = h4[x].string
  <2>1. h5 = Set(h4, p, "next", NULL)
    BY DEF h5
  <2>2. h4 \in Heaps /\ p \in Pointers /\ NULL \in Pointers
    BY <1>2, <1>3, <1>13
  <2> QED BY <2>1, <2>2, SetNext
<1>15. /\ h6 \in Heaps
       /\ \A x \in Nodes :
            /\ h6[x].prev = IF x = p THEN NULL ELSE h5[x].prev
            /\ h6[x].next = h5[x].next
            /\ h6[x].child = h5[x].child
            /\ h6[x].string = h5[x].string
  <2>1. h6 = Set(h5, p, "prev", NULL)
    BY DEF h6
  <2>2. h5 \in Heaps /\ p \in Pointers /\ NULL \in Pointers
    BY <1>2, <1>3, <1>14
  <2> QED BY <2>1, <2>2, SetPrev
<1>17. LinksFor(h, s, k, n, h6)
  <2>1. ASSUME NEW x \in Nodes
        PROVE  h6[x].next = IF x = p THEN NULL ELSE IF x = n THEN after
                            ELSE IF x = before THEN n ELSE h[x].next
    BY <1>3, <1>9, <1>10, <1>11, <1>12, <1>13, <1>14, <1>15
  <2>2. ASSUME NEW x \in Nodes
        PROVE  h6[x].prev = IF x = p THEN NULL ELSE IF x = n THEN before
                            ELSE IF x = after THEN n ELSE h[x].prev
    BY <1>3, <1>9, <1>10, <1>11, <1>12, <1>13, <1>14, <1>15
  <2> QED BY <1>8, <2>1, <2>2
<1>18. \A x \in Nodes : h6[x].string = h[x].string
  BY <1>9, <1>10, <1>11, <1>12, <1>13, <1>14, <1>15
<1>19. \A x \in Nodes : h6[x].child = IF x = a THEN At(t, 1) ELSE h[x].child
  <2>1. \A x \in Nodes : h6[x].child = IF x = a /\ k = 1 THEN n ELSE h[x].child
    BY <1>9, <1>10, <1>11, <1>12, <1>13, <1>14, <1>15
  <2> HIDE DEF t
  <2> QED BY <1>1, <1>6, <2>1
<1>20. Links(h6, t)
  BY <1>1, <1>17, LinkedFor
<1> DEFINE c == [ch EXCEPT ![a] = t]
<1>21. c[a] = t /\ \A m \in Nodes : m # a => c[m] = ch[m]
  BY <1>1, <1>r, RepresentsFacts
<1>22. Acyclic(c)
  <2>1. a \notin Below(Kids(ch), n) /\ ToSet(t) \subseteq ToSet(ch[a]) \cup {n}
    BY <1>6 DEF Attachable
  <2> HIDE DEF t
  <2> QED BY <1>1, <1>r, <2>1, AcyclicMore
<1> HIDE DEF t, c
<1>24. MembersHaveKeys(h6, c)
  <2>1. ASSUME NEW o \in Objects, NEW x \in ToSet(c[o]) PROVE h6[x].string \in Keys
    <3>0. o \in Nodes
      BY ItemAssumption DEF ItemAssumption
    <3>1. MembersHaveKeys(h, ch)
      BY <1>r DEF Represents
    <3>2. x \in ToSet(ch[o]) \/ (o = a /\ x = n)
      BY <1>6, <1>21, <2>1, <3>0
    <3>3. x \in Nodes /\ h6[x].string = h[x].string
      BY <1>1, <1>18, <1>r, <3>0, <3>2, RepresentsFacts
    <3>4. (o = a /\ x = n) => h[x].string \in Keys
      BY <2>1 DEF Attachable
    <3> QED BY <2>1, <3>1, <3>2, <3>3, <3>4 DEF MembersHaveKeys
  <2> QED BY <2>1 DEF MembersHaveKeys
<1>25. \A x \in Nodes \ l : h6[x].string = NULL
  BY <1>r, <1>18 DEF Represents
<1>26. ASSUME NEW x \in Nodes, x \notin ToSet(s), x \notin ToSet(t)
       PROVE h6[x].next = h[x].next /\ h6[x].prev = h[x].prev
  <2>1. x # p /\ x # before /\ x # after /\ x # n
    BY <1>6, <1>b, <1>26
  <2> QED BY <1>8, <1>17, <2>1
<1>27. h6[p].next = NULL /\ h6[p].prev = NULL
  BY <1>3, <1>8, <1>17
<1>28. /\ ToSet(t) \subseteq l
       /\ \A x \in ToSet(t) : x \in ToSet(ch[a]) \/ InNone(ch, x)
       /\ \A x \in ToSet(s) : x \notin ToSet(t) => h6[x].next = NULL /\ h6[x].prev = NULL
  BY <1>6, <1>r, <1>27
<1>29. Relists(h, l, ch, a, t, h6)
  BY <1>6, <1>r, <1>15, <1>19, <1>20, <1>22, <1>24, <1>25, <1>26, <1>28 DEF Relists, c
<1>30. Represents(h6, l, [ch EXCEPT ![a] = t])
  BY <1>29, Relist
<1> QED BY <1>4, <1>18, <1>30 DEF t, p, SameKeys

-----------------------------------------------------------------------------
(* Deleting.                                                                  *)

(* Where child and next lead.                                                  *)
Out(h) == [n \in Nodes |-> {h[n].child, h[n].next} \ {NULL}]

(* What cJSON_Delete reaches is what is below an item along child and next.   *)
LEMMA OutFacts ==
  ASSUME NEW h \in Heaps
  PROVE  /\ Out(h) \in [Nodes -> SUBSET Nodes]
         /\ \A n : Reached(h, n) = Below(Out(h), n)
         /\ \A n \in Nodes : \A x : x \in Out(h)[n] <=> x # NULL
              /\ (x = h[n].child \/ x = h[n].next)
<1>1. \A n \in Nodes : h[n].child \in Nodes \cup {NULL} /\ h[n].next \in Nodes \cup {NULL}
  BY HeapType DEF Pointers
<1> QED BY <1>1 DEF Out, Reached

(* What holds an item and all that child and next lead to holds its children.  *)
LEMMA ListInside ==
  ASSUME NEW h, NEW l, NEW ch, Represents(h, l, ch), NEW S,
         \A p \in S : p \in Nodes /\ Out(h)[p] \subseteq S,
         NEW n \in Nodes, ch[n] # <<>> => h[n].child \in S
  PROVE  ToSet(ch[n]) \subseteq S
<1>1. h \in Heaps /\ ch[n] \in Seq(Nodes) /\ Links(h, ch[n]) /\ h[n].child = At(ch[n], 1)
  BY RepresentsFacts
<1>2. Len(ch[n]) \in Nat /\ DOMAIN ch[n] = 1 .. Len(ch[n])
      /\ \A i \in DOMAIN ch[n] : ch[n][i] \in Nodes /\ At(ch[n], i) = ch[n][i]
  BY <1>1, SeqFacts
<1> DEFINE T == {i \in Nat : i + 1 \in DOMAIN ch[n] => ch[n][i + 1] \in S}
<1>3. 0 \in T
  <2>1. SUFFICES ASSUME 1 \in DOMAIN ch[n] PROVE ch[n][1] \in S
    OBVIOUS
  <2>2. ch[n] # <<>>
    BY <1>1, <2>1, EmptySeq
  <2> QED BY <1>1, <1>2, <2>1, <2>2
<1>4. ASSUME NEW i \in Nat, i \in T PROVE i + 1 \in T
  <2>1. SUFFICES ASSUME (i + 1) + 1 \in DOMAIN ch[n] PROVE ch[n][(i + 1) + 1] \in S
    OBVIOUS
  <2>2. i + 1 \in DOMAIN ch[n]
    BY <1>2, <2>1
  <2>3. ch[n][i + 1] \in S /\ ch[n][i + 1] \in Nodes
    BY <1>2, <1>4, <2>2
  <2>4. h[ch[n][i + 1]].next = ch[n][(i + 1) + 1] /\ ch[n][(i + 1) + 1] # NULL
    <3>1. h[ch[n][i + 1]].next = At(ch[n], (i + 1) + 1)
      BY <1>1, <2>2 DEF Links
    <3> QED BY <1>2, <2>1, <3>1, NULLFacts
  <2>5. ch[n][(i + 1) + 1] \in Out(h)[ch[n][i + 1]]
    BY <1>1, <2>3, <2>4, OutFacts
  <2> QED BY <2>3, <2>5
<1> HIDE DEF T
<1>5. \A i \in Nat : i \in T
  BY <1>3, <1>4, NatSetInduction
<1>6. ASSUME NEW j \in DOMAIN ch[n] PROVE ch[n][j] \in S
  <2>1. j - 1 \in Nat /\ (j - 1) + 1 = j
    BY <1>2
  <2> QED BY <1>5, <1>6, <2>1 DEF T
<1> QED BY <1>6 DEF ToSet

(* What is below an item along the lists.                                     *)
LEMMA KidsFacts ==
  ASSUME NEW h, NEW l, NEW ch, Represents(h, l, ch), NEW n \in Nodes
  PROVE  /\ n \in Below(Kids(ch), n) /\ Below(Kids(ch), n) \subseteq Nodes
         /\ \A p \in Below(Kids(ch), n) : ToSet(ch[p]) \subseteq Below(Kids(ch), n)
         /\ \A m \in Below(Kids(ch), n) : m # n => \E p \in Below(Kids(ch), n) : m \in ToSet(ch[p])
         /\ \A S \in SUBSET Nodes : n \in S /\ (\A p \in S : ToSet(ch[p]) \subseteq S)
              => Below(Kids(ch), n) \subseteq S
         /\ n \in l => Below(Kids(ch), n) \subseteq l
<1>1. Kids(ch) \in [Nodes -> SUBSET Nodes] /\ \A p \in Nodes : Kids(ch)[p] = ToSet(ch[p])
  BY RepresentsFacts
<1>2. n \in Below(Kids(ch), n) /\ Below(Kids(ch), n) \subseteq Nodes
  BY <1>1, BelowFacts
<1>3. \A p \in Below(Kids(ch), n) : ToSet(ch[p]) \subseteq Below(Kids(ch), n)
  BY <1>1, <1>2, BelowFacts
<1>4. ASSUME NEW m \in Below(Kids(ch), n), m # n
      PROVE  \E p \in Below(Kids(ch), n) : m \in ToSet(ch[p])
  <2>1. \E p \in Below(Kids(ch), n) : m \in Kids(ch)[p]
    BY <1>1, <1>4, BelowParent
  <2> QED BY <1>1, <1>2, <2>1
<1>5. ASSUME NEW S \in SUBSET Nodes, n \in S, \A p \in S : ToSet(ch[p]) \subseteq S
      PROVE Below(Kids(ch), n) \subseteq S
  <2>1. \A p \in S : Kids(ch)[p] \subseteq S
    BY <1>1, <1>5
  <2> QED BY <1>1, <1>5, <2>1, BelowFacts
<1>6. ASSUME n \in l PROVE Below(Kids(ch), n) \subseteq l
  <2>1. l \in SUBSET Nodes /\ \A p \in l : ToSet(ch[p]) \subseteq l
    BY RepresentsFacts
  <2> QED BY <1>5, <1>6, <2>1
<1> QED BY <1>2, <1>3, <1>4, <1>5, <1>6

(* Nothing is below itself.                                                    *)
LEMMA NotBelowItself ==
  ASSUME NEW h, NEW l, NEW ch, Represents(h, l, ch), NEW n \in Nodes
  PROVE  \A p \in Below(Kids(ch), n) : n \notin ToSet(ch[p])
<1> DEFINE B == Below(Kids(ch), n)
<1>1. n \in B /\ B \in SUBSET Nodes /\ \A m \in B : m # n => \E p \in B : m \in ToSet(ch[p])
  BY KidsFacts
<1> HIDE DEF B
<1>2. PICK m \in B : \A p \in B : m \notin ToSet(ch[p])
  BY <1>1 DEF Represents, Acyclic
<1>3. m = n
  BY <1>1, <1>2
<1> QED BY <1>2, <1>3 DEF B

(* What child and next lead to from an item outside all lists is below it.     *)
LEMMA ReachedIsBelow ==
  ASSUME NEW h, NEW l, NEW ch, Represents(h, l, ch), NEW n \in Nodes, InNone(ch, n)
  PROVE  Reached(h, n) = Below(Kids(ch), n)
<1> DEFINE B == Below(Kids(ch), n)
           R == Reached(h, n)
<1>0. h \in Heaps /\ Out(h) \in [Nodes -> SUBSET Nodes] /\ R = Below(Out(h), n)
  BY RepresentsFacts, OutFacts
<1>1. /\ n \in B /\ B \subseteq Nodes
      /\ \A p \in B : ToSet(ch[p]) \subseteq B
      /\ \A m \in B : m # n => \E p \in B : m \in ToSet(ch[p])
  BY KidsFacts
<1>2. R \subseteq B
  <2>1. ASSUME NEW x \in B, NEW y \in Out(h)[x] PROVE y \in B
    <3>1. x \in Nodes /\ y # NULL /\ (y = h[x].child \/ y = h[x].next)
      BY <1>0, <1>1, <2>1, OutFacts
    <3>2. CASE y = h[x].child
      <4>1. y = At(ch[x], 1) /\ ch[x] \in Seq(Nodes)
        BY <3>1, <3>2, RepresentsFacts
      <4>2. y \in ToSet(ch[x])
        BY <3>1, <4>1 DEF At, ToSet
      <4> QED BY <1>1, <4>2
    <3>3. CASE y = h[x].next
      <4>1. x # n
        BY <3>1, <3>3 DEF Represents, Stores
      <4>2. PICK p \in B : x \in ToSet(ch[p])
        BY <1>1, <4>1
      <4>3. p \in Nodes /\ Links(h, ch[p]) /\ ch[p] \in Seq(Nodes)
        BY <1>1, <4>2, RepresentsFacts
      <4>4. PICK i \in DOMAIN ch[p] : ch[p][i] = x
        BY <4>2 DEF ToSet
      <4>5. y = At(ch[p], i + 1)
        BY <3>3, <4>3, <4>4 DEF Links
      <4>6. y \in ToSet(ch[p])
        BY <3>1, <4>5 DEF At, ToSet
      <4> QED BY <1>1, <4>2, <4>6
    <3> QED BY <3>1, <3>2, <3>3
  <2> HIDE DEF B, R
  <2>2. B \in SUBSET Nodes /\ n \in B /\ \A x \in B : Out(h)[x] \subseteq B
    BY <1>1, <2>1
  <2> QED BY <1>0, <2>2, BelowFacts
<1>3. B \subseteq R
  <2>1. n \in R /\ R \in SUBSET Nodes /\ \A x \in R : Out(h)[x] \subseteq R
    BY <1>0, BelowFacts
  <2>2. ASSUME NEW p \in R PROVE ToSet(ch[p]) \subseteq R
    <3>1. \A x \in R : x \in Nodes /\ Out(h)[x] \subseteq R
      BY <2>1
    <3>2. p \in Nodes
      BY <2>1, <2>2
    <3>3. ASSUME ch[p] # <<>> PROVE h[p].child \in R
      <4>1. ch[p] \in Seq(Nodes) /\ h[p].child = At(ch[p], 1)
        BY <3>2, RepresentsFacts
      <4>2. 1 \in DOMAIN ch[p]
        BY <3>3, <4>1, EmptySeq, LenProperties
      <4>3. h[p].child # NULL
        BY <4>1, <4>2, SeqFacts
      <4> QED BY <1>0, <2>1, <2>2, <3>2, <4>3, OutFacts
    <3> HIDE DEF R
    <3> QED BY <3>1, <3>2, <3>3, ListInside
  <2> HIDE DEF R
  <2> QED BY <2>1, <2>2, KidsFacts
<1> QED BY <1>2, <1>3

(* From the first child of an item they lead to all that is below it.          *)
LEMMA ReachedIsUnder ==
  ASSUME NEW h, NEW l, NEW ch, Represents(h, l, ch), NEW n \in Nodes
  PROVE  Below(Kids(ch), n) = IF h[n].child = NULL THEN {n} ELSE {n} \cup Reached(h, h[n].child)
<1> DEFINE B == Below(Kids(ch), n)
           R == Reached(h, h[n].child)
           U == B \ {n}
<1>0. h \in Heaps /\ Out(h) \in [Nodes -> SUBSET Nodes] /\ R = Below(Out(h), h[n].child)
  BY RepresentsFacts, OutFacts
<1>1. /\ n \in B /\ B \subseteq Nodes
      /\ \A p \in B : ToSet(ch[p]) \subseteq B
      /\ \A m \in B : m # n => \E p \in B : m \in ToSet(ch[p])
  BY KidsFacts
<1>2. \A p \in B : n \notin ToSet(ch[p])
  BY NotBelowItself
<1>c. ch[n] \in Seq(Nodes) /\ h[n].child = At(ch[n], 1)
  BY RepresentsFacts
<1>3. CASE h[n].child = NULL
  <2>1. ToSet(ch[n]) = {}
    <3>1. ~ (1 \in DOMAIN ch[n])
      BY <1>3, <1>c, SeqFacts
    <3>2. \A i \in DOMAIN ch[n] : 1 \in DOMAIN ch[n]
      BY <1>c, LenProperties
    <3> QED BY <3>1, <3>2 DEF ToSet
  <2>2. B \subseteq {n}
    <3> DEFINE W == {n}
    <3>1. W \in SUBSET Nodes /\ n \in W /\ \A p \in W : ToSet(ch[p]) \subseteq W
      BY <2>1
    <3> HIDE DEF W
    <3>2. B \subseteq W
      BY <3>1, KidsFacts
    <3> QED BY <3>2 DEF W
  <2> QED BY <1>1, <1>3, <2>2
<1>4. CASE h[n].child # NULL
  <2>0. h[n].child \in ToSet(ch[n]) /\ h[n].child \in Nodes
    BY <1>4, <1>c, SeqFacts DEF At, ToSet
  <2>1. R \subseteq U
    <3>1. h[n].child \in U
      BY <1>1, <1>2, <2>0
    <3>2. ASSUME NEW x \in U, NEW y \in Out(h)[x] PROVE y \in U
      <4>1. x \in Nodes /\ x \in B /\ x # n /\ y # NULL /\ (y = h[x].child \/ y = h[x].next)
        BY <1>0, <1>1, <3>2, OutFacts
      <4>2. CASE y = h[x].child
        <5>1. y = At(ch[x], 1) /\ ch[x] \in Seq(Nodes)
          BY <4>1, <4>2, RepresentsFacts
        <5>2. y \in ToSet(ch[x])
          BY <4>1, <5>1 DEF At, ToSet
        <5> QED BY <1>1, <1>2, <4>1, <5>2
      <4>3. CASE y = h[x].next
        <5>2. PICK p \in B : x \in ToSet(ch[p])
          BY <1>1, <4>1
        <5>3. p \in Nodes /\ Links(h, ch[p]) /\ ch[p] \in Seq(Nodes)
          BY <1>1, <5>2, RepresentsFacts
        <5>4. PICK i \in DOMAIN ch[p] : ch[p][i] = x
          BY <5>2 DEF ToSet
        <5>5. y = At(ch[p], i + 1)
          BY <4>3, <5>3, <5>4 DEF Links
        <5>6. y \in ToSet(ch[p])
          BY <4>1, <5>5 DEF At, ToSet
        <5> QED BY <1>1, <1>2, <5>2, <5>6
      <4> QED BY <4>1, <4>2, <4>3
    <3> HIDE DEF U, R
    <3>3. U \in SUBSET Nodes
      BY <1>1 DEF U
    <3> QED BY <1>0, <2>0, <3>1, <3>2, <3>3, BelowFacts
  <2>2. B \subseteq {n} \cup R
    <3>1. h[n].child \in R /\ R \in SUBSET Nodes /\ \A x \in R : Out(h)[x] \subseteq R
      BY <1>0, <2>0, BelowFacts
    <3>2. \A x \in R : x \in Nodes /\ Out(h)[x] \subseteq R
      BY <3>1
    <3>3. ASSUME NEW p \in {n} \cup R PROVE ToSet(ch[p]) \subseteq R
      <4>1. p \in Nodes
        BY <3>1, <3>3
      <4>2. ASSUME ch[p] # <<>> PROVE h[p].child \in R
        <5>1. CASE p = n
          BY <3>1, <5>1
        <5>2. CASE p \in R
          <6>1. ch[p] \in Seq(Nodes) /\ h[p].child = At(ch[p], 1)
            BY <4>1, RepresentsFacts
          <6>2. 1 \in DOMAIN ch[p]
            BY <4>2, <6>1, EmptySeq, LenProperties
          <6>3. h[p].child # NULL
            BY <6>1, <6>2, SeqFacts
          <6> QED BY <1>0, <3>1, <4>1, <5>2, <6>3, OutFacts
        <5> QED BY <3>3, <5>1, <5>2
      <4> HIDE DEF R
      <4> QED BY <3>2, <4>1, <4>2, ListInside
    <3> HIDE DEF R
    <3> DEFINE W == {n} \cup R
    <3>4. W \in SUBSET Nodes /\ n \in W /\ \A p \in W : ToSet(ch[p]) \subseteq W
      BY <3>1, <3>3
    <3> HIDE DEF W
    <3>5. B \subseteq W
      BY <3>4, KidsFacts
    <3> QED BY <3>5 DEF W
  <2> QED BY <1>1, <1>4, <2>1, <2>2
<1> QED BY <1>3, <1>4

(* The lists without the children of the items of S.                          *)
Emptied(ch, S) == [m \in Nodes |-> IF m \in S THEN <<>> ELSE ch[m]]

(* cJSON_Delete of an item outside all lists frees it and all below it.       *)
LEMMA FreeTree ==
  ASSUME NEW h, NEW l, NEW ch, Represents(h, l, ch), NEW n \in l, InNone(ch, n)
  PROVE  /\ Reached(h, n) = Below(Kids(ch), n)
         /\ Represents(Free(h, Reached(h, n)), l \ Reached(h, n), Emptied(ch, Reached(h, n)))
         /\ \A x \in Nodes : Free(h, Reached(h, n))[x].string
              = IF x \in Reached(h, n) THEN NULL ELSE h[x].string
<1> DEFINE S == Reached(h, n)
           h2 == Free(h, S)
           c == Emptied(ch, S)
<1>0. n \in Nodes /\ S = Below(Kids(ch), n)
  BY RepresentsFacts, ReachedIsBelow
<1>1. /\ n \in S /\ S \subseteq l /\ S \subseteq Nodes
      /\ \A p \in S : ToSet(ch[p]) \subseteq S
      /\ \A m \in S : m # n => \E p \in S : m \in ToSet(ch[p])
  BY <1>0, KidsFacts
<1> HIDE DEF S
<1>2. /\ h \in Heaps /\ l \subseteq Nodes /\ ch \in [Nodes -> Seq(Nodes)]
      /\ \A m \in Nodes : ToSet(ch[m]) \subseteq l /\ h[m].child = At(ch[m], 1) /\ Links(h, ch[m])
      /\ \A m, p \in Nodes : ToSet(ch[m]) \cap ToSet(ch[p]) # {} => m = p
  <2>1. h \in Heaps /\ l \subseteq Nodes /\ ch \in [Nodes -> Seq(Nodes)]
    BY RepresentsFacts
  <2>2. \A m \in Nodes : ToSet(ch[m]) \subseteq l /\ h[m].child = At(ch[m], 1) /\ Links(h, ch[m])
    BY RepresentsFacts
  <2>3. \A m, p \in Nodes : ToSet(ch[m]) \cap ToSet(ch[p]) # {} => m = p
    BY RepresentsFacts
  <2> QED BY <2>1, <2>2, <2>3
<1>3. ASSUME NEW m \in Nodes, m \notin S, NEW x \in ToSet(ch[m]) PROVE x \notin S
  <2>1. SUFFICES ASSUME x \in S PROVE FALSE
    OBVIOUS
  <2>2. x # n
    BY <1>3 DEF InNone
  <2>3. PICK p \in S : x \in ToSet(ch[p])
    BY <1>1, <2>1, <2>2
  <2> QED BY <1>1, <1>2, <1>3, <2>3
<1>4. /\ h2 \in Heaps
      /\ \A m \in Nodes \ S : h2[m] = h[m]
      /\ \A m \in S : h2[m].child = NULL /\ h2[m].next = NULL /\ h2[m].prev = NULL
           /\ h2[m].string = NULL
  <2>1. Zeroed \in Items /\ Zeroed.child = NULL /\ Zeroed.next = NULL /\ Zeroed.prev = NULL
        /\ Zeroed.string = NULL
    BY NULLFacts DEF Zeroed, Items
  <2> QED BY <1>1, <1>2, <2>1 DEF Free, Heaps
<1>5. /\ c \in [Nodes -> Seq(Nodes)]
      /\ \A m \in Nodes \ S : c[m] = ch[m]
      /\ \A m \in S : c[m] = <<>>
  BY <1>1, <1>2, EmptySeq DEF Emptied
<1>e. ToSet(<<>>) = {} /\ DOMAIN <<>> = {} /\ (\A i : At(<<>>, i) = NULL) /\ Links(h2, <<>>)
  BY EmptySeq DEF ToSet, At, Links
<1> HIDE DEF h2, c
<1>6. \A m \in Nodes : ToSet(c[m]) \subseteq l \ S
  BY <1>2, <1>3, <1>5, <1>e
<1>7. \A m \in Nodes \ (l \ S) : c[m] = <<>> /\ h2[m].string = NULL
  <2>1. \A m \in Nodes \ l : ch[m] = <<>> /\ h[m].string = NULL
    BY DEF Represents
  <2> QED BY <1>4, <1>5, <2>1
<1>8. OnePlace(c)
  <2>1. OnePlace(ch)
    BY DEF Represents
  <2>2. ASSUME NEW m \in Nodes, NEW p \in Nodes, NEW i \in DOMAIN c[m], NEW j \in DOMAIN c[p],
               c[m][i] = c[p][j]
        PROVE  m = p /\ i = j
    <3>1. m \notin S /\ p \notin S
      BY <1>5, <1>e, <2>2
    <3>2. c[m] = ch[m] /\ c[p] = ch[p]
      BY <1>5, <3>1
    <3>3. i \in DOMAIN ch[m] /\ j \in DOMAIN ch[p] /\ ch[m][i] = ch[p][j]
      BY <2>2, <3>2
    <3> QED BY <2>1, <3>3 DEF OnePlace
  <2> QED BY <2>2 DEF OnePlace
<1>9. Stores(h2, c)
  <2>1. ASSUME NEW m \in Nodes PROVE h2[m].child = At(c[m], 1) /\ Links(h2, c[m])
    <3>1. CASE m \in S
      BY <1>4, <1>5, <1>e, <3>1
    <3>2. CASE m \notin S
      <4>1. c[m] = ch[m] /\ h2[m] = h[m]
        BY <1>4, <1>5, <3>2
      <4>2. \A i \in DOMAIN ch[m] : ch[m][i] \in Nodes \ S
        <5>1. \A i \in DOMAIN ch[m] : ch[m][i] \in ToSet(ch[m])
          BY DEF ToSet
        <5> QED BY <1>2, <1>3, <3>2, <5>1
      <4>3. \A i \in DOMAIN ch[m] : h2[ch[m][i]] = h[ch[m][i]]
        BY <1>4, <4>2
      <4>4. Links(h2, ch[m])
        BY <1>2, <4>3 DEF Links
      <4> QED BY <1>2, <4>1, <4>4
    <3> QED BY <3>1, <3>2
  <2>2. ASSUME NEW m \in Nodes, InNone(c, m) PROVE h2[m].prev = NULL /\ h2[m].next = NULL
    <3>1. CASE m \in S
      BY <1>4, <3>1
    <3>2. CASE m \notin S
      <4>1. InNone(ch, m)
        <5>1. \A p \in S : m \notin ToSet(ch[p])
          BY <1>1, <3>2
        <5>2. \A p \in Nodes \ S : m \notin ToSet(ch[p])
          BY <1>5, <2>2 DEF InNone
        <5> QED BY <5>1, <5>2 DEF InNone
      <4> QED BY <1>4, <3>2, <4>1 DEF Represents, Stores
    <3> QED BY <3>1, <3>2
  <2> QED BY <2>1, <2>2 DEF Stores
<1>10. Acyclic(c)
  <2>1. \A m \in Nodes : ToSet(c[m]) \subseteq ToSet(ch[m])
    BY <1>5, <1>e
  <2> QED BY <2>1, AcyclicLess DEF Represents
<1>11. MembersHaveKeys(h2, c)
  <2>1. MembersHaveKeys(h, ch) /\ Objects \subseteq Nodes
    BY ItemAssumption DEF Represents, ItemAssumption
  <2>2. ASSUME NEW o \in Objects, NEW x \in ToSet(c[o]) PROVE h2[x].string \in Keys
    <3>1. o \notin S
      BY <1>5, <1>e, <2>2
    <3>2. x \in ToSet(ch[o]) /\ x \in Nodes \ S
      BY <1>2, <1>3, <1>5, <2>1, <2>2, <3>1
    <3> QED BY <1>4, <2>1, <3>2 DEF MembersHaveKeys
  <2> QED BY <2>2 DEF MembersHaveKeys
<1>12. Represents(h2, l \ S, c)
  <2>1. l \ S \subseteq Nodes
    BY <1>2
  <2> QED BY <1>4, <1>5, <1>6, <1>7, <1>8, <1>9, <1>10, <1>11, <2>1 DEF Represents
<1>13. \A x \in Nodes : h2[x].string = IF x \in S THEN NULL ELSE h[x].string
  BY <1>4
<1> QED BY <1>0, <1>12, <1>13 DEF S, h2, c

-----------------------------------------------------------------------------
(* New items and keys.                                                        *)

(* The empty sequence.                                                        *)
EmptyFacts == ToSet(<<>>) = {} /\ DOMAIN <<>> = {} /\ \A i : At(<<>>, i) = NULL
LEMMA Empty == EmptyFacts
BY EmptySeq DEF EmptyFacts, ToSet, At

(* The links decide what a heap represents, and items may become live.         *)
LEMMA Relive ==
  ASSUME NEW h, NEW l, NEW ch, Represents(h, l, ch),
         NEW h2 \in Heaps, NEW l2 \in SUBSET Nodes, l \subseteq l2,
         \A x \in Nodes : h2[x].child = h[x].child /\ h2[x].next = h[x].next
           /\ h2[x].prev = h[x].prev,
         \A x \in Nodes : h2[x].string = h[x].string \/ (x \in l2 /\ h2[x].string \in Keys)
  PROVE  Represents(h2, l2, ch)
<1>1. /\ h \in Heaps /\ l \subseteq Nodes /\ ch \in [Nodes -> Seq(Nodes)]
      /\ \A n \in Nodes : ToSet(ch[n]) \subseteq l
      /\ \A n \in Nodes \ l : ch[n] = <<>> /\ h[n].string = NULL
      /\ OnePlace(ch) /\ Stores(h, ch) /\ Acyclic(ch) /\ MembersHaveKeys(h, ch)
  BY DEF Represents
<1>2. \A n \in Nodes : ToSet(ch[n]) \subseteq l2
  BY <1>1
<1>3. \A n \in Nodes \ l2 : ch[n] = <<>> /\ h2[n].string = NULL
  BY <1>1
<1>4. Stores(h2, ch)
  <2>1. ASSUME NEW n \in Nodes PROVE h2[n].child = At(ch[n], 1) /\ Links(h2, ch[n])
    <3>1. h[n].child = At(ch[n], 1) /\ Links(h, ch[n])
      BY RepresentsFacts
    <3>2. \A i \in DOMAIN ch[n] : ch[n][i] \in Nodes
      BY <1>1, SeqFacts
    <3> QED BY <3>1, <3>2 DEF Links
  <2>2. \A n \in Nodes : InNone(ch, n) => h2[n].prev = NULL /\ h2[n].next = NULL
    BY <1>1 DEF Stores
  <2> QED BY <2>1, <2>2 DEF Stores
<1>5. MembersHaveKeys(h2, ch)
  <2>1. ASSUME NEW o \in Objects, NEW x \in ToSet(ch[o]) PROVE h2[x].string \in Keys
    <3>1. o \in Nodes
      BY ItemAssumption DEF ItemAssumption
    <3>2. x \in Nodes
      BY <1>1, <3>1
    <3> QED BY <1>1, <3>2 DEF MembersHaveKeys
  <2> QED BY <2>1 DEF MembersHaveKeys
<1> QED BY <1>1, <1>2, <1>3, <1>4, <1>5 DEF Represents

(* A new key changes no list.                                                 *)
LEMMA Rename ==
  ASSUME NEW h, NEW l, NEW ch, Represents(h, l, ch), NEW n \in l, NEW k \in Keys
  PROVE  /\ Represents(Set(h, n, "string", k), l, ch)
         /\ \A x \in Nodes : Set(h, n, "string", k)[x].string = IF x = n THEN k ELSE h[x].string
<1> DEFINE h2 == Set(h, n, "string", k)
<1>1. h \in Heaps /\ n \in Nodes /\ l \in SUBSET Nodes
  BY RepresentsFacts
<1>2. /\ h2 \in Heaps
      /\ \A x \in Nodes :
           /\ h2[x].string = IF x = n THEN k ELSE h[x].string
           /\ h2[x].next = h[x].next
           /\ h2[x].prev = h[x].prev
           /\ h2[x].child = h[x].child
  BY <1>1, SetString
<1> HIDE DEF h2
<1>3. Represents(h2, l, ch)
  BY <1>1, <1>2, Relive
<1> QED BY <1>2, <1>3 DEF h2

(* The memory of a new item.                                                  *)
LEMMA ZeroedFacts ==
  Zeroed \in Items /\ Zeroed.child = NULL /\ Zeroed.next = NULL /\ Zeroed.prev = NULL
    /\ Zeroed.string = NULL
BY NULLFacts DEF Zeroed, Items

(* The heap after cJSON_New_Item of each item of new.                         *)
Renewed(h, new) == [n \in Nodes |-> IF n \in new THEN Zeroed ELSE h[n]]

(* New items have no children and are in no list.                             *)
LEMMA NewItems ==
  ASSUME NEW h, NEW l, NEW ch, Represents(h, l, ch), NEW new \in SUBSET Nodes, new \cap l = {}
  PROVE  /\ Represents(Renewed(h, new), l \cup new, ch)
         /\ \A x \in Nodes : Renewed(h, new)[x].string = h[x].string
<1> DEFINE h2 == Renewed(h, new)
<1>1. /\ h \in Heaps /\ l \subseteq Nodes
      /\ \A n \in Nodes : ToSet(ch[n]) \subseteq l /\ h[n].child = At(ch[n], 1)
  BY RepresentsFacts
<1>2. ASSUME NEW x \in new
      PROVE  h[x].child = NULL /\ h[x].next = NULL /\ h[x].prev = NULL /\ h[x].string = NULL
  <2>1. ch[x] = <<>> /\ h[x].string = NULL /\ x \in Nodes
    BY <1>2 DEF Represents
  <2>2. InNone(ch, x)
    BY <1>1 DEF InNone
  <2>3. h[x].next = NULL /\ h[x].prev = NULL
    BY <2>1, <2>2 DEF Represents, Stores
  <2>4. h[x].child = NULL
    BY <1>1, <2>1, Empty DEF EmptyFacts
  <2> QED BY <2>1, <2>3, <2>4
<1>3. h2 \in Heaps
  BY <1>1, ZeroedFacts DEF Heaps, Renewed
<1>4. \A x \in Nodes : /\ h2[x].child = h[x].child /\ h2[x].next = h[x].next
                       /\ h2[x].prev = h[x].prev /\ h2[x].string = h[x].string
  BY <1>2, ZeroedFacts DEF Renewed
<1> HIDE DEF h2
<1>5. l \cup new \in SUBSET Nodes /\ l \subseteq l \cup new
  BY <1>1
<1>6. Represents(h2, l \cup new, ch)
  BY <1>3, <1>4, <1>5, Relive
<1> QED BY <1>4, <1>6 DEF h2

(* Nothing is below an item without children but itself.                      *)
LEMMA LeafBelow ==
  ASSUME NEW h, NEW l, NEW ch, Represents(h, l, ch), NEW n \in Nodes, ch[n] = <<>>
  PROVE  Below(Kids(ch), n) = {n}
<1> DEFINE W == {n}
<1>1. W \in SUBSET Nodes /\ n \in W /\ \A p \in W : ToSet(ch[p]) \subseteq W
  BY Empty DEF EmptyFacts
<1> HIDE DEF W
<1>2. Below(Kids(ch), n) \subseteq W /\ n \in Below(Kids(ch), n)
  BY <1>1, KidsFacts
<1> QED BY <1>2 DEF W

-----------------------------------------------------------------------------
(* Arrays that are created with their items.                                  *)

(* What CreateArrayOf computes, one item after the other.                      *)
LinkUp(linked, h, a, items) ==
  /\ linked[0] = h
  /\ \A k \in 0 .. Len(items) - 1 :
       linked[k + 1] = IF k = 0 THEN Set(h, a, "child", items[1])
                       ELSE suffix_object(linked[k], items[k], items[k + 1])

(* The recursive function of CreateArrayOf is that.                           *)
LEMMA LinkUpExists ==
  ASSUME NEW h \in Heaps, NEW a \in Nodes, NEW items \in Seq(Nodes)
  PROVE  LET linked[i \in 0 .. Len(items)] ==
               IF i = 0 THEN h
               ELSE IF i = 1 THEN Set(linked[0], a, "child", items[1])
                    ELSE suffix_object(linked[i - 1], items[i - 1], items[i])
         IN LinkUp(linked, h, a, items)
<1> DEFINE D(f, i) == IF i = 0 THEN h
                      ELSE IF i = 1 THEN Set(f[0], a, "child", items[1])
                           ELSE suffix_object(f[i - 1], items[i - 1], items[i])
           G(f) == f = [i \in 0 .. Len(items) |-> D(f, i)]
           linked == CHOOSE f : G(f)
           Step(k, w) == IF k = 0 THEN Set(h, a, "child", items[1])
                         ELSE suffix_object(w, items[k], items[k + 1])
           F == [k \in Nat |-> [w \in Heaps |-> IF k < Len(items) THEN Step(k, w) ELSE w]]
<1>1. Len(items) \in Nat /\ \A k \in 1 .. Len(items) : items[k] \in Nodes /\ items[k] \in Pointers
  BY LenProperties, ElementOfSeq, NULLFacts
<1>2. a \in Pointers
  BY NULLFacts
<1>3. ASSUME NEW k \in Nat, k < Len(items), NEW w \in Heaps PROVE Step(k, w) \in Heaps
  <2>1. CASE k = 0
    <3>1. items[1] \in Pointers
      BY <1>1, <1>3, <2>1
    <3>2. Set(h, a, "child", items[1]) \in Heaps
      BY <1>2, <3>1, SetChild
    <3> QED BY <2>1, <3>2
  <2>2. CASE k # 0
    <3>1. items[k] \in Pointers /\ items[k + 1] \in Pointers
      BY <1>1, <1>3, <2>2
    <3>2. suffix_object(w, items[k], items[k + 1]) \in Heaps
      BY <3>1, Suffixed
    <3> QED BY <2>2, <3>2
  <2> QED BY <2>1, <2>2
<1> HIDE DEF Step
<1>4. F \in [Nat -> [Heaps -> Heaps]]
  BY <1>3
<1>5. \A k \in Nat : k < Len(items) => \A w \in Heaps : F[k][w] = Step(k, w)
  OBVIOUS
<1> HIDE DEF F
<1>6. PICK g : Solves(g, Heaps, h, F)
  BY <1>4, Recursion DEF Recursive
<1>7. /\ \A k \in Nat : g[k] \in Heaps
      /\ g[0] = h /\ \A k \in Nat : g[k + 1] = F[k][g[k]]
  BY <1>6 DEF Solves
<1> DEFINE f == [i \in 0 .. Len(items) |-> g[i]]
<1>8. ASSUME NEW i \in 0 .. Len(items) PROVE f[i] = D(f, i)
  <2>1. CASE i = 0
    BY <1>7, <2>1
  <2>2. CASE i # 0
    <3>1. i - 1 \in Nat /\ i - 1 < Len(items) /\ (i - 1) + 1 = i /\ i - 1 \in 0 .. Len(items)
          /\ 0 \in 0 .. Len(items)
      BY <1>1, <2>2
    <3>2. g[i] = Step(i - 1, g[i - 1])
      BY <1>5, <1>7, <3>1
    <3>3. f[i] = g[i] /\ f[i - 1] = g[i - 1] /\ f[0] = h
      BY <1>7, <3>1
    <3>4. CASE i = 1
      BY <3>2, <3>3, <3>4 DEF Step
    <3>5. CASE i # 1
      BY <2>2, <3>1, <3>2, <3>3, <3>5 DEF Step
    <3> QED BY <3>4, <3>5
  <2> QED BY <2>1, <2>2
<1>9. G(f)
  <2>1. f = [i \in 0 .. Len(items) |-> f[i]]
    OBVIOUS
  <2> HIDE DEF f
  <2>2. [i \in 0 .. Len(items) |-> f[i]] = [i \in 0 .. Len(items) |-> D(f, i)]
    BY <1>8, Zenon
  <2> QED BY <2>1, <2>2
<1> HIDE DEF D, f
<1>10. G(linked)
  BY <1>9, Zenon
<1> HIDE DEF linked
<1>11. \A i \in 0 .. Len(items) : linked[i] = D(linked, i)
  BY <1>10
<1>12. LinkUp(linked, h, a, items)
  <2>1. linked[0] = h
    BY <1>1, <1>11 DEF D
  <2>2. ASSUME NEW k \in 0 .. Len(items) - 1
        PROVE linked[k + 1] = IF k = 0 THEN Set(h, a, "child", items[1])
                              ELSE suffix_object(linked[k], items[k], items[k + 1])
    <3>1. k + 1 \in 0 .. Len(items) /\ k + 1 # 0 /\ (k + 1) - 1 = k /\ (k + 1 = 1 <=> k = 0)
      BY <1>1
    <3> QED BY <1>11, <2>1, <3>1 DEF D
  <2> QED BY <2>1, <2>2 DEF LinkUp
<1> QED BY <1>12 DEF linked, D

(* The first i elements of a sequence.                                        *)
LEMMA PrefixFacts ==
  ASSUME NEW s \in Seq(Nodes), NEW i \in 0 .. Len(s)
  PROVE  /\ SubSeq(s, 1, i) \in Seq(Nodes) /\ Len(SubSeq(s, 1, i)) = i
         /\ \A j \in 1 .. i : SubSeq(s, 1, i)[j] = s[j]
<1>1. Len(s) \in Nat /\ i \in Nat /\ i <= Len(s)
  BY LenProperties
<1> QED BY <1>1, SubSeqProperties, LenProperties

(* The heap then represents the array with the items, in their order.         *)
LEMMA CreateArray ==
  ASSUME NEW h, NEW l, NEW ch, Represents(h, l, ch), NEW a \in l, NEW items \in Seq(Nodes),
         a \notin Objects, ch[a] = <<>>, Injective(items), a \notin ToSet(items),
         \A x \in ToSet(items) : x \in l /\ InNone(ch, x) /\ ch[x] = <<>>,
         NEW linked, LinkUp(linked, h, a, items)
  PROVE  /\ Represents(linked[Len(items)], l, [ch EXCEPT ![a] = items])
         /\ \A x \in Nodes : linked[Len(items)][x].string = h[x].string
<1> DEFINE c(i) == [ch EXCEPT ![a] = SubSeq(items, 1, i)]
           T == {i \in Nat : i <= Len(items) =>
                   /\ Represents(linked[i], l, c(i))
                   /\ \A x \in Nodes : linked[i][x].string = h[x].string}
<1>1. Len(items) \in Nat /\ DOMAIN items = 1 .. Len(items)
      /\ \A k \in 1 .. Len(items) : items[k] \in Nodes /\ items[k] \in ToSet(items)
  BY SeqFacts
<1>2. ch \in [Nodes -> Seq(Nodes)] /\ a \in Nodes
  BY RepresentsFacts
<1>3. 0 \in T
  <2>1. SubSeq(items, 1, 0) = <<>>
    BY SubSeqEmpty
  <2>2. c(0) = ch
    BY <1>2, <2>1
  <2>3. linked[0] = h
    BY DEF LinkUp
  <2> QED BY <2>2, <2>3
<1>4. ASSUME NEW i \in Nat, i \in T PROVE i + 1 \in T
  <2>1. SUFFICES ASSUME i + 1 <= Len(items)
                 PROVE  /\ Represents(linked[i + 1], l, c(i + 1))
                        /\ \A x \in Nodes : linked[i + 1][x].string = h[x].string
    OBVIOUS
  <2> DEFINE n == items[i + 1]
             s == SubSeq(items, 1, i)
             h1 == linked[i]
             c1 == c(i)
  <2>2. Represents(h1, l, c1) /\ \A x \in Nodes : h1[x].string = h[x].string
    BY <1>1, <1>4, <2>1
  <2>3. n \in Nodes /\ n \in ToSet(items) /\ n # a /\ i + 1 \in DOMAIN items
    BY <1>1, <2>1
  <2>4. n \in l /\ InNone(ch, n) /\ ch[n] = <<>>
    BY <2>3
  <2>5. /\ s \in Seq(Nodes) /\ Len(s) = i /\ DOMAIN s = 1 .. i
        /\ \A j \in 1 .. i : s[j] = items[j]
    <3>1. i \in 0 .. Len(items)
      BY <1>1, <2>1
    <3> QED BY <3>1, PrefixFacts, LenProperties
  <2>6. n \notin ToSet(s)
    <3>1. ASSUME NEW j \in 1 .. i PROVE items[j] # n
      <4>1. j \in DOMAIN items /\ j # i + 1
        BY <1>1, <2>1
      <4> QED BY <2>3, <4>1 DEF Injective
    <3> HIDE DEF n, s
    <3> QED BY <2>5, <3>1 DEF ToSet
  <2>7. c1[a] = s /\ \A m \in Nodes : m # a => c1[m] = ch[m]
    BY <1>2
  <2>e. s # <<>> <=> i # 0
    <3> HIDE DEF s
    <3> QED BY <2>5, EmptySeq
  <2>8. linked[i + 1] = add_item_to_array(h1, a, n)
    <3>1. i \in 0 .. Len(items) - 1
      BY <1>1, <2>1
    <3>2. linked[i + 1] = IF i = 0 THEN Set(h, a, "child", items[1])
                          ELSE suffix_object(linked[i], items[i], items[i + 1])
      BY <3>1 DEF LinkUp
    <3>3. h1[a].child = At(s, 1) /\ ChildrenOf(h1, a) = s
      <4> HIDE DEF c1, h1, s
      <4>1. h1[a].child = At(c1[a], 1)
        BY <1>2, <2>2, RepresentsFacts
      <4>2. ChildrenOf(h1, a) = c1[a]
        BY <1>2, <2>2, ChildrenAre
      <4> QED BY <2>7, <4>1, <4>2
    <3>4. CASE i = 0
      <4>1. h1[a].child = NULL
        BY <2>e, <3>3, <3>4, Empty DEF EmptyFacts
      <4>2. h1 = h
        BY <3>4 DEF LinkUp
      <4>3. n = items[1]
        BY <3>4
      <4> QED BY <3>2, <3>4, <4>1, <4>2, <4>3 DEF add_item_to_array
    <3>5. CASE i # 0
      <4>1. h1[a].child # NULL
        <5>1. 1 \in DOMAIN s
          BY <2>5, <3>5
        <5> HIDE DEF s, h1
        <5> QED BY <2>5, <3>3, <5>1, SeqFacts
      <4>2. Last(ChildrenOf(h1, a)) = items[i]
        BY <2>5, <3>3, <3>5 DEF Last
      <4> QED BY <3>2, <3>5, <4>1, <4>2 DEF add_item_to_array
    <3> QED BY <3>4, <3>5
  <2> DEFINE u == SubSeq(items, 1, i + 1)
  <2>9. u = InsertAt(s, Len(s) + 1, n)
    <3>1. InsertAt(s, Len(s) + 1, n) = s \o <<n>>
      BY <2>3, <2>5, InsertLast, AppendIsConcat
    <3>2. u = SubSeq(items, 1, (i + 1) - 1) \o <<n>>
      <4>1. 1 \in 1 .. Len(items) /\ i + 1 \in 1 .. Len(items)
        BY <1>1, <2>1
      <4> QED BY <4>1, SubSeqRecursiveSecond
    <3>3. (i + 1) - 1 = i
      OBVIOUS
    <3> QED BY <3>1, <3>2, <3>3
  <2>10. Attachable(h1, l, c1, a, n)
    <3>1. InNone(c1, n)
      <4> HIDE DEF c1, s, n
      <4> QED BY <2>4, <2>6, <2>7 DEF InNone
    <3>2. Below(Kids(c1), n) = {n}
      <4>1. c1[n] = <<>>
        BY <2>3, <2>4, <2>7
      <4> HIDE DEF c1, n, h1
      <4> QED BY <2>2, <2>3, <4>1, LeafBelow
    <3> HIDE DEF c1, n, h1
    <3> QED BY <2>2, <2>3, <2>4, <3>1, <3>2 DEF Attachable
  <2> HIDE DEF c1, h1, n, s, u
  <2>11. Attaches(h1, l, c1, a, Len(c1[a]) + 1, n, linked[i + 1])
    BY <2>8, <2>10, AddItem
  <2>12. Represents(linked[i + 1], l, [c1 EXCEPT ![a] = InsertAt(c1[a], Len(c1[a]) + 1, n)])
    BY <2>11, Attach
  <2>13. [c1 EXCEPT ![a] = InsertAt(c1[a], Len(c1[a]) + 1, n)] = c(i + 1)
    <3>1. InsertAt(c1[a], Len(c1[a]) + 1, n) = u
      BY <2>7, <2>9
    <3>2. [c1 EXCEPT ![a] = u] = [ch EXCEPT ![a] = u]
      BY <1>2 DEF c1
    <3> QED BY <3>1, <3>2 DEF u
  <2>14. \A x \in Nodes : linked[i + 1][x].string = h1[x].string
    BY <2>11 DEF Attaches
  <2> QED BY <2>2, <2>12, <2>13, <2>14
<1> HIDE DEF T
<1>5. \A i \in Nat : i \in T
  BY <1>3, <1>4, NatSetInduction
<1>6. Len(items) \in T
  BY <1>1, <1>5
<1>7. c(Len(items)) = [ch EXCEPT ![a] = items]
  BY SubSeqFull
<1> HIDE DEF c
<1>8. /\ Represents(linked[Len(items)], l, c(Len(items)))
      /\ \A x \in Nodes : linked[Len(items)][x].string = h[x].string
  BY <1>1, <1>6 DEF T
<1> QED BY <1>7, <1>8

-----------------------------------------------------------------------------
(* Duplicating.                                                               *)

(* The copies of a sequence of children.                                       *)
CopyOf(copy, s) == [i \in DOMAIN s |-> copy[s[i]]]

(* What Duplicate does: D is n, and unless it is copied alone what is below it. *)
Copied(ch, n, D, copy) ==
  [m \in Nodes |-> IF m \notin Range(copy) THEN ch[m]
                   ELSE IF D # Below(Kids(ch), n) THEN <<>>
                   ELSE CopyOf(copy, ch[CHOOSE x \in D : copy[x] = m])]

(* The memory after it.                                                       *)
CopiedHeap(h, n, D, copy) ==
  LET of(p) == IF p \in D THEN copy[p] ELSE NULL
      duplicate(x) ==
        [child |-> of(h[x].child), string |-> h[x].string,
         next |-> IF x = n THEN NULL ELSE of(h[x].next),
         prev |-> IF x = n THEN NULL ELSE of(h[x].prev)] IN
  [m \in Nodes |-> IF \E x \in D : copy[x] = m
                   THEN duplicate(CHOOSE x \in D : copy[x] = m) ELSE h[m]]

(* The keys after it.                                                         *)
CopiedKeys(h, D, copy, h2) ==
  \A m \in Nodes : h2[m].string = IF m \in Range(copy)
                                  THEN h[CHOOSE x \in D : copy[x] = m].string ELSE h[m].string

Duplicates(h, l, ch, n, D, copy, h2) ==
  /\ Represents(h, l, ch) /\ n \in l
  /\ D = {n} \/ D = Below(Kids(ch), n)
  /\ copy \in [D -> Nodes \ l] /\ IsInjective(copy)
  /\ \A x \in D : x \in Objects <=> copy[x] \in Objects
  /\ h2 = CopiedHeap(h, n, D, copy)

(* A copied sequence has the copies of the neighbours for neighbours.         *)
LEMMA CopyFacts ==
  ASSUME NEW D \in SUBSET Nodes, NEW l, NEW copy \in [D -> Nodes \ l], IsInjective(copy),
         NEW s \in Seq(Nodes), ToSet(s) \subseteq D
  PROVE  /\ CopyOf(copy, s) \in Seq(Nodes) /\ DOMAIN CopyOf(copy, s) = DOMAIN s
         /\ \A i \in DOMAIN s : CopyOf(copy, s)[i] = copy[s[i]]
         /\ ToSet(CopyOf(copy, s)) \subseteq Range(copy)
         /\ \A x \in D : copy[x] \in ToSet(CopyOf(copy, s)) <=> x \in ToSet(s)
         /\ \A i : At(CopyOf(copy, s), i) = IF At(s, i) \in D THEN copy[At(s, i)] ELSE NULL
<1> DEFINE t == CopyOf(copy, s)
<1>1. Len(s) \in Nat /\ DOMAIN s = 1 .. Len(s)
  BY LenProperties
<1>2. \A i \in DOMAIN s : s[i] \in D
  BY DEF ToSet
<1>3. DOMAIN t = DOMAIN s /\ \A i \in DOMAIN s : t[i] = copy[s[i]] /\ t[i] \in Nodes
  BY <1>2 DEF CopyOf
<1>4. t \in [1 .. Len(s) -> Nodes]
  BY <1>1, <1>2 DEF CopyOf
<1>5. t \in Seq(Nodes)
  BY <1>1, <1>4
<1> HIDE DEF t
<1>6. ToSet(t) \subseteq Range(copy)
  BY <1>2, <1>3 DEF ToSet, Range
<1>7. ASSUME NEW x \in D PROVE copy[x] \in ToSet(t) <=> x \in ToSet(s)
  BY <1>2, <1>3 DEF ToSet, IsInjective
<1>8. ASSUME NEW i PROVE At(t, i) = IF At(s, i) \in D THEN copy[At(s, i)] ELSE NULL
  <2>1. CASE i \in DOMAIN s
    BY <1>2, <1>3, <2>1 DEF At
  <2>2. CASE i \notin DOMAIN s
    BY <1>3, <2>2, NULLFacts DEF At
  <2> QED BY <2>1, <2>2
<1> QED BY <1>3, <1>5, <1>6, <1>7, <1>8 DEF t

(* The copies are a tree of their own, and the original is as it was.         *)
LEMMA Duplicated ==
  ASSUME NEW h, NEW l, NEW ch, NEW n, NEW D, NEW copy, NEW h2,
         Duplicates(h, l, ch, n, D, copy, h2)
  PROVE  /\ Represents(h2, l \cup Range(copy), Copied(ch, n, D, copy))
         /\ CopiedKeys(h, D, copy, h2)
<1> DEFINE full == D = Below(Kids(ch), n)
           R == Range(copy)
           o(m) == CHOOSE x \in D : copy[x] = m
           c == Copied(ch, n, D, copy)
           of(p) == IF p \in D THEN copy[p] ELSE NULL
           l2 == l \cup R
<1>1. /\ Represents(h, l, ch) /\ n \in l
      /\ D = {n} \/ full
      /\ copy \in [D -> Nodes \ l] /\ \A x, y \in D : copy[x] = copy[y] => x = y
      /\ \A x \in D : x \in Objects <=> copy[x] \in Objects
  BY DEF Duplicates, IsInjective
<1>2. /\ h \in Heaps /\ l \subseteq Nodes /\ n \in Nodes /\ ch \in [Nodes -> Seq(Nodes)]
      /\ \A x \in Nodes : ToSet(ch[x]) \subseteq l /\ ch[x] \in Seq(Nodes) /\ Injective(ch[x])
                          /\ Links(h, ch[x]) /\ h[x].child = At(ch[x], 1)
  <2>1. h \in Heaps /\ l \subseteq Nodes /\ n \in Nodes /\ ch \in [Nodes -> Seq(Nodes)]
    BY <1>1, RepresentsFacts
  <2>2. \A x \in Nodes : ToSet(ch[x]) \subseteq l /\ ch[x] \in Seq(Nodes) /\ Injective(ch[x])
                          /\ Links(h, ch[x]) /\ h[x].child = At(ch[x], 1)
    BY <1>1, RepresentsFacts
  <2> QED BY <2>1, <2>2
<1>3. /\ n \in D /\ D \subseteq l /\ D \in SUBSET Nodes
      /\ full => \A p \in D : ToSet(ch[p]) \subseteq D /\ n \notin ToSet(ch[p])
      /\ \A m \in D : m # n => full /\ \E p \in D : m \in ToSet(ch[p])
  <2>1. CASE D = {n} /\ ~full
    BY <1>1, <1>2, <2>1
  <2>2. CASE full
    BY <1>1, <1>2, <2>2, KidsFacts, NotBelowItself
  <2> QED BY <1>1, <2>1, <2>2
<1>4. /\ \A x \in D : copy[x] \in R /\ copy[x] \in Nodes /\ copy[x] \notin l /\ o(copy[x]) = x
      /\ \A m \in R : o(m) \in D /\ copy[o(m)] = m
      /\ R \subseteq Nodes /\ R \cap l = {}
  BY <1>1 DEF Range
<1>5. /\ \A x \in D : /\ h2[copy[x]].child = of(h[x].child) /\ h2[copy[x]].string = h[x].string
                      /\ h2[copy[x]].next = IF x = n THEN NULL ELSE of(h[x].next)
                      /\ h2[copy[x]].prev = IF x = n THEN NULL ELSE of(h[x].prev)
      /\ \A m \in Nodes \ R : h2[m] = h[m]
      /\ h2 \in Heaps
  <2> DEFINE dup(x) == [child |-> of(h[x].child), string |-> h[x].string,
                        next |-> IF x = n THEN NULL ELSE of(h[x].next),
                        prev |-> IF x = n THEN NULL ELSE of(h[x].prev)]
  <2>1. h2 = [m \in Nodes |-> IF \E x \in D : copy[x] = m THEN dup(o(m)) ELSE h[m]]
    BY DEF Duplicates, CopiedHeap
  <2>2. \A m : m \in R <=> \E x \in D : copy[x] = m
    BY <1>1 DEF Range
  <2>o. \A p : of(p) \in Pointers
    BY <1>4, NULLFacts
  <2> HIDE DEF of
  <2>3. \A x \in D : dup(x) \in Items
    BY <1>2, <1>3, <2>o, NULLFacts, HeapType DEF Items
  <2>4. \A x \in D : /\ dup(x).child = of(h[x].child) /\ dup(x).string = h[x].string
                     /\ dup(x).next = IF x = n THEN NULL ELSE of(h[x].next)
                     /\ dup(x).prev = IF x = n THEN NULL ELSE of(h[x].prev)
    OBVIOUS
  <2> HIDE DEF dup, R, o
  <2>5. \A m \in Nodes : h2[m] = IF m \in R THEN dup(o(m)) ELSE h[m]
    BY <2>1, <2>2
  <2>6. h2 \in Heaps
    <3>1. \A m \in Nodes : h2[m] \in Items
      BY <1>2, <1>4, <2>3, <2>5 DEF Heaps
    <3> QED BY <2>1, <3>1 DEF Heaps
  <2>7. \A x \in D : h2[copy[x]] = dup(x)
    BY <1>4, <2>5
  <2>8. \A m \in Nodes \ R : h2[m] = h[m]
    BY <2>5
  <2> QED BY <2>4, <2>6, <2>7, <2>8
<1>e. EmptyFacts
  BY Empty
<1>6. /\ \A m \in Nodes \ R : c[m] = ch[m]
      /\ \A x \in D : c[copy[x]] = IF full THEN CopyOf(copy, ch[x]) ELSE <<>>
      /\ DOMAIN c = Nodes /\ c = [m \in Nodes |-> c[m]]
  BY <1>4 DEF Copied
<1>7. ASSUME NEW x \in D, full
      PROVE  /\ c[copy[x]] = CopyOf(copy, ch[x])
             /\ CopyOf(copy, ch[x]) \in Seq(Nodes) /\ DOMAIN CopyOf(copy, ch[x]) = DOMAIN ch[x]
             /\ \A i \in DOMAIN ch[x] : CopyOf(copy, ch[x])[i] = copy[ch[x][i]] /\ ch[x][i] \in D
             /\ ToSet(CopyOf(copy, ch[x])) \subseteq R
             /\ \A y \in D : copy[y] \in ToSet(CopyOf(copy, ch[x])) <=> y \in ToSet(ch[x])
             /\ \A i : At(CopyOf(copy, ch[x]), i) = of(At(ch[x], i))
  <2>1. ch[x] \in Seq(Nodes) /\ ToSet(ch[x]) \subseteq D /\ D \in SUBSET Nodes
        /\ copy \in [D -> Nodes \ l] /\ IsInjective(copy)
    BY <1>1, <1>2, <1>3, <1>7 DEF IsInjective
  <2>2. \A i \in DOMAIN ch[x] : ch[x][i] \in D
    BY <2>1 DEF ToSet
  <2>3. c[copy[x]] = CopyOf(copy, ch[x])
    BY <1>6, <1>7
  <2>s. PICK s : s = ch[x]
    OBVIOUS
  <2>4. s \in Seq(Nodes) /\ ToSet(s) \subseteq D
    BY <2>1, <2>s
  <2>5. /\ CopyOf(copy, s) \in Seq(Nodes) /\ DOMAIN CopyOf(copy, s) = DOMAIN s
        /\ \A i \in DOMAIN s : CopyOf(copy, s)[i] = copy[s[i]]
        /\ ToSet(CopyOf(copy, s)) \subseteq Range(copy)
        /\ \A y \in D : copy[y] \in ToSet(CopyOf(copy, s)) <=> y \in ToSet(s)
        /\ \A i : At(CopyOf(copy, s), i) = IF At(s, i) \in D THEN copy[At(s, i)] ELSE NULL
    <3> HIDE DEF c, full, of, R, o
    <3> QED BY <2>1, <2>4, CopyFacts
  <2>6. \A i : At(CopyOf(copy, s), i) = of(At(s, i))
    BY <2>5
  <2>7. ToSet(CopyOf(copy, s)) \subseteq R
    BY <2>5
  <2> HIDE DEF c, full, of, R, o
  <2> QED BY <2>2, <2>3, <2>5, <2>6, <2>7, <2>s
<1> HIDE DEF c, of, R, o, full
<1>8. c \in [Nodes -> Seq(Nodes)]
  <2>1. ASSUME NEW x \in D PROVE c[copy[x]] \in Seq(Nodes)
    <3>1. CASE full
      BY <1>7, <3>1
    <3>2. CASE ~full
      BY <1>6, <3>2, EmptySeq
    <3> QED BY <3>1, <3>2
  <2>2. \A m \in R : c[m] \in Seq(Nodes)
    BY <1>4, <2>1
  <2>3. \A m \in Nodes : c[m] \in Seq(Nodes)
    BY <1>2, <1>6, <2>2
  <2> QED BY <1>6, <2>3
<1>9. /\ \A m \in Nodes \ R : ToSet(c[m]) \subseteq l
      /\ \A m \in R : ToSet(c[m]) \subseteq R
  <2>1. \A x \in D : ToSet(c[copy[x]]) \subseteq R
    BY <1>6, <1>7, <1>e DEF EmptyFacts
  <2>2. \A m \in R : ToSet(c[m]) \subseteq R
    BY <1>4, <2>1
  <2> QED BY <1>2, <1>6, <2>2
<1>10. \A m \in Nodes : ToSet(c[m]) \subseteq l2
  BY <1>9
<1>11. ASSUME NEW m \in Nodes \ l2 PROVE c[m] = <<>> /\ h2[m].string = NULL
  <2>1. m \in Nodes /\ m \notin l /\ m \notin R
    OBVIOUS
  <2>2. ch[m] = <<>> /\ h[m].string = NULL
    BY <1>1, <2>1 DEF Represents
  <2> QED BY <1>5, <1>6, <2>1, <2>2
<1>12. OnePlace(c)
  <2>1. OnePlace(ch)
    BY <1>1 DEF Represents
  <2>2. ASSUME NEW m \in Nodes, NEW p \in Nodes, NEW i \in DOMAIN c[m], NEW j \in DOMAIN c[p],
               c[m][i] = c[p][j]
        PROVE  m = p /\ i = j
    <3>1. c[m][i] \in ToSet(c[m]) /\ c[p][j] \in ToSet(c[p])
      BY <2>2 DEF ToSet
    <3>2. m \in R <=> p \in R
      BY <1>4, <1>9, <2>2, <3>1
    <3>3. CASE m \notin R
      <4>1. c[m] = ch[m] /\ c[p] = ch[p]
        BY <1>6, <3>2, <3>3
      <4>2. i \in DOMAIN ch[m] /\ j \in DOMAIN ch[p] /\ ch[m][i] = ch[p][j]
        BY <2>2, <4>1
      <4> QED BY <2>1, <4>2 DEF OnePlace
    <3>4. CASE m \in R
      <4>1. PICK x \in D, y \in D : m = copy[x] /\ p = copy[y]
        BY <1>4, <3>2, <3>4
      <4>2. full
        BY <1>6, <1>e, <2>2, <4>1 DEF EmptyFacts
      <4>3. c[m] = CopyOf(copy, ch[x]) /\ c[p] = CopyOf(copy, ch[y])
        BY <1>7, <4>1, <4>2
      <4>4. i \in DOMAIN ch[x] /\ c[m][i] = copy[ch[x][i]] /\ ch[x][i] \in D
        BY <1>7, <2>2, <4>2, <4>3
      <4>5. j \in DOMAIN ch[y] /\ c[p][j] = copy[ch[y][j]] /\ ch[y][j] \in D
        BY <1>7, <2>2, <4>2, <4>3
      <4>6. ch[x][i] = ch[y][j]
        BY <1>1, <2>2, <4>4, <4>5
      <4>7. x \in Nodes /\ y \in Nodes
        BY <1>3
      <4> QED BY <2>1, <4>1, <4>4, <4>5, <4>6, <4>7 DEF OnePlace
    <3> QED BY <3>3, <3>4
  <2> QED BY <2>2 DEF OnePlace
<1>13. Stores(h2, c)
  <2>1. ASSUME NEW m \in Nodes \ R PROVE h2[m].child = At(c[m], 1) /\ Links(h2, c[m])
    <3>1. c[m] = ch[m] /\ h2[m] = h[m]
      BY <1>5, <1>6
    <3>2. \A i \in DOMAIN ch[m] : ch[m][i] \in ToSet(ch[m])
      BY DEF ToSet
    <3>3. \A i \in DOMAIN ch[m] : ch[m][i] \in Nodes \ R
      BY <1>2, <1>4, <3>2
    <3>4. Links(h2, ch[m])
      BY <1>2, <1>5, <3>3 DEF Links
    <3> QED BY <1>2, <3>1, <3>4
  <2>2. ASSUME NEW x \in D PROVE h2[copy[x]].child = At(c[copy[x]], 1) /\ Links(h2, c[copy[x]])
    <3>0. x \in Nodes /\ h2[copy[x]].child = of(At(ch[x], 1))
      BY <1>2, <1>3, <1>5
    <3>1. CASE full
      <4>1. h2[copy[x]].child = At(c[copy[x]], 1)
        BY <1>7, <3>0, <3>1
      <4>2. ASSUME NEW i \in DOMAIN ch[x]
            PROVE  /\ h2[copy[ch[x][i]]].prev = of(At(ch[x], i - 1))
                   /\ h2[copy[ch[x][i]]].next = of(At(ch[x], i + 1))
        <5>1. ch[x][i] \in D /\ ch[x][i] # n
          BY <1>3, <1>7, <3>1, <4>2 DEF ToSet
        <5>2. h[ch[x][i]].prev = At(ch[x], i - 1) /\ h[ch[x][i]].next = At(ch[x], i + 1)
          BY <1>2, <3>0, <4>2 DEF Links
        <5> QED BY <1>5, <5>1, <5>2
      <4>3. ASSUME NEW i \in DOMAIN c[copy[x]]
            PROVE  /\ h2[c[copy[x]][i]].prev = At(c[copy[x]], i - 1)
                   /\ h2[c[copy[x]][i]].next = At(c[copy[x]], i + 1)
        <5>1. i \in DOMAIN ch[x] /\ c[copy[x]][i] = copy[ch[x][i]]
          BY <1>7, <3>1, <4>3
        <5>2. \A j : At(c[copy[x]], j) = of(At(ch[x], j))
          BY <1>7, <3>1
        <5>3. At(c[copy[x]], i - 1) = of(At(ch[x], i - 1))
          BY <5>2
        <5>4. At(c[copy[x]], i + 1) = of(At(ch[x], i + 1))
          BY <5>2
        <5> QED BY <4>2, <5>1, <5>3, <5>4
      <4> QED BY <4>1, <4>3 DEF Links
    <3>2. CASE ~full
      <4>1. D = {n} /\ x = n /\ c[copy[x]] = <<>>
        BY <1>1, <1>6, <3>2
      <4>2. h[x].child # n
        <5>1. n \notin ToSet(ch[n])
          BY <1>1, <1>2, NotBelowItself, KidsFacts
        <5> QED BY <1>2, <4>1, <5>1, NULLFacts DEF At, ToSet
      <4>3. h2[copy[x]].child = NULL
        BY <1>5, <4>1, <4>2 DEF of
      <4> QED BY <1>e, <4>1, <4>3 DEF EmptyFacts, Links
    <3> QED BY <3>1, <3>2
  <2>3. \A m \in Nodes : h2[m].child = At(c[m], 1) /\ Links(h2, c[m])
    BY <1>4, <2>1, <2>2
  <2>4. ASSUME NEW m \in Nodes \ R, InNone(c, m) PROVE h2[m].prev = NULL /\ h2[m].next = NULL
    <3>1. InNone(ch, m)
      <4>1. \A p \in Nodes \ R : m \notin ToSet(ch[p])
        BY <1>6, <2>4 DEF InNone
      <4>2. \A p \in R : ch[p] = <<>>
        BY <1>1, <1>4 DEF Represents
      <4> QED BY <1>e, <4>1, <4>2 DEF InNone, EmptyFacts
    <3> QED BY <1>1, <1>5, <3>1 DEF Represents, Stores
  <2>5. ASSUME NEW x \in D, InNone(c, copy[x])
        PROVE  h2[copy[x]].prev = NULL /\ h2[copy[x]].next = NULL
    <3>1. x = n
      <4>1. SUFFICES ASSUME x # n PROVE FALSE
        OBVIOUS
      <4>2. full /\ \E p \in D : x \in ToSet(ch[p])
        BY <1>3, <4>1
      <4>3. PICK p \in D : x \in ToSet(ch[p])
        BY <4>2
      <4>4. copy[x] \in ToSet(c[copy[p]]) /\ copy[p] \in Nodes
        BY <1>4, <1>7, <4>2, <4>3
      <4> QED BY <2>5, <4>4 DEF InNone
    <3> QED BY <1>5, <3>1
  <2>6. \A m \in Nodes : InNone(c, m) => h2[m].prev = NULL /\ h2[m].next = NULL
    BY <1>4, <2>4, <2>5
  <2> QED BY <2>3, <2>6 DEF Stores
<1>14. Acyclic(c)
  <2>0. Acyclic(ch)
    BY <1>1 DEF Represents
  <2>1. ASSUME NEW S \in SUBSET Nodes, S # {} PROVE \E x \in S : \A m \in S : x \notin ToSet(c[m])
    <3>1. CASE S \ R # {}
      <4>1. PICK x \in S \ R : \A m \in S \ R : x \notin ToSet(ch[m])
        BY <2>0, <3>1 DEF Acyclic
      <4>2. \A m \in S \ R : x \notin ToSet(c[m])
        BY <1>6, <4>1
      <4>3. \A m \in S \cap R : x \notin ToSet(c[m])
        BY <1>9, <4>1
      <4> QED BY <4>1, <4>2, <4>3
    <3>2. CASE S \subseteq R
      <4> DEFINE P == {x \in D : copy[x] \in S}
      <4>1. P # {} /\ P \in SUBSET Nodes
        BY <1>3, <1>4, <2>1, <3>2
      <4>2. PICK x \in P : \A m \in P : x \notin ToSet(ch[m])
        <5> HIDE DEF P
        <5> QED BY <2>0, <4>1 DEF Acyclic
      <4>3. ASSUME NEW m \in S PROVE copy[x] \notin ToSet(c[m])
        <5>1. PICK z \in D : copy[z] = m
          BY <1>4, <3>2
        <5>2. x \notin ToSet(ch[z])
          BY <4>2, <4>3, <5>1
        <5>3. CASE full
          BY <1>7, <4>2, <5>1, <5>2, <5>3
        <5>4. CASE ~full
          BY <1>6, <1>e, <5>1, <5>4 DEF EmptyFacts
        <5> QED BY <5>3, <5>4
      <4> QED BY <4>2, <4>3
    <3> QED BY <3>1, <3>2
  <2> QED BY <2>1 DEF Acyclic
<1>15. MembersHaveKeys(h2, c)
  <2>0. MembersHaveKeys(h, ch) /\ Objects \subseteq Nodes
    BY <1>1, ItemAssumption DEF Represents, ItemAssumption
  <2>1. ASSUME NEW q \in Objects, NEW x \in ToSet(c[q]) PROVE h2[x].string \in Keys
    <3>1. CASE q \notin R
      <4>1. x \in ToSet(ch[q])
        BY <1>6, <2>0, <2>1, <3>1
      <4>2. x \in Nodes \ R
        BY <1>2, <1>4, <2>0, <4>1
      <4>3. h[x].string \in Keys
        BY <2>0, <4>1 DEF MembersHaveKeys
      <4> QED BY <1>5, <4>2, <4>3
    <3>2. CASE q \in R
      <4>1. PICK y \in D : copy[y] = q
        BY <1>4, <3>2
      <4>2. full
        BY <1>6, <1>e, <2>1, <4>1 DEF EmptyFacts
      <4>3. x \in R
        BY <1>9, <2>1, <3>2
      <4>4. PICK z \in D : copy[z] = x
        BY <1>4, <4>3
      <4>5. z \in ToSet(ch[y])
        BY <1>7, <2>1, <4>1, <4>2, <4>4
      <4>6. y \in Objects
        BY <1>1, <2>1, <4>1
      <4>7. h[z].string \in Keys
        BY <2>0, <4>5, <4>6 DEF MembersHaveKeys
      <4> QED BY <1>5, <4>4, <4>7
    <3> QED BY <3>1, <3>2
  <2> QED BY <2>1 DEF MembersHaveKeys
<1>16. l2 \subseteq Nodes
  BY <1>2, <1>4
<1> HIDE DEF l2
<1>17. Represents(h2, l2, c)
  BY <1>5, <1>8, <1>10, <1>11, <1>12, <1>13, <1>14, <1>15, <1>16 DEF Represents
<1>18. \A m \in Nodes : h2[m].string = IF m \in R THEN h[o(m)].string ELSE h[m].string
  BY <1>4, <1>5
<1> QED BY <1>17, <1>18 DEF l2, R, c, o, CopiedKeys

-----------------------------------------------------------------------------
(* Mergesort.                                                                 *)

(* Two sequences that share no item, joined.                                  *)
LEMMA ConcatFacts ==
  ASSUME NEW b \in Seq(Nodes), NEW r \in Seq(Nodes)
  PROVE  /\ b \o r \in Seq(Nodes) /\ Len(b \o r) = Len(b) + Len(r)
         /\ ToSet(b \o r) = ToSet(b) \cup ToSet(r)
         /\ \A j \in Int : At(b \o r, j) = IF j <= Len(b) THEN At(b, j) ELSE At(r, j - Len(b))
         /\ Injective(b) /\ Injective(r) /\ ToSet(b) \cap ToSet(r) = {} => Injective(b \o r)
<1> DEFINE u == b \o r
<1>1. /\ u \in Seq(Nodes) /\ Len(u) = Len(b) + Len(r)
      /\ \A i \in 1 .. Len(b) + Len(r) : u[i] = IF i <= Len(b) THEN b[i] ELSE r[i - Len(b)]
  BY ConcatProperties
<1>2. /\ Len(b) \in Nat /\ DOMAIN b = 1 .. Len(b) /\ Len(r) \in Nat /\ DOMAIN r = 1 .. Len(r)
      /\ DOMAIN u = 1 .. Len(b) + Len(r)
  BY <1>1, LenProperties
<1> HIDE DEF u
<1>3. ASSUME NEW j \in Int PROVE At(u, j) = IF j <= Len(b) THEN At(b, j) ELSE At(r, j - Len(b))
  <2>1. CASE j \in 1 .. Len(b)
    BY <1>1, <1>2, <2>1 DEF At
  <2>2. CASE j \in Len(b) + 1 .. Len(b) + Len(r)
    <3>1. j - Len(b) \in 1 .. Len(r) /\ j \in 1 .. Len(b) + Len(r) /\ ~(j <= Len(b))
      BY <1>2, <2>2
    <3> QED BY <1>1, <1>2, <3>1 DEF At
  <2>3. CASE j \notin 1 .. Len(b) + Len(r)
    <3>1. (j \notin DOMAIN u /\ j \notin DOMAIN b /\ j - Len(b) \notin DOMAIN r) \/ j <= Len(b)
      BY <1>2, <2>3
    <3>2. j \notin DOMAIN u /\ j \notin DOMAIN b
      BY <1>2, <2>3
    <3> QED BY <3>1, <3>2 DEF At
  <2> QED BY <1>2, <2>1, <2>2, <2>3
<1>4. ASSUME NEW i \in DOMAIN b PROVE i \in DOMAIN u /\ u[i] = b[i]
  BY <1>1, <1>2
<1>5. ASSUME NEW i \in DOMAIN r PROVE Len(b) + i \in DOMAIN u /\ u[Len(b) + i] = r[i]
  <2>1. Len(b) + i \in 1 .. Len(b) + Len(r) /\ ~(Len(b) + i <= Len(b)) /\ (Len(b) + i) - Len(b) = i
    BY <1>2
  <2> QED BY <1>1, <1>2, <2>1
<1>6. ASSUME NEW i \in DOMAIN u
      PROVE  \/ i \in DOMAIN b /\ u[i] = b[i]
             \/ i - Len(b) \in DOMAIN r /\ u[i] = r[i - Len(b)]
  BY <1>1, <1>2
<1>7. ToSet(u) = ToSet(b) \cup ToSet(r)
  BY <1>4, <1>5, <1>6 DEF ToSet
<1>8. ASSUME Injective(b), Injective(r), ToSet(b) \cap ToSet(r) = {} PROVE Injective(u)
  <2>1. ASSUME NEW i \in DOMAIN u, NEW j \in DOMAIN u, u[i] = u[j] PROVE i = j
    <3>1. i \in Int /\ j \in Int
      BY <1>2
    <3>2. CASE i \in DOMAIN b /\ u[i] = b[i] /\ j \in DOMAIN b /\ u[j] = b[j]
      BY <1>8, <2>1, <3>2 DEF Injective
    <3>3. CASE i - Len(b) \in DOMAIN r /\ u[i] = r[i - Len(b)]
               /\ j - Len(b) \in DOMAIN r /\ u[j] = r[j - Len(b)]
      <4>1. i - Len(b) = j - Len(b)
        BY <1>8, <2>1, <3>3 DEF Injective
      <4> QED BY <1>2, <3>1, <4>1
    <3>4. CASE i \in DOMAIN b /\ u[i] = b[i] /\ j - Len(b) \in DOMAIN r /\ u[j] = r[j - Len(b)]
      <4>1. b[i] \in ToSet(b) /\ r[j - Len(b)] \in ToSet(r)
        BY <3>4 DEF ToSet
      <4> QED BY <1>8, <2>1, <3>4, <4>1
    <3>5. CASE j \in DOMAIN b /\ u[j] = b[j] /\ i - Len(b) \in DOMAIN r /\ u[i] = r[i - Len(b)]
      <4>1. b[j] \in ToSet(b) /\ r[i - Len(b)] \in ToSet(r)
        BY <3>5 DEF ToSet
      <4> QED BY <1>8, <2>1, <3>5, <4>1
    <3> QED BY <1>6, <3>2, <3>3, <3>4, <3>5
  <2> QED BY <2>1 DEF Injective
<1> QED BY <1>1, <1>3, <1>7, <1>8 DEF u

(* A sequence cut in two.                                                     *)
LEMMA SplitFacts ==
  ASSUME NEW s \in Seq(Nodes), Injective(s), NEW k \in 2 .. Len(s)
  PROVE  LET p == SubSeq(s, 1, k - 1)
             q == SubSeq(s, k, Len(s)) IN
         /\ p \in Seq(Nodes) /\ Len(p) = k - 1 /\ q \in Seq(Nodes) /\ Len(q) = Len(s) - k + 1
         /\ ToSet(s) = ToSet(p) \cup ToSet(q) /\ ToSet(p) \cap ToSet(q) = {}
         /\ Injective(p) /\ Injective(q)
         /\ \A j \in Int : At(p, j) = IF j < k THEN At(s, j) ELSE NULL
         /\ \A j \in Int : At(q, j) = IF j >= 1 THEN At(s, k - 1 + j) ELSE NULL
<1> DEFINE p == SubSeq(s, 1, k - 1)
           q == SubSeq(s, k, Len(s))
<1>1. Len(s) \in Nat /\ DOMAIN s = 1 .. Len(s) /\ k \in 2 .. Len(s) /\ k \in Nat
  BY LenProperties
<1>2. /\ p \in Seq(Nodes) /\ Len(p) = k - 1 /\ \A i \in 1 .. k - 1 : p[i] = s[i]
  <2>1. \A i \in 1 .. k - 1 : s[i] \in Nodes
    BY <1>1
  <2>2. 1 \in Int /\ k - 1 \in Int
    BY <1>1
  <2>3. /\ p \in Seq(Nodes) /\ Len(p) = IF 1 <= k - 1 THEN (k - 1) - 1 + 1 ELSE 0
        /\ \A i \in 1 .. (k - 1) - 1 + 1 : p[i] = s[1 + i - 1]
    BY <2>1, <2>2, SubSeqProperties
  <2> HIDE DEF p
  <2>4. (k - 1) - 1 + 1 = k - 1 /\ 1 <= k - 1 /\ \A i \in 1 .. k - 1 : 1 + i - 1 = i
    BY <1>1
  <2> QED BY <2>3, <2>4
<1>3. /\ q \in Seq(Nodes) /\ Len(q) = Len(s) - k + 1
      /\ \A i \in 1 .. Len(s) - k + 1 : q[i] = s[k + i - 1]
  <2>1. \A i \in k .. Len(s) : s[i] \in Nodes
    BY <1>1
  <2>2. k \in Int /\ Len(s) \in Int
    BY <1>1
  <2>3. /\ q \in Seq(Nodes) /\ Len(q) = IF k <= Len(s) THEN Len(s) - k + 1 ELSE 0
        /\ \A i \in 1 .. Len(s) - k + 1 : q[i] = s[k + i - 1]
    BY <2>1, <2>2, SubSeqProperties
  <2> HIDE DEF q
  <2> QED BY <1>1, <2>3
<1> HIDE DEF p, q
<1>4. DOMAIN p = 1 .. k - 1 /\ DOMAIN q = 1 .. Len(s) - k + 1
  BY <1>2, <1>3, LenProperties
<1>5. ASSUME NEW j \in Int PROVE At(p, j) = IF j < k THEN At(s, j) ELSE NULL
  <2>1. CASE j \in 1 .. k - 1
    BY <1>1, <1>2, <1>4, <2>1 DEF At
  <2>2. CASE j \notin 1 .. k - 1
    BY <1>1, <1>4, <2>2 DEF At
  <2> QED BY <2>1, <2>2
<1>6. ASSUME NEW j \in Int PROVE At(q, j) = IF j >= 1 THEN At(s, k - 1 + j) ELSE NULL
  <2>1. CASE j \in 1 .. Len(s) - k + 1
    <3>1. k + j - 1 = k - 1 + j /\ k - 1 + j \in 1 .. Len(s) /\ j >= 1
      BY <1>1, <2>1
    <3>2. q[j] = s[k - 1 + j]
      BY <1>3, <2>1, <3>1
    <3> QED BY <1>1, <1>4, <2>1, <3>1, <3>2 DEF At
  <2>2. CASE j \notin 1 .. Len(s) - k + 1
    <3>1. j >= 1 => k - 1 + j \notin 1 .. Len(s)
      BY <1>1, <2>2
    <3> QED BY <1>1, <1>4, <2>2, <3>1 DEF At
  <2> QED BY <2>1, <2>2
<1>7. ASSUME NEW i \in DOMAIN p PROVE i \in DOMAIN s /\ i < k /\ p[i] = s[i]
  BY <1>1, <1>2, <1>4
<1>8. ASSUME NEW i \in DOMAIN q
      PROVE  k - 1 + i \in DOMAIN s /\ k - 1 + i >= k /\ q[i] = s[k - 1 + i] /\ i \in Int
  <2>1. k + i - 1 = k - 1 + i
    BY <1>1, <1>4
  <2> QED BY <1>1, <1>3, <1>4, <2>1, SMTT(30)
<1>9. ASSUME NEW i \in DOMAIN s
      PROVE  \/ i \in DOMAIN p /\ p[i] = s[i]
             \/ i - k + 1 \in DOMAIN q /\ q[i - k + 1] = s[i]
  <2>1. CASE i < k
    BY <1>1, <1>2, <1>4, <2>1
  <2>2. CASE ~(i < k)
    <3>1. i - k + 1 \in 1 .. Len(s) - k + 1 /\ k + (i - k + 1) - 1 = i
      BY <1>1, <2>2
    <3>2. q[i - k + 1] = s[k + (i - k + 1) - 1]
      BY <1>3, <3>1
    <3> QED BY <1>4, <3>1, <3>2
  <2> QED BY <2>1, <2>2
<1>10. ToSet(s) = ToSet(p) \cup ToSet(q)
  BY <1>7, <1>8, <1>9 DEF ToSet
<1>11. ToSet(p) \cap ToSet(q) = {}
  <2>1. ASSUME NEW i \in DOMAIN p, NEW j \in DOMAIN q, p[i] = q[j] PROVE FALSE
    <3>1. i \in DOMAIN s /\ i < k /\ k - 1 + j \in DOMAIN s /\ k - 1 + j >= k /\ s[i] = s[k - 1 + j]
      BY <1>7, <1>8, <2>1
    <3>2. i = k - 1 + j
      BY <3>1 DEF Injective
    <3> QED BY <1>1, <3>1, <3>2
  <2> QED BY <2>1 DEF ToSet
<1>12. Injective(p)
  BY <1>7 DEF Injective
<1>13. Injective(q)
  <2>1. ASSUME NEW i \in DOMAIN q, NEW j \in DOMAIN q, q[i] = q[j] PROVE i = j
    <3>1. k - 1 + i = k - 1 + j
      BY <1>8, <2>1 DEF Injective
    <3> QED BY <1>1, <1>8, <3>1
  <2> QED BY <2>1 DEF Injective
<1> QED BY <1>2, <1>3, <1>5, <1>6, <1>10, <1>11, <1>12, <1>13 DEF p, q

-----------------------------------------------------------------------------

(* The list that a merge has built, and what is left of one that it reads.     *)
Leads(h, s) ==
  \A i \in DOMAIN s : /\ h[s[i]].prev = At(s, i - 1)
                      /\ i # Len(s) => h[s[i]].next = At(s, i + 1)
Follows(h, s) ==
  \A i \in DOMAIN s : /\ h[s[i]].next = At(s, i + 1)
                      /\ i # 1 => h[s[i]].prev = At(s, i - 1)

Between(h, b, r, q) ==
  /\ h \in Heaps /\ b \in Seq(Nodes) /\ r \in Seq(Nodes) /\ q \in Seq(Nodes)
  /\ Injective(b) /\ Injective(r) /\ Injective(q)
  /\ ToSet(b) \cap ToSet(r) = {} /\ ToSet(b) \cap ToSet(q) = {} /\ ToSet(r) \cap ToSet(q) = {}
  /\ Leads(h, b) /\ Follows(h, r) /\ Follows(h, q)
  /\ Len(b) = 0 => \A x \in {At(r, 1), At(q, 1)} \ {NULL} : h[x].prev = NULL

(* h2 differs from h in the links of the items of S only.                      *)
Frame(h, h2, S) ==
  \A x \in Nodes : /\ h2[x].child = h[x].child /\ h2[x].string = h[x].string
                   /\ x \notin S => h2[x].next = h[x].next /\ h2[x].prev = h[x].prev

(* The first item of r goes to the end of b.                                   *)
Takes(h, b, r, h2) ==
  h2 = IF At(b, Len(b)) = NULL THEN h ELSE suffix_object(h, At(b, Len(b)), At(r, 1))

(* Then the state is Between again, with one item more in b.                  *)
LEMMA TakeFirst ==
  ASSUME NEW h, NEW b, NEW r, NEW q, Between(h, b, r, q), Len(r) # 0,
         NEW h2, Takes(h, b, r, h2)
  PROVE  /\ Between(h2, InsertAt(b, Len(b) + 1, At(r, 1)), RemoveAt(r, 1), q)
         /\ h2[At(r, 1)].next = At(RemoveAt(r, 1), 1)
         /\ Frame(h, h2, ToSet(b) \cup ToSet(r) \cup ToSet(q))
<1> DEFINE x == At(r, 1)
           e == At(b, Len(b))
           t == InsertAt(b, Len(b) + 1, x)
           v == RemoveAt(r, 1)
<1>1. /\ h \in Heaps /\ b \in Seq(Nodes) /\ r \in Seq(Nodes) /\ q \in Seq(Nodes)
      /\ Injective(b) /\ Injective(r) /\ Injective(q)
      /\ ToSet(b) \cap ToSet(r) = {} /\ ToSet(b) \cap ToSet(q) = {} /\ ToSet(r) \cap ToSet(q) = {}
  BY DEF Between
<1>2. Leads(h, b) /\ Follows(h, r) /\ Follows(h, q)
  BY DEF Between
<1>3. /\ Len(b) \in Nat /\ DOMAIN b = 1 .. Len(b) /\ Len(r) \in Nat /\ DOMAIN r = 1 .. Len(r)
      /\ 1 \in DOMAIN r /\ DOMAIN q = 1 .. Len(q) /\ Len(q) \in Nat
  BY <1>1, LenProperties
<1>4. x = r[1] /\ x \in ToSet(r) /\ x \in Nodes /\ x # NULL /\ x \notin ToSet(b)
      /\ x \notin ToSet(q)
  <2>1. x = r[1] /\ x \in ToSet(r) /\ x \in Nodes /\ x # NULL
    BY <1>1, <1>3, SeqFacts, NULLFacts
  <2> QED BY <1>1, <2>1
<1>5. e \in Pointers /\ (e # NULL <=> Len(b) # 0) /\ (e # NULL => e \in ToSet(b) /\ e = b[Len(b)])
  BY <1>1, <1>3, SeqFacts DEF At
<1>6. /\ h2 \in Heaps
      /\ \A y \in Nodes :
           /\ h2[y].next = IF y = e THEN x ELSE h[y].next
           /\ h2[y].prev = IF y = x THEN e ELSE h[y].prev
           /\ h2[y].child = h[y].child /\ h2[y].string = h[y].string
  <2>1. CASE e = NULL
    <3>1. h2 = h /\ h[x].prev = NULL
      BY <1>4, <1>5, <2>1 DEF Between, Takes
    <3> QED BY <1>1, <2>1, <3>1, NULLFacts
  <2>2. CASE e # NULL
    <3>1. h \in Heaps /\ e \in Pointers /\ x \in Pointers
      BY <1>1, <1>4, <1>5, NULLFacts
    <3>2. h2 = suffix_object(h, e, x)
      BY <2>2 DEF Takes
    <3> HIDE DEF e, x
    <3>3. /\ suffix_object(h, e, x) \in Heaps
          /\ \A y \in Nodes :
             /\ suffix_object(h, e, x)[y].next = IF y = e THEN x ELSE h[y].next
             /\ suffix_object(h, e, x)[y].prev = IF y = x THEN e ELSE h[y].prev
             /\ suffix_object(h, e, x)[y].child = h[y].child
             /\ suffix_object(h, e, x)[y].string = h[y].string
      BY <3>1, Suffixed
    <3> QED BY <3>2, <3>3
  <2> QED BY <2>1, <2>2
<1>7. /\ t \in Seq(Nodes) /\ Len(t) = Len(b) + 1 /\ DOMAIN t = 1 .. Len(b) + 1
      /\ ToSet(t) = ToSet(b) \cup {x} /\ Injective(t)
      /\ \A i \in 1 .. Len(b) : t[i] = b[i]
      /\ t[Len(b) + 1] = x
      /\ \A j \in Int : At(t, j) = IF j = Len(b) + 1 THEN x ELSE At(b, j)
  <2>1. Len(b) + 1 \in 1 .. Len(b) + 1
    BY <1>3
  <2> HIDE DEF x
  <2>2. /\ t \in Seq(Nodes) /\ Len(t) = Len(b) + 1
        /\ \A i \in 1 .. Len(b) + 1 :
              t[i] = IF i < Len(b) + 1 THEN b[i] ELSE IF i = Len(b) + 1 THEN x ELSE b[i - 1]
    <3>1. Inserts(b, Len(b) + 1, x, t)
      BY <1>1, <1>4, <2>1, InsertFacts
    <3> QED BY <3>1 DEF Inserts
  <2>3. /\ ToSet(t) = ToSet(b) \cup {x} /\ Injective(t)
        /\ \A j \in Int : At(t, j) = IF j < Len(b) + 1 THEN At(b, j)
                                     ELSE IF j = Len(b) + 1 THEN x ELSE At(b, j - 1)
    BY <1>1, <1>4, <2>1, InsertSet
  <2> HIDE DEF t
  <2>4. DOMAIN t = 1 .. Len(b) + 1
    BY <2>2, LenProperties
  <2>5. ASSUME NEW j \in Int PROVE At(t, j) = IF j = Len(b) + 1 THEN x ELSE At(b, j)
    <3>1. CASE j > Len(b) + 1
      <4>1. j \notin DOMAIN t /\ j \notin DOMAIN b /\ j # Len(b) + 1
        BY <1>3, <2>4, <3>1
      <4> QED BY <4>1 DEF At
    <3>2. CASE ~(j > Len(b) + 1)
      BY <1>3, <2>3, <3>2
    <3> QED BY <3>1, <3>2
  <2>6. \A i \in 1 .. Len(b) : t[i] = b[i]
    BY <1>3, <2>2
  <2>7. t[Len(b) + 1] = x
    BY <1>3, <2>1, <2>2
  <2> QED BY <2>2, <2>3, <2>4, <2>5, <2>6, <2>7
<1>8. /\ v \in Seq(Nodes) /\ DOMAIN v = 1 .. Len(r) - 1 /\ \A j \in DOMAIN v : v[j] = r[j + 1]
      /\ ToSet(v) = ToSet(r) \ {x} /\ Injective(v)
      /\ \A j \in Int : At(v, j) = IF j < 1 THEN At(r, j) ELSE At(r, j + 1)
  <2>1. /\ v \in Seq(Nodes) /\ DOMAIN v = 1 .. Len(r) - 1
        /\ \A j \in 1 .. Len(r) - 1 : v[j] = IF j < 1 THEN r[j] ELSE r[j + 1]
    BY <1>1, <1>3, RemoveFacts
  <2>2. /\ ToSet(v) = ToSet(r) \ {r[1]} /\ Injective(v)
        /\ \A j \in Int : At(v, j) = IF j < 1 THEN At(r, j) ELSE At(r, j + 1)
    BY <1>1, <1>3, RemoveSet
  <2> HIDE DEF v
  <2>3. \A j \in DOMAIN v : v[j] = r[j + 1]
    BY <1>3, <2>1
  <2> QED BY <1>4, <2>1, <2>2, <2>3
<1> HIDE DEF t, v, e, x
<1>9. Leads(h2, t)
  <2>1. ASSUME NEW i \in DOMAIN t
        PROVE  h2[t[i]].prev = At(t, i - 1) /\ (i # Len(t) => h2[t[i]].next = At(t, i + 1))
    <3>1. CASE i \in 1 .. Len(b)
      <4>1. t[i] = b[i] /\ b[i] \in Nodes /\ b[i] \in ToSet(b) /\ b[i] # x
        BY <1>1, <1>3, <1>4, <1>7, <3>1, SeqFacts
      <4>2. h[b[i]].prev = At(b, i - 1) /\ (i # Len(b) => h[b[i]].next = At(b, i + 1))
        BY <1>2, <1>3, <3>1 DEF Leads
      <4>3. At(t, i - 1) = At(b, i - 1)
        BY <1>3, <1>7, <3>1
      <4>4. CASE i = Len(b)
        <5>1. b[i] = e
          BY <1>3, <3>1, <4>4 DEF e, At
        <5>2. At(t, i + 1) = x
          BY <1>3, <1>7, <4>4
        <5> QED BY <1>6, <4>1, <4>2, <4>3, <5>1, <5>2
      <4>5. CASE i # Len(b)
        <5>1. b[i] # e
          <6>1. Len(b) \in DOMAIN b /\ i \in DOMAIN b /\ e = b[Len(b)]
            BY <1>3, <3>1 DEF e, At
          <6> QED BY <1>1, <4>5, <6>1 DEF Injective
        <5>2. At(t, i + 1) = At(b, i + 1)
          BY <1>3, <1>7, <3>1, <4>5
        <5> QED BY <1>6, <4>1, <4>2, <4>3, <4>5, <5>1, <5>2
      <4> QED BY <4>4, <4>5
    <3>2. CASE i = Len(b) + 1
      <4>1. t[i] = x /\ i = Len(t)
        BY <1>7, <3>2
      <4>2. (Len(b) + 1) - 1 = Len(b) /\ Len(b) # Len(b) + 1 /\ Len(b) \in Int
        <5>1. \A k \in Nat : (k + 1) - 1 = k /\ k # k + 1 /\ k \in Int
          OBVIOUS
        <5>2. Len(b) \in Nat
          BY <1>3
        <5> HIDE <1>3
        <5> QED BY <5>1, <5>2
      <4>3. At(t, (Len(b) + 1) - 1) = e
        BY <1>7, <4>2 DEF e
      <4> QED BY <1>4, <1>6, <3>2, <4>1, <4>3
    <3> QED BY <1>3, <1>7, <3>1, <3>2
  <2> QED BY <2>1 DEF Leads
<1>10. Follows(h2, v)
  <2>1. ASSUME NEW i \in DOMAIN v
        PROVE  h2[v[i]].next = At(v, i + 1) /\ (i # 1 => h2[v[i]].prev = At(v, i - 1))
    <3>0. v[i] = r[i + 1] /\ v[i] \in ToSet(v)
      BY <1>8 DEF ToSet
    <3>a. i \in 1 .. Len(r) - 1
      BY <1>8
    <3>1. i + 1 \in DOMAIN r /\ v[i] = r[i + 1] /\ v[i] \in ToSet(v) /\ i \in Int /\ i >= 1
      BY <1>3, <3>0, <3>a
    <3>2. v[i] # x /\ v[i] # e /\ v[i] \in Nodes
      BY <1>1, <1>4, <1>5, <1>8, <3>1, SeqFacts, NULLFacts
    <3>3. h[r[i + 1]].next = At(r, (i + 1) + 1) /\ h[r[i + 1]].prev = At(r, (i + 1) - 1)
      <4>1. i + 1 # 1
        BY <3>1
      <4> QED BY <1>2, <3>1, <4>1 DEF Follows
    <3>4. At(v, i + 1) = At(r, (i + 1) + 1)
      BY <1>8, <3>1
    <3>5. i # 1 => At(v, i - 1) = At(r, (i + 1) - 1)
      <4>1. SUFFICES ASSUME i # 1 PROVE At(v, i - 1) = At(r, (i + 1) - 1)
        OBVIOUS
      <4>2. i - 1 \in Int /\ ~(i - 1 < 1) /\ (i - 1) + 1 = (i + 1) - 1
        BY <3>1, <4>1
      <4> QED BY <1>8, <4>2
    <3> QED BY <1>6, <3>1, <3>2, <3>3, <3>4, <3>5
  <2> QED BY <2>1 DEF Follows
<1>11. Follows(h2, q)
  <2>1. ASSUME NEW i \in DOMAIN q PROVE h2[q[i]].next = h[q[i]].next /\ h2[q[i]].prev = h[q[i]].prev
    <3>1. q[i] \in ToSet(q) /\ q[i] \in Nodes
      BY <1>1, SeqFacts
    <3>2. q[i] # x /\ q[i] # e
      BY <1>1, <1>4, <1>5, <3>1, NULLFacts
    <3> QED BY <1>6, <3>1, <3>2
  <2> QED BY <1>2, <2>1 DEF Follows
<1>12. Between(h2, t, v, q)
  <2>1. Len(t) # 0
    BY <1>3, <1>7
  <2>2. ToSet(t) \cap ToSet(v) = {} /\ ToSet(t) \cap ToSet(q) = {} /\ ToSet(v) \cap ToSet(q) = {}
    BY <1>1, <1>4, <1>7, <1>8
  <2> QED BY <1>1, <1>6, <1>7, <1>8, <1>9, <1>10, <1>11, <2>1, <2>2 DEF Between
<1>13. h2[x].next = At(v, 1)
  <2>1. h[x].next = At(r, 1 + 1)
    BY <1>2, <1>3, <1>4 DEF Follows
  <2>2. x # e
    BY <1>4, <1>5, NULLFacts
  <2>3. At(v, 1) = At(r, 1 + 1)
    BY <1>8
  <2> QED BY <1>4, <1>6, <2>1, <2>2, <2>3
<1>14. Frame(h, h2, ToSet(b) \cup ToSet(r) \cup ToSet(q))
  <2>1. ASSUME NEW y \in Nodes, y \notin ToSet(b) \cup ToSet(r) \cup ToSet(q)
        PROVE  h2[y].next = h[y].next /\ h2[y].prev = h[y].prev
    BY <1>4, <1>5, <1>6, <2>1, NULLFacts
  <2> QED BY <1>6, <2>1 DEF Frame
<1> QED BY <1>12, <1>13, <1>14 DEF t, v, x

(* When r is read, the rest of q is suffixed to b and the two are one list.   *)
LEMMA JoinRest ==
  ASSUME NEW h, NEW b, NEW r, NEW q, Between(h, b, r, q),
         NEW h2, h2 = suffix_object(h, At(b, Len(b)), At(r, 1))
  PROVE  /\ h2 \in Heaps /\ Links(h2, b \o r) /\ Frame(h, h2, ToSet(b) \cup ToSet(r))
<1> DEFINE x == At(r, 1)
           e == At(b, Len(b))
           u == b \o r
<1>1. /\ h \in Heaps /\ b \in Seq(Nodes) /\ r \in Seq(Nodes)
      /\ Injective(b) /\ Injective(r) /\ ToSet(b) \cap ToSet(r) = {}
  BY DEF Between
<1>2. Leads(h, b) /\ Follows(h, r)
  BY DEF Between
<1>3. /\ Len(b) \in Nat /\ DOMAIN b = 1 .. Len(b) /\ Len(r) \in Nat /\ DOMAIN r = 1 .. Len(r)
  BY <1>1, LenProperties
<1>4. x \in Pointers /\ (x # NULL => x \in ToSet(r) /\ x = r[1] /\ 1 \in DOMAIN r)
  BY <1>1, <1>3, SeqFacts DEF At
<1>5. e \in Pointers /\ (e # NULL => e \in ToSet(b) /\ e = b[Len(b)])
  BY <1>1, <1>3, SeqFacts DEF At
<1>6. /\ h2 \in Heaps
      /\ \A y \in Nodes :
           /\ h2[y].next = IF y = e THEN x ELSE h[y].next
           /\ h2[y].prev = IF y = x THEN e ELSE h[y].prev
           /\ h2[y].child = h[y].child /\ h2[y].string = h[y].string
  <2>1. h2 = suffix_object(h, e, x)
    OBVIOUS
  <2> HIDE DEF e, x
  <2> QED BY <1>1, <1>4, <1>5, <2>1, Suffixed
<1>7. /\ u \in Seq(Nodes) /\ Len(u) = Len(b) + Len(r)
      /\ \A j \in Int : At(u, j) = IF j <= Len(b) THEN At(b, j) ELSE At(r, j - Len(b))
  BY <1>1, ConcatFacts
<1> HIDE DEF u, e, x
<1>8. DOMAIN u = 1 .. Len(b) + Len(r) /\ \A i \in DOMAIN u : u[i] = At(u, i)
  BY <1>7, LenProperties DEF At
<1>9. Links(h2, u)
  <2>1. ASSUME NEW i \in DOMAIN u PROVE h2[u[i]].prev = At(u, i - 1) /\ h2[u[i]].next = At(u, i + 1)
    <3>1. CASE i \in 1 .. Len(b)
      <4>1. u[i] = b[i] /\ b[i] \in Nodes /\ b[i] \in ToSet(b) /\ b[i] # x /\ i \in Int
        <5>1. u[i] = b[i] /\ b[i] \in Nodes /\ b[i] \in ToSet(b) /\ i \in Int
          BY <1>1, <1>3, <1>7, <1>8, <3>1, SeqFacts
        <5> QED BY <1>1, <1>4, <5>1, NULLFacts
      <4>2. h[b[i]].prev = At(b, i - 1) /\ (i # Len(b) => h[b[i]].next = At(b, i + 1))
        BY <1>2, <1>3, <3>1 DEF Leads
      <4>3. At(u, i - 1) = At(b, i - 1)
        BY <1>3, <1>7, <3>1
      <4>4. CASE i = Len(b)
        <5>1. b[i] = e
          BY <1>3, <3>1, <4>4 DEF e, At
        <5>2. At(u, i + 1) = x
          <6>1. i + 1 \in Int /\ ~(i + 1 <= Len(b)) /\ (i + 1) - Len(b) = 1
            BY <1>3, <4>4
          <6> QED BY <1>7, <6>1 DEF x
        <5> QED BY <1>6, <4>1, <4>2, <4>3, <5>1, <5>2
      <4>5. CASE i # Len(b)
        <5>1. b[i] # e
          <6>1. Len(b) \in DOMAIN b /\ i \in DOMAIN b /\ e = b[Len(b)]
            BY <1>3, <3>1 DEF e, At
          <6> QED BY <1>1, <4>5, <6>1 DEF Injective
        <5>2. At(u, i + 1) = At(b, i + 1)
          BY <1>3, <1>7, <3>1, <4>5
        <5> QED BY <1>6, <4>1, <4>2, <4>3, <4>5, <5>1, <5>2
      <4> QED BY <4>4, <4>5
    <3>2. CASE i \in Len(b) + 1 .. Len(b) + Len(r)
      <4> DEFINE j == i - Len(b)
      <4>1. j \in DOMAIN r /\ i \in Int /\ ~(i <= Len(b)) /\ j \in Int /\ j >= 1
        BY <1>3, <3>2
      <4>2. u[i] = r[j] /\ r[j] \in Nodes /\ r[j] \in ToSet(r)
        BY <1>1, <1>7, <1>8, <4>1, SeqFacts
      <4>3. r[j] # e
        BY <1>1, <1>5, <4>2, NULLFacts
      <4>4. h[r[j]].next = At(r, j + 1) /\ (j # 1 => h[r[j]].prev = At(r, j - 1))
        BY <1>2, <4>1 DEF Follows
      <4>5. At(u, i + 1) = At(r, j + 1)
        <5>1. i + 1 \in Int /\ ~(i + 1 <= Len(b)) /\ (i + 1) - Len(b) = j + 1
          BY <1>3, <4>1
        <5> QED BY <1>7, <5>1
      <4>6. CASE j = 1
        <5>1. r[j] = x
          BY <4>1, <4>6 DEF x, At
        <5>2. At(u, i - 1) = e
          <6>1. i - 1 \in Int /\ i - 1 = Len(b)
            BY <1>3, <4>1, <4>6
          <6> QED BY <1>3, <1>7, <6>1 DEF e
        <5> QED BY <1>6, <4>2, <4>3, <4>4, <4>5, <5>1, <5>2
      <4>7. CASE j # 1
        <5>1. r[j] # x
          BY <1>1, <1>4, <4>1, <4>2, <4>7, NULLFacts DEF Injective
        <5>2. At(u, i - 1) = At(r, j - 1)
          <6>1. i - 1 \in Int /\ ~(i - 1 <= Len(b)) /\ (i - 1) - Len(b) = j - 1
            BY <1>3, <4>1, <4>7
          <6> QED BY <1>7, <6>1
        <5> HIDE DEF j
        <5> QED BY <1>6, <4>2, <4>3, <4>4, <4>5, <4>7, <5>1, <5>2
      <4> QED BY <4>6, <4>7
    <3> QED BY <1>3, <1>8, <3>1, <3>2
  <2> QED BY <2>1 DEF Links
<1>10. Frame(h, h2, ToSet(b) \cup ToSet(r))
  <2>1. ASSUME NEW y \in Nodes, y \notin ToSet(b) \cup ToSet(r)
        PROVE  h2[y].next = h[y].next /\ h2[y].prev = h[y].prev
    BY <1>4, <1>5, <1>6, <2>1, NULLFacts
  <2> QED BY <1>6, <2>1 DEF Frame
<1> QED BY <1>6, <1>9, <1>10 DEF u

(* The weight of an item is the place of its key in the order.                 *)
Weighs(h, S, order, w) ==
  w \in [Nodes -> Nat] /\ \A x, y \in S : Less(h, x, y, order) <=> w[x] < w[y]
Ordered(w, s) == \A i, j \in DOMAIN s : i < j => w[s[i]] <= w[s[j]]
Precedes(w, S, T) == \A x \in S, y \in T : w[x] <= w[y]

(* The state of the loop: b is built, r and q are left.                       *)
Merges(m, order, w, b, r, q) ==
  /\ m \in Merging /\ Between(m.heap, b, r, q)
  /\ m.first = At(r, 1) /\ m.second = At(q, 1) /\ m.tail = At(b, Len(b))
  /\ Weighs(m.heap, ToSet(r) \cup ToSet(q), order, w)
  /\ Ordered(w, b) /\ Ordered(w, r) /\ Ordered(w, q)
  /\ Precedes(w, ToSet(b), ToSet(r) \cup ToSet(q))

(* What the loop returns: one list u of all the items, in order.              *)
Merged(h, w, b, r, q, h2, u) ==
  /\ h2 \in Heaps /\ u \in Seq(Nodes) /\ Injective(u) /\ Links(h2, u) /\ Ordered(w, u)
  /\ Len(u) = Len(b) + Len(r) + Len(q)
  /\ ToSet(u) = ToSet(b) \cup ToSet(r) \cup ToSet(q) /\ Frame(h, h2, ToSet(u))
  /\ Len(b) # 0 => At(u, 1) = At(b, 1)
  /\ Len(b) = 0 /\ Len(r) # 0 /\ Len(q) # 0
       => At(u, 1) = IF w[At(r, 1)] < w[At(q, 1)] THEN At(r, 1) ELSE At(q, 1)

(* What comes after the loop.                                                 *)
Tail_(m) == suffix_object(m.heap, m.tail, IF m.first = NULL THEN m.second ELSE m.first)

(* The loop as a function of its rounds.                                      *)
Loops(loop, order) ==
  /\ loop \in [Nat -> [Merging -> Heaps]]
  /\ \A n \in Nat, m \in Merging :
       loop[n][m] = IF NULL \in {m.first, m.second} \/ n = 0 THEN Tail_(m)
                    ELSE loop[n - 1][take_smaller(m, order)]

(* Changes of links of the items of S, one after the other.                   *)
LEMMA FrameFacts ==
  ASSUME NEW h, NEW h1, NEW h2, NEW S, NEW T, NEW U, Frame(h, h1, S), Frame(h1, h2, T),
         S \subseteq U, T \subseteq U
  PROVE  Frame(h, h2, U)
BY DEF Frame

(* The loop changes no key.                                                   *)
LEMMA WeighsLater ==
  ASSUME NEW h, NEW h2, NEW S, NEW T \in SUBSET Nodes, NEW U, NEW order, NEW w,
         Weighs(h, S, order, w), Frame(h, h2, U), T \subseteq S
  PROVE  Weighs(h2, T, order, w)
<1>1. \A x \in Nodes : h2[x].string = h[x].string
  BY DEF Frame
<1>2. \A x, y \in T : Less(h2, x, y, order) <=> Less(h, x, y, order)
  BY <1>1 DEF Less
<1> QED BY <1>2 DEF Weighs

(* One item more at the end, no lighter than the others.                      *)
LEMMA OrderedInsert ==
  ASSUME NEW w \in [Nodes -> Nat], NEW b \in Seq(Nodes), NEW x \in Nodes, Ordered(w, b),
         Precedes(w, ToSet(b), {x})
  PROVE  Ordered(w, InsertAt(b, Len(b) + 1, x))
<1> DEFINE t == InsertAt(b, Len(b) + 1, x)
<1>1. Len(b) \in Nat /\ DOMAIN b = 1 .. Len(b) /\ Len(b) + 1 \in 1 .. Len(b) + 1
  BY LenProperties
<1>2. /\ t \in Seq(Nodes) /\ Len(t) = Len(b) + 1
      /\ \A i \in 1 .. Len(b) + 1 :
            t[i] = IF i < Len(b) + 1 THEN b[i] ELSE IF i = Len(b) + 1 THEN x ELSE b[i - 1]
  <2>1. Inserts(b, Len(b) + 1, x, t)
    BY <1>1, InsertFacts
  <2> QED BY <2>1 DEF Inserts
<1> HIDE DEF t
<1>3. DOMAIN t = 1 .. Len(b) + 1
  BY <1>2, LenProperties
<1>4. ASSUME NEW i \in DOMAIN t, NEW j \in DOMAIN t, i < j PROVE w[t[i]] <= w[t[j]]
  <2>1. i \in DOMAIN b /\ t[i] = b[i] /\ b[i] \in ToSet(b)
    BY <1>1, <1>2, <1>3, <1>4 DEF ToSet
  <2>2. CASE j = Len(b) + 1
    <3>1. t[j] = x
      <4>1. j \in 1 .. Len(b) + 1 /\ ~ (j < Len(b) + 1)
        BY <1>1, <2>2
      <4> QED BY <1>2, <2>2, <4>1
    <3> QED BY <2>1, <3>1 DEF Precedes
  <2>3. CASE j # Len(b) + 1
    <3>1. j \in DOMAIN b /\ t[j] = b[j]
      BY <1>1, <1>2, <1>3, <2>3
    <3> QED BY <1>4, <2>1, <3>1 DEF Ordered
  <2> QED BY <2>2, <2>3
<1> QED BY <1>4 DEF Ordered, t

(* What is left of a sequence in order is in order.                           *)
LEMMA OrderedRemove ==
  ASSUME NEW w, NEW r \in Seq(Nodes), Len(r) # 0, Ordered(w, r)
  PROVE  Ordered(w, RemoveAt(r, 1))
<1> DEFINE v == RemoveAt(r, 1)
<1>1. Len(r) \in Nat /\ DOMAIN r = 1 .. Len(r) /\ 1 \in DOMAIN r
  BY LenProperties
<1>2. /\ DOMAIN v = 1 .. Len(r) - 1
      /\ \A j \in 1 .. Len(r) - 1 : v[j] = IF j < 1 THEN r[j] ELSE r[j + 1]
  BY <1>1, RemoveFacts
<1> HIDE DEF v
<1>3. ASSUME NEW i \in DOMAIN v, NEW j \in DOMAIN v, i < j PROVE w[v[i]] <= w[v[j]]
  <2>1. i + 1 \in DOMAIN r /\ j + 1 \in DOMAIN r /\ i + 1 < j + 1 /\ v[i] = r[i + 1]
        /\ v[j] = r[j + 1]
    BY <1>1, <1>2, <1>3
  <2> QED BY <2>1 DEF Ordered
<1> QED BY <1>3 DEF Ordered, v

(* The first of a sequence in order is the lightest.                          *)
LEMMA FirstIsLeast ==
  ASSUME NEW w \in [Nodes -> Nat], NEW r \in Seq(Nodes), Ordered(w, r)
  PROVE  \A y \in ToSet(r) : At(r, 1) \in Nodes /\ w[At(r, 1)] <= w[y]
<1>1. ASSUME NEW y \in ToSet(r) PROVE At(r, 1) \in Nodes /\ w[At(r, 1)] <= w[y]
  <2>1. PICK i \in DOMAIN r : r[i] = y
    BY DEF ToSet
  <2>2. Len(r) \in Nat /\ DOMAIN r = 1 .. Len(r) /\ 1 \in DOMAIN r /\ i \in 1 .. Len(r)
    BY <2>1, LenProperties
  <2>3. At(r, 1) = r[1] /\ r[1] \in Nodes /\ y \in Nodes
    BY <2>1, <2>2, SeqFacts
  <2>4. CASE i = 1
    BY <2>1, <2>3, <2>4
  <2>5. CASE i # 1
    BY <2>1, <2>2, <2>3, <2>5 DEF Ordered
  <2> QED BY <2>4, <2>5
<1> QED BY <1>1

(* What one round takes, in either role of the two lists.                      *)
CanTake(h, order, w, b, r, q, h2) ==
  /\ Between(h, b, r, q) /\ Len(r) # 0 /\ Weighs(h, ToSet(r) \cup ToSet(q), order, w)
  /\ Ordered(w, b) /\ Ordered(w, r) /\ Ordered(w, q)
  /\ Precedes(w, ToSet(b), ToSet(r) \cup ToSet(q))
  /\ \A y \in ToSet(q) : w[At(r, 1)] <= w[y]
  /\ Takes(h, b, r, h2)

HasTaken(h, order, w, b, r, q, h2, t, v) ==
  /\ Between(h2, t, v, q) /\ h2[At(r, 1)].next = At(v, 1)
  /\ Frame(h, h2, ToSet(b) \cup ToSet(r) \cup ToSet(q))
  /\ Weighs(h2, ToSet(v) \cup ToSet(q), order, w)
  /\ Ordered(w, t) /\ Ordered(w, v) /\ Precedes(w, ToSet(t), ToSet(v) \cup ToSet(q))
  /\ Len(t) = Len(b) + 1 /\ Len(v) = Len(r) - 1 /\ At(t, Len(t)) = At(r, 1)
  /\ At(t, 1) = IF Len(b) = 0 THEN At(r, 1) ELSE At(b, 1)
  /\ ToSet(t) \cup ToSet(v) = ToSet(b) \cup ToSet(r)

(* A round keeps what is built and what is left in order.                     *)
LEMMA Taken ==
  ASSUME NEW h, NEW order, NEW w, NEW b, NEW r, NEW q, NEW h2, CanTake(h, order, w, b, r, q, h2)
  PROVE  HasTaken(h, order, w, b, r, q, h2, InsertAt(b, Len(b) + 1, At(r, 1)), RemoveAt(r, 1))
<1> DEFINE x == At(r, 1)
           t == InsertAt(b, Len(b) + 1, x)
           v == RemoveAt(r, 1)
<1>1. /\ b \in Seq(Nodes) /\ r \in Seq(Nodes) /\ q \in Seq(Nodes)
      /\ Injective(b) /\ Injective(r) /\ w \in [Nodes -> Nat]
  BY DEF CanTake, Between, Weighs
<1>0. /\ Between(h, b, r, q) /\ Len(r) # 0 /\ Weighs(h, ToSet(r) \cup ToSet(q), order, w)
      /\ Ordered(w, b) /\ Ordered(w, r) /\ Ordered(w, q)
      /\ Precedes(w, ToSet(b), ToSet(r) \cup ToSet(q))
      /\ \A y \in ToSet(q) : w[At(r, 1)] <= w[y]
      /\ Takes(h, b, r, h2)
  BY DEF CanTake
<1>2. /\ Len(b) \in Nat /\ DOMAIN b = 1 .. Len(b) /\ Len(r) \in Nat /\ DOMAIN r = 1 .. Len(r)
      /\ 1 \in DOMAIN r
  BY <1>0, <1>1, LenProperties
<1>3. x = r[1] /\ x \in ToSet(r) /\ x \in Nodes /\ x \notin ToSet(b)
  <2>1. x = r[1] /\ x \in ToSet(r) /\ x \in Nodes
    BY <1>1, <1>2, SeqFacts, NULLFacts
  <2> QED BY <1>0, <2>1 DEF Between
<1>4. /\ Between(h2, t, v, q) /\ h2[x].next = At(v, 1)
      /\ Frame(h, h2, ToSet(b) \cup ToSet(r) \cup ToSet(q))
  BY <1>0, TakeFirst
<1>5. Len(b) + 1 \in 1 .. Len(b) + 1
  BY <1>2
<1>6. /\ Len(t) = Len(b) + 1 /\ ToSet(t) = ToSet(b) \cup {x}
      /\ \A j \in Int : At(t, j) = IF j < Len(b) + 1 THEN At(b, j)
                                   ELSE IF j = Len(b) + 1 THEN x ELSE At(b, j - 1)
  <2> HIDE DEF x
  <2>1. Len(t) = Len(b) + 1
    BY <1>1, <1>3, <1>5, InsertFacts DEF Inserts
  <2>2. ToSet(t) = ToSet(b) \cup {x}
    BY <1>1, <1>3, <1>5, InsertSet
  <2>3. \A j \in Int : At(t, j) = IF j < Len(b) + 1 THEN At(b, j)
                                  ELSE IF j = Len(b) + 1 THEN x ELSE At(b, j - 1)
    <3>1. PICK k : k = Len(b) + 1
      OBVIOUS
    <3>2. k \in 1 .. Len(b) + 1
      BY <1>5, <3>1
    <3>3. \A j \in Int : At(InsertAt(b, k, x), j)
                           = IF j < k THEN At(b, j) ELSE IF j = k THEN x ELSE At(b, j - 1)
      BY <1>1, <1>3, <3>2, InsertSet
    <3> QED BY <3>1, <3>3
  <2> QED BY <2>1, <2>2, <2>3
<1>7. ToSet(v) = ToSet(r) \ {x} /\ Len(v) = Len(r) - 1
  <2>1. Len(v) = Len(r) - 1
    BY <1>1, <1>2, RemoveFacts
  <2>2. ToSet(v) = ToSet(r) \ {r[1]}
    BY <1>1, <1>2, RemoveSet
  <2> QED BY <1>3, <2>1, <2>2
<1>8. Ordered(w, v)
  BY <1>0, <1>1, OrderedRemove
<1>9. Ordered(w, t)
  <2>1. Precedes(w, ToSet(b), {x})
    BY <1>0, <1>3 DEF Precedes
  <2> HIDE DEF x
  <2> QED BY <1>0, <1>1, <1>3, <2>1, OrderedInsert
<1> HIDE DEF t, v
<1>10. Precedes(w, ToSet(t), ToSet(v) \cup ToSet(q))
  <2>1. \A y \in ToSet(r) : w[x] <= w[y]
    BY <1>0, <1>1, FirstIsLeast
  <2> QED BY <1>0, <1>6, <1>7, <2>1 DEF Precedes
<1>11. Weighs(h2, ToSet(v) \cup ToSet(q), order, w)
  <2>1. ToSet(v) \cup ToSet(q) \subseteq ToSet(r) \cup ToSet(q)
        /\ ToSet(v) \cup ToSet(q) \in SUBSET Nodes
    BY <1>1, <1>7, SeqFacts
  <2> DEFINE S == ToSet(r) \cup ToSet(q)
             T == ToSet(v) \cup ToSet(q)
             U == ToSet(b) \cup ToSet(r) \cup ToSet(q)
  <2>2. Weighs(h, S, order, w) /\ Frame(h, h2, U) /\ T \subseteq S /\ T \in SUBSET Nodes
    BY <1>0, <1>4, <2>1
  <2> HIDE DEF S, T, U
  <2>3. Weighs(h2, T, order, w)
    BY <2>2, WeighsLater
  <2> QED BY <2>3 DEF T
<1>12. At(t, Len(t)) = x /\ At(t, 1) = IF Len(b) = 0 THEN x ELSE At(b, 1)
  <2>1. Len(b) + 1 \in Int /\ ~(Len(b) + 1 < Len(b) + 1)
    BY <1>2
  <2>2. At(t, Len(t)) = x
    BY <1>6, <2>1
  <2>3. 1 \in Int /\ (1 < Len(b) + 1 <=> Len(b) # 0) /\ (Len(b) = 0 => Len(b) + 1 = 1)
    BY <1>2
  <2>4. At(t, 1) = IF Len(b) = 0 THEN x ELSE At(b, 1)
    BY <1>6, <2>3
  <2> QED BY <2>2, <2>4
<1>13. ToSet(t) \cup ToSet(v) = ToSet(b) \cup ToSet(r)
  BY <1>3, <1>6, <1>7
<1> QED BY <1>4, <1>6, <1>7, <1>8, <1>9, <1>10, <1>11, <1>12, <1>13 DEF t, v, HasTaken

(* Which of the two lists is first does not matter.                           *)
LEMMA BetweenSwap ==
  ASSUME NEW h, NEW b, NEW r, NEW q, Between(h, b, r, q)
  PROVE  Between(h, b, q, r)
BY DEF Between

(* Two sequences in order of which one precedes the other, joined.            *)
LEMMA OrderedConcat ==
  ASSUME NEW w, NEW b \in Seq(Nodes), NEW r \in Seq(Nodes), Ordered(w, b), Ordered(w, r),
         Precedes(w, ToSet(b), ToSet(r))
  PROVE  Ordered(w, b \o r)
<1> DEFINE u == b \o r
<1>1. /\ u \in Seq(Nodes) /\ Len(u) = Len(b) + Len(r)
      /\ \A i \in 1 .. Len(b) + Len(r) : u[i] = IF i <= Len(b) THEN b[i] ELSE r[i - Len(b)]
  BY ConcatProperties
<1>2. /\ Len(b) \in Nat /\ DOMAIN b = 1 .. Len(b) /\ Len(r) \in Nat /\ DOMAIN r = 1 .. Len(r)
      /\ DOMAIN u = 1 .. Len(b) + Len(r)
  BY <1>1, LenProperties
<1> HIDE DEF u
<1>3. ASSUME NEW i \in DOMAIN u, NEW j \in DOMAIN u, i < j PROVE w[u[i]] <= w[u[j]]
  <2>1. i \in 1 .. Len(b) + Len(r) /\ j \in 1 .. Len(b) + Len(r) /\ i < j
    BY <1>2, <1>3
  <2>2. CASE j <= Len(b)
    <3>1. i \in DOMAIN b /\ j \in DOMAIN b /\ u[i] = b[i] /\ u[j] = b[j]
      BY <1>1, <1>2, <2>1, <2>2
    <3> QED BY <2>1, <3>1 DEF Ordered
  <2>3. CASE ~(i <= Len(b))
    <3>1. i - Len(b) \in 1 .. Len(r) /\ j - Len(b) \in 1 .. Len(r) /\ i - Len(b) < j - Len(b)
      BY <1>2, <2>1, <2>3
    <3>2. u[i] = r[i - Len(b)] /\ u[j] = r[j - Len(b)]
      BY <1>1, <1>2, <2>1, <2>3
    <3> QED BY <1>2, <3>1, <3>2 DEF Ordered
  <2>4. CASE i <= Len(b) /\ ~(j <= Len(b))
    <3>1. i \in DOMAIN b /\ j - Len(b) \in DOMAIN r /\ u[i] = b[i] /\ u[j] = r[j - Len(b)]
      BY <1>1, <1>2, <2>1, <2>4
    <3>2. b[i] \in ToSet(b) /\ r[j - Len(b)] \in ToSet(r)
      BY <3>1 DEF ToSet
    <3> QED BY <3>1, <3>2 DEF Precedes
  <2> QED BY <1>2, <2>1, <2>2, <2>3, <2>4
<1> QED BY <1>3 DEF Ordered, u

(* The end of the loop, when one list is read.                                *)
LEMMA MergeEnds ==
  ASSUME NEW h, NEW w, NEW b, NEW r, NEW q, Between(h, b, r, q), Len(q) = 0,
         Ordered(w, b), Ordered(w, r), Precedes(w, ToSet(b), ToSet(r) \cup ToSet(q)),
         NEW h2, h2 = suffix_object(h, At(b, Len(b)), At(r, 1))
  PROVE  Merged(h, w, b, r, q, h2, b \o r) /\ Merged(h, w, b, q, r, h2, b \o r)
<1> DEFINE u == b \o r
<1>1. /\ b \in Seq(Nodes) /\ r \in Seq(Nodes) /\ q \in Seq(Nodes)
      /\ Injective(b) /\ Injective(r) /\ ToSet(b) \cap ToSet(r) = {}
  BY DEF Between
<1>2. Len(b) \in Nat /\ Len(r) \in Nat /\ ToSet(q) = {}
  <2>1. q = <<>>
    BY <1>1, EmptySeq
  <2> QED BY <1>1, <2>1, LenProperties, Empty DEF EmptyFacts
<1>3. h2 \in Heaps /\ Links(h2, u) /\ Frame(h, h2, ToSet(b) \cup ToSet(r))
  BY JoinRest
<1>4. /\ u \in Seq(Nodes) /\ Len(u) = Len(b) + Len(r)
      /\ ToSet(u) = ToSet(b) \cup ToSet(r)
      /\ \A j \in Int : At(u, j) = IF j <= Len(b) THEN At(b, j) ELSE At(r, j - Len(b))
      /\ Injective(u)
  BY <1>1, ConcatFacts
<1>5. Ordered(w, u)
  <2>1. Precedes(w, ToSet(b), ToSet(r))
    BY DEF Precedes
  <2> QED BY <1>1, <2>1, OrderedConcat
<1> HIDE DEF u
<1>6. Len(b) # 0 => At(u, 1) = At(b, 1)
  <2>1. Len(b) # 0 => 1 <= Len(b)
    BY <1>2
  <2> QED BY <1>4, <2>1
<1>7. Len(u) = Len(b) + Len(r) + Len(q) /\ Len(u) = Len(b) + Len(q) + Len(r)
  BY <1>2, <1>4
<1> QED BY <1>2, <1>3, <1>4, <1>5, <1>6, <1>7 DEF Merged, u

(* It returns one list in order.                                              *)
LEMMA MergeTail ==
  ASSUME NEW m, NEW order, NEW w, NEW b, NEW r, NEW q, Merges(m, order, w, b, r, q),
         NULL \in {m.first, m.second}
  PROVE  \E u : Merged(m.heap, w, b, r, q, Tail_(m), u)
<1>1. /\ Between(m.heap, b, r, q)
      /\ m.first = At(r, 1) /\ m.second = At(q, 1) /\ m.tail = At(b, Len(b))
      /\ Ordered(w, b) /\ Ordered(w, r) /\ Ordered(w, q)
      /\ Precedes(w, ToSet(b), ToSet(r) \cup ToSet(q))
  BY DEF Merges
<1>2. r \in Seq(Nodes) /\ q \in Seq(Nodes)
  BY <1>1 DEF Between
<1>3. (At(r, 1) = NULL <=> Len(r) = 0) /\ (At(q, 1) = NULL <=> Len(q) = 0)
  <2>1. ASSUME NEW s \in Seq(Nodes) PROVE At(s, 1) = NULL <=> Len(s) = 0
    <3>1. Len(s) \in Nat /\ DOMAIN s = 1 .. Len(s) /\ (At(s, 1) # NULL <=> 1 \in DOMAIN s)
      BY SeqFacts
    <3> QED BY <3>1
  <2> QED BY <1>2, <2>1
<1>4. CASE m.first = NULL
  <2>1. Tail_(m) = suffix_object(m.heap, At(b, Len(b)), At(q, 1))
    BY <1>1, <1>4 DEF Tail_
  <2>2. Between(m.heap, b, q, r) /\ Len(r) = 0
    BY <1>1, <1>3, <1>4, BetweenSwap
  <2>3. Precedes(w, ToSet(b), ToSet(q) \cup ToSet(r))
    BY <1>1 DEF Precedes
  <2>4. Merged(m.heap, w, b, r, q, Tail_(m), b \o q)
    BY <1>1, <2>1, <2>2, <2>3, MergeEnds
  <2> QED BY <2>4
<1>5. CASE m.first # NULL
  <2>1. Tail_(m) = suffix_object(m.heap, At(b, Len(b)), At(r, 1))
    BY <1>1, <1>5 DEF Tail_
  <2>2. Len(q) = 0
    BY <1>1, <1>3, <1>5
  <2>3. Merged(m.heap, w, b, r, q, Tail_(m), b \o r)
    BY <1>1, <2>1, <2>2, MergeEnds
  <2> QED BY <2>3
<1> QED BY <1>4, <1>5

(* One round of the loop.                                                      *)
LEMMA MergeRound ==
  ASSUME NEW m, NEW order, NEW w, NEW b, NEW r, NEW q, Merges(m, order, w, b, r, q),
         m.first # NULL, m.second # NULL
  PROVE  \E b2, r2, q2 : /\ Merges(take_smaller(m, order), order, w, b2, r2, q2)
                         /\ r2 \in Seq(Nodes) /\ q2 \in Seq(Nodes) /\ b2 \in Seq(Nodes)
                         /\ Len(r2) + Len(q2) = Len(r) + Len(q) - 1
                         /\ \A h2, u : Merged(take_smaller(m, order).heap, w, b2, r2, q2, h2, u)
                              => Merged(m.heap, w, b, r, q, h2, u)
<1> DEFINE m2 == take_smaller(m, order)
           h == m.heap
           h1 == m2.heap
           x == IF Less(h, m.first, m.second, order) THEN m.first ELSE m.second
           g == IF m.tail = NULL THEN h ELSE suffix_object(h, m.tail, x)
<1>1. /\ m \in Merging /\ Between(h, b, r, q)
      /\ m.first = At(r, 1) /\ m.second = At(q, 1) /\ m.tail = At(b, Len(b))
  BY DEF Merges
<1>2. /\ Weighs(h, ToSet(r) \cup ToSet(q), order, w)
      /\ Ordered(w, b) /\ Ordered(w, r) /\ Ordered(w, q)
      /\ Precedes(w, ToSet(b), ToSet(r) \cup ToSet(q))
  BY DEF Merges
<1>3. /\ b \in Seq(Nodes) /\ r \in Seq(Nodes) /\ q \in Seq(Nodes) /\ w \in [Nodes -> Nat]
      /\ ToSet(r) \cap ToSet(q) = {}
  BY <1>1, <1>2 DEF Between, Weighs
<1>4. ASSUME NEW s \in Seq(Nodes), At(s, 1) # NULL
      PROVE Len(s) # 0 /\ At(s, 1) \in ToSet(s) /\ At(s, 1) \in Nodes
  <2>1. Len(s) \in Nat /\ DOMAIN s = 1 .. Len(s) /\ 1 \in DOMAIN s
    BY <1>4, SeqFacts
  <2> QED BY <2>1, SeqFacts
<1>5. /\ Len(r) # 0 /\ Len(q) # 0 /\ Len(r) \in Nat /\ Len(q) \in Nat /\ Len(b) \in Nat
      /\ m.first \in ToSet(r) /\ m.second \in ToSet(q) /\ m.first \in Nodes /\ m.second \in Nodes
  BY <1>1, <1>3, <1>4, LenProperties
<1>6. m.first # m.second
  BY <1>3, <1>5
<1>7. Less(h, m.first, m.second, order) <=> w[m.first] < w[m.second]
  BY <1>2, <1>5 DEF Weighs
<1>8. m2 = [heap   |-> g,
            first  |-> IF x = m.first THEN g[m.first].next ELSE m.first,
            second |-> IF x = m.first THEN m.second ELSE g[m.second].next,
            tail   |-> x]
  BY DEF take_smaller
<1> HIDE DEF m2, x, g
<1>9. CASE w[m.first] < w[m.second]
  <2> DEFINE t == InsertAt(b, Len(b) + 1, At(r, 1))
             v == RemoveAt(r, 1)
  <2>1. x = At(r, 1) /\ x = m.first
    BY <1>1, <1>7, <1>9 DEF x
  <2>2. Takes(h, b, r, g)
    BY <1>1, <2>1 DEF Takes, g
  <2>3. \A y \in ToSet(q) : w[At(r, 1)] <= w[y]
    <3>1. \A y \in ToSet(q) : w[At(q, 1)] <= w[y] /\ y \in Nodes
      BY <1>2, <1>3, FirstIsLeast, SeqFacts
    <3> QED BY <1>1, <1>3, <1>5, <1>9, <3>1
  <2>4. /\ Between(g, t, v, q) /\ g[x].next = At(v, 1)
        /\ Frame(h, g, ToSet(b) \cup ToSet(r) \cup ToSet(q))
        /\ Weighs(g, ToSet(v) \cup ToSet(q), order, w)
        /\ Ordered(w, t) /\ Ordered(w, v)
        /\ Precedes(w, ToSet(t), ToSet(v) \cup ToSet(q))
        /\ Len(t) = Len(b) + 1 /\ Len(v) = Len(r) - 1 /\ At(t, Len(t)) = x
        /\ At(t, 1) = IF Len(b) = 0 THEN x ELSE At(b, 1)
        /\ ToSet(t) \cup ToSet(v) = ToSet(b) \cup ToSet(r)
    <3>1. CanTake(h, order, w, b, r, q, g)
      BY <1>1, <1>2, <1>5, <2>2, <2>3 DEF CanTake
    <3> HIDE DEF h
    <3>2. HasTaken(h, order, w, b, r, q, g, t, v)
      BY <3>1, Taken
    <3> HIDE DEF t, v
    <3> QED BY <2>1, <3>2 DEF HasTaken
  <2> HIDE DEF t, v
  <2>5. m2.heap = g /\ m2.first = At(v, 1) /\ m2.second = At(q, 1) /\ m2.tail = x
    BY <1>1, <1>8, <2>1, <2>4
  <2>6. t \in Seq(Nodes) /\ v \in Seq(Nodes) /\ g \in Heaps
    BY <2>4 DEF Between
  <2>7. m2 \in Merging
    <3>1. At(v, 1) \in Pointers /\ At(q, 1) \in Pointers /\ x \in Pointers
      BY <1>3, <1>5, <2>1, <2>6, SeqFacts, NULLFacts
    <3>2. m2 = [heap |-> g, first |-> At(v, 1), second |-> At(q, 1), tail |-> x]
      BY <1>1, <1>8, <2>1, <2>4
    <3> QED BY <2>6, <3>1, <3>2 DEF Merging
  <2>8. Merges(m2, order, w, t, v, q)
    BY <1>2, <2>4, <2>5, <2>7 DEF Merges
  <2>9. ASSUME NEW h2, NEW u, Merged(m2.heap, w, t, v, q, h2, u) PROVE Merged(h, w, b, r, q, h2, u)
    <3>1. /\ h2 \in Heaps /\ u \in Seq(Nodes) /\ Injective(u) /\ Links(h2, u) /\ Ordered(w, u)
          /\ Len(u) = Len(t) + Len(v) + Len(q)
          /\ ToSet(u) = ToSet(t) \cup ToSet(v) \cup ToSet(q) /\ Frame(g, h2, ToSet(u))
          /\ Len(t) # 0 => At(u, 1) = At(t, 1)
      BY <2>5, <2>9 DEF Merged
    <3>2. ToSet(u) = ToSet(b) \cup ToSet(r) \cup ToSet(q)
      BY <2>4, <3>1
    <3>3. Frame(h, h2, ToSet(u))
      <4>1. Frame(h, g, ToSet(u))
        BY <2>4, <3>2
      <4> QED BY <3>1, <4>1, FrameFacts
    <3>4. Len(u) = Len(b) + Len(r) + Len(q) /\ Len(t) # 0
      BY <1>5, <2>4, <3>1
    <3>5. At(u, 1) = IF Len(b) = 0 THEN x ELSE At(b, 1)
      BY <2>4, <3>1, <3>4
    <3>6. w[At(r, 1)] < w[At(q, 1)]
      BY <1>1, <1>9
    <3> QED BY <2>1, <3>1, <3>2, <3>3, <3>4, <3>5, <3>6 DEF Merged
  <2>10. Len(v) + Len(q) = Len(r) + Len(q) - 1
    BY <1>5, <2>4
  <2> QED BY <1>3, <2>6, <2>8, <2>9, <2>10 DEF m2
<1>10. CASE ~(w[m.first] < w[m.second])
  <2> DEFINE t == InsertAt(b, Len(b) + 1, At(q, 1))
             v == RemoveAt(q, 1)
  <2>1. x = At(q, 1) /\ x = m.second /\ x # m.first
    BY <1>1, <1>6, <1>7, <1>10 DEF x
  <2>2. Takes(h, b, q, g)
    BY <1>1, <2>1 DEF Takes, g
  <2>3. \A y \in ToSet(r) : w[At(q, 1)] <= w[y]
    <3>1. \A y \in ToSet(r) : w[At(r, 1)] <= w[y] /\ y \in Nodes
      BY <1>2, <1>3, FirstIsLeast, SeqFacts
    <3> QED BY <1>1, <1>3, <1>5, <1>10, <3>1
  <2>a. /\ Between(h, b, q, r) /\ Weighs(h, ToSet(q) \cup ToSet(r), order, w)
        /\ Precedes(w, ToSet(b), ToSet(q) \cup ToSet(r))
    BY <1>1, <1>2, BetweenSwap DEF Weighs, Precedes
  <2>4. /\ Between(g, t, v, r) /\ g[x].next = At(v, 1)
        /\ Frame(h, g, ToSet(b) \cup ToSet(q) \cup ToSet(r))
        /\ Weighs(g, ToSet(v) \cup ToSet(r), order, w)
        /\ Ordered(w, t) /\ Ordered(w, v)
        /\ Precedes(w, ToSet(t), ToSet(v) \cup ToSet(r))
        /\ Len(t) = Len(b) + 1 /\ Len(v) = Len(q) - 1 /\ At(t, Len(t)) = x
        /\ At(t, 1) = IF Len(b) = 0 THEN x ELSE At(b, 1)
        /\ ToSet(t) \cup ToSet(v) = ToSet(b) \cup ToSet(q)
    <3>1. CanTake(h, order, w, b, q, r, g)
      BY <1>2, <1>5, <2>2, <2>3, <2>a DEF CanTake
    <3> HIDE DEF h
    <3>2. HasTaken(h, order, w, b, q, r, g, t, v)
      BY <3>1, Taken
    <3> HIDE DEF t, v
    <3> QED BY <2>1, <3>2 DEF HasTaken
  <2> HIDE DEF t, v
  <2>5. m2.heap = g /\ m2.first = At(r, 1) /\ m2.second = At(v, 1) /\ m2.tail = x
    BY <1>1, <1>8, <2>1, <2>4
  <2>6. t \in Seq(Nodes) /\ v \in Seq(Nodes) /\ g \in Heaps
    BY <2>4 DEF Between
  <2>7. m2 \in Merging
    <3>1. At(v, 1) \in Pointers /\ At(r, 1) \in Pointers /\ x \in Pointers
      BY <1>3, <1>5, <2>1, <2>6, SeqFacts, NULLFacts
    <3>2. m2 = [heap |-> g, first |-> At(r, 1), second |-> At(v, 1), tail |-> x]
      BY <1>1, <1>8, <2>1, <2>4
    <3> QED BY <2>6, <3>1, <3>2 DEF Merging
  <2>8. Merges(m2, order, w, t, r, v)
    <3>1. Between(g, t, r, v) /\ Weighs(g, ToSet(r) \cup ToSet(v), order, w)
          /\ Precedes(w, ToSet(t), ToSet(r) \cup ToSet(v))
      BY <2>4, BetweenSwap DEF Weighs, Precedes
    <3> QED BY <1>2, <2>4, <2>5, <2>7, <3>1 DEF Merges
  <2>9. ASSUME NEW h2, NEW u, Merged(m2.heap, w, t, r, v, h2, u) PROVE Merged(h, w, b, r, q, h2, u)
    <3>1. /\ h2 \in Heaps /\ u \in Seq(Nodes) /\ Injective(u) /\ Links(h2, u) /\ Ordered(w, u)
          /\ Len(u) = Len(t) + Len(r) + Len(v)
          /\ ToSet(u) = ToSet(t) \cup ToSet(r) \cup ToSet(v) /\ Frame(g, h2, ToSet(u))
          /\ Len(t) # 0 => At(u, 1) = At(t, 1)
      BY <2>5, <2>9 DEF Merged
    <3>2. ToSet(u) = ToSet(b) \cup ToSet(r) \cup ToSet(q)
          /\ ToSet(u) = ToSet(b) \cup ToSet(q) \cup ToSet(r)
      BY <2>4, <3>1
    <3>3. Frame(h, h2, ToSet(u))
      <4>1. Frame(h, g, ToSet(u))
        BY <2>4, <3>2
      <4> QED BY <3>1, <4>1, FrameFacts
    <3>4. Len(u) = Len(b) + Len(r) + Len(q) /\ Len(t) # 0
      BY <1>5, <2>4, <3>1
    <3>5. At(u, 1) = IF Len(b) = 0 THEN x ELSE At(b, 1)
      BY <2>4, <3>1, <3>4
    <3>6. ~(w[At(r, 1)] < w[At(q, 1)])
      BY <1>1, <1>10
    <3> QED BY <2>1, <3>1, <3>2, <3>3, <3>4, <3>5, <3>6 DEF Merged
  <2>10. Len(r) + Len(v) = Len(r) + Len(q) - 1
    BY <1>5, <2>4
  <2> QED BY <1>3, <2>6, <2>8, <2>9, <2>10 DEF m2
<1> QED BY <1>9, <1>10

(* The loop, by induction on the items that are left.                         *)
LEMMA MergeLoop ==
  ASSUME NEW order, NEW w, NEW loop, Loops(loop, order)
  PROVE  \A n \in Nat : \A m \in Merging : \A b, r, q \in Seq(Nodes) :
           Merges(m, order, w, b, r, q) /\ Len(r) + Len(q) <= n
             => \E u : Merged(m.heap, w, b, r, q, loop[n][m], u)
<1> DEFINE Holds(n) == \A m \in Merging : \A b, r, q \in Seq(Nodes) :
             Merges(m, order, w, b, r, q) /\ Len(r) + Len(q) <= n
               => \E u : Merged(m.heap, w, b, r, q, loop[n][m], u)
           S == {n \in Nat : Holds(n)}
<1>1. 0 \in S
  <2>1. SUFFICES ASSUME NEW m \in Merging, NEW b \in Seq(Nodes), NEW r \in Seq(Nodes),
                        NEW q \in Seq(Nodes), Merges(m, order, w, b, r, q), Len(r) + Len(q) <= 0
                 PROVE  \E u : Merged(m.heap, w, b, r, q, loop[0][m], u)
    BY Zenon
  <2>2. loop[0][m] = Tail_(m)
    BY DEF Loops
  <2>3. m.first = NULL
    <3>1. Len(r) \in Nat /\ Len(q) \in Nat /\ DOMAIN r = 1 .. Len(r)
      BY LenProperties
    <3>2. 1 \notin DOMAIN r
      BY <2>1, <3>1
    <3> QED BY <2>1, <3>2 DEF Merges, At
  <2> QED BY <2>1, <2>2, <2>3, MergeTail
<1>2. ASSUME NEW n \in Nat, n \in S PROVE n + 1 \in S
  <2>1. SUFFICES ASSUME NEW m \in Merging, NEW b \in Seq(Nodes), NEW r \in Seq(Nodes),
                        NEW q \in Seq(Nodes), Merges(m, order, w, b, r, q),
                        Len(r) + Len(q) <= n + 1
                 PROVE  \E u : Merged(m.heap, w, b, r, q, loop[n + 1][m], u)
    <3>1. n + 1 \in Nat
      OBVIOUS
    <3> QED BY <2>1, <3>1, Zenon
  <2>2. n + 1 \in Nat /\ n + 1 # 0 /\ (n + 1) - 1 = n
    OBVIOUS
  <2>3. CASE NULL \in {m.first, m.second}
    <3>1. loop[n + 1][m] = Tail_(m)
      BY <2>2, <2>3 DEF Loops
    <3> QED BY <2>1, <2>3, <3>1, MergeTail
  <2>4. CASE m.first # NULL /\ m.second # NULL
    <3> DEFINE m2 == take_smaller(m, order)
    <3>1. loop[n + 1][m] = loop[n][m2]
      BY <2>2, <2>4 DEF Loops
    <3>2. PICK b2, r2, q2 : /\ Merges(m2, order, w, b2, r2, q2)
                            /\ r2 \in Seq(Nodes) /\ q2 \in Seq(Nodes) /\ b2 \in Seq(Nodes)
                            /\ Len(r2) + Len(q2) = Len(r) + Len(q) - 1
                            /\ \A h2, u : Merged(m2.heap, w, b2, r2, q2, h2, u)
                                 => Merged(m.heap, w, b, r, q, h2, u)
      BY <2>1, <2>4, MergeRound
    <3> HIDE DEF m2
    <3>3. m2 \in Merging
      BY <3>2 DEF Merges
    <3>4. Len(r2) + Len(q2) <= n
      <4>1. Len(r) \in Nat /\ Len(q) \in Nat
        BY LenProperties
      <4> QED BY <2>1, <3>2, <4>1
    <3>5. PICK u : Merged(m2.heap, w, b2, r2, q2, loop[n][m2], u)
      BY <1>2, <3>2, <3>3, <3>4
    <3> QED BY <3>1, <3>2, <3>5
  <2> QED BY <2>3, <2>4
<1> HIDE DEF S
<1>3. \A n \in Nat : n \in S
  BY <1>1, <1>2, NatSetInduction
<1> QED BY <1>3 DEF S

(* take_smaller leads from a state of the loop to a state of it.              *)
LEMMA MergingType ==
  ASSUME NEW m \in Merging, NEW order
  PROVE  /\ m.heap \in Heaps /\ m.first \in Pointers /\ m.second \in Pointers /\ m.tail \in Pointers
         /\ Tail_(m) \in Heaps
         /\ m.first # NULL /\ m.second # NULL => take_smaller(m, order) \in Merging
<1>1. m.heap \in Heaps /\ m.first \in Pointers /\ m.second \in Pointers /\ m.tail \in Pointers
  BY DEF Merging
<1>2. Tail_(m) \in Heaps
  <2> DEFINE h == m.heap
             p == m.tail
             v == IF m.first = NULL THEN m.second ELSE m.first
  <2>1. h \in Heaps /\ p \in Pointers /\ v \in Pointers /\ Tail_(m) = suffix_object(h, p, v)
    BY <1>1 DEF Tail_
  <2> HIDE DEF h, p, v
  <2> QED BY <2>1, Suffixed
<1>3. ASSUME m.first # NULL, m.second # NULL PROVE take_smaller(m, order) \in Merging
  <2> DEFINE x == IF Less(m.heap, m.first, m.second, order) THEN m.first ELSE m.second
             g == IF m.tail = NULL THEN m.heap ELSE suffix_object(m.heap, m.tail, x)
             f == IF x = m.first THEN g[m.first].next ELSE m.first
             s == IF x = m.first THEN m.second ELSE g[m.second].next
  <2>1. take_smaller(m, order) = [heap |-> g, first |-> f, second |-> s, tail |-> x]
    BY DEF take_smaller
  <2>2. x \in Pointers /\ m.first \in Nodes /\ m.second \in Nodes
    BY <1>1, <1>3 DEF Pointers
  <2>3. g \in Heaps
    <3> HIDE DEF x
    <3> QED BY <1>1, <2>2, Suffixed
  <2> HIDE DEF g, x
  <2>4. f \in Pointers /\ s \in Pointers
    BY <1>1, <2>2, <2>3, HeapType
  <2> HIDE DEF f, s
  <2> QED BY <2>1, <2>2, <2>3, <2>4 DEF Merging
<1> QED BY <1>1, <1>2, <1>3

(* merge is the loop with as many rounds as there are items.                  *)
LEMMA MergeIs ==
  ASSUME NEW order
  PROVE  \E loop : /\ Loops(loop, order)
                   /\ \A h \in Heaps, p, q \in Pointers :
                        merge(h, p, q, order) = loop[Cardinality(Nodes)]
                          [[heap |-> h, first |-> p, second |-> q, tail |-> NULL]]
<1> DEFINE X == [Merging -> Heaps]
           Step(w) == [m \in Merging |-> IF NULL \in {m.first, m.second} THEN Tail_(m)
                                         ELSE w[take_smaller(m, order)]]
           b == [m \in Merging |-> Tail_(m)]
           F == [n \in Nat |-> [w \in X |-> Step(w)]]
           D(loop, steps) ==
             [m \in Merging |->
               IF NULL \in {m.first, m.second} \/ steps = 0
               THEN suffix_object(m.heap, m.tail, IF m.first = NULL THEN m.second ELSE m.first)
               ELSE loop[steps - 1][take_smaller(m, order)]]
           G(loop) == loop = [steps \in Nat |-> D(loop, steps)]
           loop == CHOOSE f : G(f)
<1>1. ASSUME NEW w \in X PROVE Step(w) \in X
  <2>1. ASSUME NEW m \in Merging, NULL \notin {m.first, m.second}
        PROVE w[take_smaller(m, order)] \in Heaps
    BY <2>1, MergingType
  <2> QED BY <2>1, MergingType
<1>2. b \in X
  BY MergingType
<1>a. F \in [Nat -> [X -> X]]
  BY <1>1
<1>3. \A n \in Nat : \A w \in X : F[n][w] = Step(w)
  OBVIOUS
<1> HIDE DEF F, b, X
<1>b. PICK g : Solves(g, X, b, F)
  BY <1>2, <1>a, Recursion DEF Recursive
<1>4. g \in [Nat -> X] /\ g[0] = b /\ \A n \in Nat : g[n + 1] = F[n][g[n]]
  BY <1>b DEF Solves
<1>c. \A f : D(f, 0) = b
  BY DEF b, Tail_
<1>d. ASSUME NEW n \in Nat, n # 0, NEW f PROVE D(f, n) = Step(f[n - 1])
  BY <1>d DEF Tail_
<1>5. ASSUME NEW n \in Nat PROVE g[n] = D(g, n)
  <2>1. CASE n = 0
    BY <1>4, <1>c, <2>1
  <2>2. CASE n # 0
    <3>1. n - 1 \in Nat /\ (n - 1) + 1 = n
      BY <2>2
    <3> HIDE DEF Step, D
    <3>2. g[n] = Step(g[n - 1])
      BY <1>3, <1>4, <3>1
    <3> QED BY <1>d, <2>2, <3>2
  <2> QED BY <2>1, <2>2
<1> HIDE DEF D, Step
<1>6. G(g)
  <2>1. g = [n \in Nat |-> g[n]]
    BY <1>4
  <2>2. [n \in Nat |-> g[n]] = [n \in Nat |-> D(g, n)]
    BY <1>5, Zenon
  <2> QED BY <2>1, <2>2
<1>7. G(loop)
  BY <1>6, Zenon
<1>8. \A h \in Heaps, p, q \in Pointers :
        merge(h, p, q, order) = loop[Cardinality(Nodes)]
          [[heap |-> h, first |-> p, second |-> q, tail |-> NULL]]
  BY DEF merge, D
<1> HIDE DEF loop
<1>9. \A n \in Nat : loop[n] = D(loop, n)
  BY <1>7
<1>10. \A n \in Nat : loop[n] \in X
  <2> DEFINE S == {n \in Nat : loop[n] \in X}
  <2>1. 0 \in S
    BY <1>2, <1>9, <1>c
  <2>2. ASSUME NEW n \in Nat, n \in S PROVE n + 1 \in S
    <3>1. n + 1 \in Nat /\ n + 1 # 0 /\ (n + 1) - 1 = n
      OBVIOUS
    <3>2. loop[n + 1] = Step(loop[n])
      BY <1>9, <1>d, <3>1
    <3> QED BY <1>1, <2>2, <3>1, <3>2
  <2> HIDE DEF S
  <2>3. \A n \in Nat : n \in S
    BY <2>1, <2>2, NatSetInduction
  <2> QED BY <2>3 DEF S
<1>11. Loops(loop, order)
  <2>1. loop \in [Nat -> X]
    BY <1>7, <1>10
  <2>2. ASSUME NEW n \in Nat, NEW m \in Merging
        PROVE  loop[n][m] = IF NULL \in {m.first, m.second} \/ n = 0 THEN Tail_(m)
                            ELSE loop[n - 1][take_smaller(m, order)]
    <3>1. loop[n] = D(loop, n)
      BY <1>9
    <3> QED BY <3>1 DEF D, Tail_
  <2> QED BY <2>1, <2>2 DEF Loops, X
<1> QED BY <1>8, <1>11

(* What merge does to two lists that are in order and share no item.           *)
CanMerge(h, order, w, r, q) ==
  /\ h \in Heaps /\ r \in Seq(Nodes) /\ q \in Seq(Nodes)
  /\ Injective(r) /\ Injective(q) /\ ToSet(r) \cap ToSet(q) = {}
  /\ Links(h, r) /\ Links(h, q)
  /\ Weighs(h, ToSet(r) \cup ToSet(q), order, w) /\ Ordered(w, r) /\ Ordered(w, q)

(* It links them into one list in order.                                      *)
LEMMA MergeLists ==
  ASSUME NEW h, NEW order, NEW w, NEW r, NEW q, CanMerge(h, order, w, r, q)
  PROVE  \E u : Merged(h, w, <<>>, r, q, merge(h, At(r, 1), At(q, 1), order), u)
<1> DEFINE p1 == At(r, 1)
           p2 == At(q, 1)
           m == [heap |-> h, first |-> p1, second |-> p2, tail |-> NULL]
<1>1. PICK loop : /\ Loops(loop, order)
                  /\ \A g \in Heaps, p, v \in Pointers :
                        merge(g, p, v, order) = loop[Cardinality(Nodes)]
                          [[heap |-> g, first |-> p, second |-> v, tail |-> NULL]]
  BY MergeIs
<1>2. /\ h \in Heaps /\ r \in Seq(Nodes) /\ q \in Seq(Nodes)
      /\ Injective(r) /\ Injective(q) /\ ToSet(r) \cap ToSet(q) = {}
      /\ Links(h, r) /\ Links(h, q)
      /\ Weighs(h, ToSet(r) \cup ToSet(q), order, w) /\ Ordered(w, r) /\ Ordered(w, q)
  BY DEF CanMerge
<1>3. p1 \in Pointers /\ p2 \in Pointers
  BY <1>2, SeqFacts
<1>e. /\ <<>> \in Seq(Nodes) /\ Len(<<>>) = 0 /\ ToSet(<<>>) = {} /\ DOMAIN <<>> = {}
      /\ \A j : At(<<>>, j) = NULL
  BY EmptySeq DEF ToSet, At
<1>4. m \in Merging /\ m.heap = h /\ m.first = p1 /\ m.second = p2 /\ m.tail = NULL
  BY <1>2, <1>3, NULLFacts DEF Merging
<1>5. Between(h, <<>>, r, q)
  <2>1. ASSUME NEW s \in Seq(Nodes), Links(h, s), At(s, 1) # NULL PROVE h[At(s, 1)].prev = NULL
    <3>1. DOMAIN s = 1 .. Len(s) /\ Len(s) \in Nat /\ 1 \in DOMAIN s /\ At(s, 1) = s[1]
          /\ 1 - 1 \notin DOMAIN s
      BY <2>1, SeqFacts
    <3>2. h[s[1]].prev = At(s, 1 - 1)
      BY <2>1, <3>1 DEF Links
    <3> QED BY <3>1, <3>2 DEF At
  <2>2. \A x \in {At(r, 1), At(q, 1)} \ {NULL} : h[x].prev = NULL
    BY <1>2, <2>1
  <2>3. Follows(h, r) /\ Follows(h, q)
    BY <1>2 DEF Links, Follows
  <2>4. Leads(h, <<>>) /\ Injective(<<>>)
    BY <1>e DEF Leads, Injective
  <2> QED BY <1>2, <1>e, <2>2, <2>3, <2>4 DEF Between
<1>6. Merges(m, order, w, <<>>, r, q)
  <2>1. Ordered(w, <<>>) /\ Precedes(w, ToSet(<<>>), ToSet(r) \cup ToSet(q))
    BY <1>e DEF Ordered, Precedes
  <2> HIDE DEF m
  <2> QED BY <1>2, <1>4, <1>5, <1>e, <2>1 DEF Merges
<1>7. Len(r) + Len(q) <= Cardinality(Nodes) /\ Cardinality(Nodes) \in Nat
  <2>1. r \o q \in Seq(Nodes) /\ Len(r \o q) = Len(r) + Len(q) /\ Injective(r \o q)
    BY <1>2, ConcatFacts
  <2>2. Len(r \o q) <= Cardinality(Nodes)
    BY <2>1, InjectiveLength
  <2>3. Cardinality(Nodes) \in Nat
    BY ItemAssumption, FS_CardinalityType DEF ItemAssumption
  <2> QED BY <2>1, <2>2, <2>3
<1>8. merge(h, p1, p2, order) = loop[Cardinality(Nodes)][m]
  BY <1>1, <1>2, <1>3
<1> HIDE DEF m
<1>9. \E u : Merged(m.heap, w, <<>>, r, q, loop[Cardinality(Nodes)][m], u)
  BY <1>1, <1>2, <1>4, <1>6, <1>7, <1>e, MergeLoop
<1> QED BY <1>4, <1>8, <1>9

(* merge returns a heap.                                                      *)
LEMMA MergeType ==
  ASSUME NEW h \in Heaps, NEW p \in Pointers, NEW q \in Pointers, NEW order
  PROVE  merge(h, p, q, order) \in Heaps
<1> DEFINE m == [heap |-> h, first |-> p, second |-> q, tail |-> NULL]
<1>1. PICK loop : /\ Loops(loop, order)
                  /\ merge(h, p, q, order) = loop[Cardinality(Nodes)][m]
  BY MergeIs
<1>2. m \in Merging
  BY NULLFacts DEF Merging
<1>3. Cardinality(Nodes) \in Nat
  BY ItemAssumption, FS_CardinalityType DEF ItemAssumption
<1> HIDE DEF m
<1> QED BY <1>1, <1>2, <1>3 DEF Loops

(* A list is the same in a heap with the same links.                          *)
LEMMA LinksLater ==
  ASSUME NEW h, NEW h2, NEW S, NEW s \in Seq(Nodes), Links(h, s), Frame(h, h2, S),
         ToSet(s) \cap S = {}
  PROVE  Links(h2, s)
<1>1. \A i \in DOMAIN s : s[i] \in Nodes /\ s[i] \notin S
  BY SeqFacts
<1> QED BY <1>1 DEF Links, Frame

(* InOrder compares neighbours only; the order is transitive.                 *)
LEMMA InOrderIsOrdered ==
  ASSUME NEW h, NEW order, NEW w, NEW s \in Seq(Nodes), Weighs(h, ToSet(s), order, w),
         InOrder(h, s, order)
  PROVE  Ordered(w, s)
<1>1. Len(s) \in Nat /\ DOMAIN s = 1 .. Len(s) /\ \A i \in DOMAIN s : s[i] \in ToSet(s)
      /\ s[i] \in Nodes
  BY SeqFacts
<1>2. \A i \in 1 .. Len(s) : w[s[i]] \in Nat
  BY <1>1 DEF Weighs
<1>3. ASSUME NEW i \in 1 .. Len(s) - 1 PROVE w[s[i]] < w[s[i + 1]]
  <2>1. i \in DOMAIN s /\ i + 1 \in DOMAIN s
    BY <1>1
  <2>2. Less(h, s[i], s[i + 1], order)
    BY DEF InOrder
  <2> QED BY <1>1, <2>1, <2>2 DEF Weighs
<1> DEFINE S == {d \in Nat : \A i \in 1 .. Len(s) : i + d <= Len(s) => w[s[i]] <= w[s[i + d]]}
<1>4. 0 \in S
  BY <1>1, <1>2
<1>5. ASSUME NEW d \in Nat, d \in S PROVE d + 1 \in S
  <2>1. SUFFICES ASSUME NEW i \in 1 .. Len(s), i + (d + 1) <= Len(s)
                 PROVE  w[s[i]] <= w[s[i + (d + 1)]]
    OBVIOUS
  <2>2. i + d \in 1 .. Len(s) - 1 /\ i + d <= Len(s) /\ (i + d) + 1 = i + (d + 1)
        /\ i + d \in 1 .. Len(s)
        /\ i + (d + 1) \in 1 .. Len(s)
    BY <1>1, <2>1
  <2>3. w[s[i]] <= w[s[i + d]]
    BY <1>5, <2>2
  <2>4. w[s[i + d]] < w[s[i + (d + 1)]]
    BY <1>3, <2>2
  <2>5. w[s[i]] \in Nat /\ w[s[i + d]] \in Nat /\ w[s[i + (d + 1)]] \in Nat
    BY <1>2, <2>2
  <2> QED BY <2>3, <2>4, <2>5
<1> HIDE DEF S
<1>6. \A d \in Nat : d \in S
  BY <1>4, <1>5, NatSetInduction
<1>7. ASSUME NEW i \in DOMAIN s, NEW j \in DOMAIN s, i < j PROVE w[s[i]] <= w[s[j]]
  <2>1. j - i \in Nat /\ i + (j - i) = j /\ i \in 1 .. Len(s) /\ i + (j - i) <= Len(s)
    BY <1>1, <1>7
  <2>2. j - i \in S
    BY <1>6, <2>1
  <2> QED BY <2>1, <2>2 DEF S
<1> QED BY <1>7 DEF Ordered

(* split makes two lists of one.                                              *)
LEMMA SplitLinks ==
  ASSUME NEW h \in Heaps, NEW s \in Seq(Nodes), Injective(s), Links(h, s), NEW k \in 2 .. Len(s)
  PROVE  /\ split(h, s[k]) \in Heaps
         /\ Links(split(h, s[k]), SubSeq(s, 1, k - 1))
         /\ Links(split(h, s[k]), SubSeq(s, k, Len(s)))
         /\ Frame(h, split(h, s[k]), ToSet(s))
<1> DEFINE p == SubSeq(s, 1, k - 1)
           q == SubSeq(s, k, Len(s))
           m == s[k]
           e == s[k - 1]
           h1 == Set(h, e, "next", NULL)
           h2 == Set(h1, m, "prev", NULL)
<1>1. /\ Len(s) \in Nat /\ DOMAIN s = 1 .. Len(s) /\ k \in DOMAIN s /\ k - 1 \in DOMAIN s
           /\ k \in Nat
      /\ \A i \in DOMAIN s : s[i] \in Nodes /\ s[i] \in ToSet(s) /\ At(s, i) = s[i]
  BY SeqFacts
<1>2. m \in Nodes /\ e \in Nodes /\ m \in ToSet(s) /\ e \in ToSet(s) /\ h[m].prev = e
  <2>1. h[s[k]].prev = At(s, k - 1)
    BY <1>1 DEF Links
  <2> QED BY <1>1, <2>1
<1>3. split(h, m) = h2
  BY <1>2 DEF split
<1>a. \A i \in DOMAIN s : (s[i] = m => i = k) /\ (s[i] = e => i = k - 1)
  BY <1>1 DEF Injective
<1>k. s[k] = m /\ s[k - 1] = e
  OBVIOUS
<1>b. /\ p \in Seq(Nodes) /\ Len(p) = k - 1 /\ q \in Seq(Nodes) /\ Len(q) = Len(s) - k + 1
      /\ \A j \in Int : At(p, j) = IF j < k THEN At(s, j) ELSE NULL
      /\ \A j \in Int : At(q, j) = IF j >= 1 THEN At(s, k - 1 + j) ELSE NULL
  BY SplitFacts
<1>m. m \in Pointers /\ e \in Pointers
  BY <1>2, NULLFacts
<1> HIDE DEF m, e, p, q
<1>4. /\ h1 \in Heaps
      /\ \A x \in Nodes : /\ h1[x].next = IF x = e THEN NULL ELSE h[x].next
                          /\ h1[x].prev = h[x].prev
                          /\ h1[x].child = h[x].child /\ h1[x].string = h[x].string
  BY <1>m, NULLFacts, SetNext
<1> HIDE DEF h1
<1>5. /\ h2 \in Heaps
      /\ \A x \in Nodes : /\ h2[x].prev = IF x = m THEN NULL ELSE h1[x].prev
                          /\ h2[x].next = h1[x].next
                          /\ h2[x].child = h1[x].child /\ h2[x].string = h1[x].string
  BY <1>4, <1>m, NULLFacts, SetPrev
<1> HIDE DEF h2
<1>6. \A x \in Nodes : /\ h2[x].next = IF x = e THEN NULL ELSE h[x].next
                       /\ h2[x].prev = IF x = m THEN NULL ELSE h[x].prev
                       /\ h2[x].child = h[x].child /\ h2[x].string = h[x].string
  BY <1>4, <1>5
<1>7. Frame(h, h2, ToSet(s))
  BY <1>2, <1>6 DEF Frame
<1>8. ASSUME NEW i \in DOMAIN s PROVE h[s[i]].prev = At(s, i - 1) /\ h[s[i]].next = At(s, i + 1)
  BY DEF Links
<1>9. Links(h2, p)
  <2>1. ASSUME NEW i \in DOMAIN p PROVE h2[p[i]].prev = At(p, i - 1) /\ h2[p[i]].next = At(p, i + 1)
    <3>0. i \in 1 .. k - 1
      BY <1>b, LenProperties
    <3>1. i \in 1 .. k - 1 /\ i \in DOMAIN s /\ i < k /\ i \in Int /\ i # k
      BY <1>1, <3>0
    <3>2. p[i] = s[i]
      BY <1>1, <1>b, <3>1 DEF At
    <3>3. At(p, i - 1) = At(s, i - 1)
      BY <1>1, <1>b, <3>1
    <3>4. s[i] # m /\ s[i] \in Nodes
      BY <1>1, <1>a, <3>1
    <3>5. CASE i = k - 1
      <4>1. At(p, i + 1) = NULL
        BY <1>1, <1>b, <3>5
      <4> QED BY <1>6, <1>8, <1>k, <3>1, <3>2, <3>3, <3>4, <3>5, <4>1
    <3>6. CASE i # k - 1
      <4>1. At(p, i + 1) = At(s, i + 1)
        BY <1>1, <1>b, <3>1, <3>6
      <4>2. s[i] # e
        BY <1>a, <3>1, <3>6
      <4> QED BY <1>6, <1>8, <3>1, <3>2, <3>3, <3>4, <4>1, <4>2
    <3> QED BY <3>5, <3>6
  <2> QED BY <2>1 DEF Links
<1>10. Links(h2, q)
  <2>1. ASSUME NEW i \in DOMAIN q PROVE h2[q[i]].prev = At(q, i - 1) /\ h2[q[i]].next = At(q, i + 1)
    <3> DEFINE j == k - 1 + i
    <3>0. i \in 1 .. Len(s) - k + 1
      BY <1>b, LenProperties
    <3>1. i \in Int /\ i >= 1 /\ j \in 1 .. Len(s) /\ j \in DOMAIN s /\ j # k - 1
          /\ (j = k => i = 1)
      BY <1>1, <3>0
    <3>2. q[i] = s[j]
      BY <1>1, <1>b, <3>1 DEF At
    <3>3. At(q, i + 1) = At(s, j + 1)
      <4>1. i + 1 \in Int /\ i + 1 >= 1 /\ k - 1 + (i + 1) = j + 1
        BY <1>1, <3>1
      <4> QED BY <1>b, <4>1
    <3>4. s[j] # e /\ s[j] \in Nodes
      BY <1>1, <1>a, <3>1
    <3>5. CASE i = 1
      <4>1. At(q, i - 1) = NULL
        BY <1>b, <3>5
      <4>2. j = k
        BY <1>1, <3>5
      <4> HIDE DEF j
      <4> QED BY <1>6, <1>8, <1>k, <3>1, <3>2, <3>3, <3>4, <4>1, <4>2
    <3>6. CASE i # 1
      <4>1. At(q, i - 1) = At(s, j - 1)
        <5>1. i - 1 \in Int /\ i - 1 >= 1 /\ k - 1 + (i - 1) = j - 1
          BY <1>1, <3>1, <3>6
        <5> QED BY <1>b, <5>1
      <4>2. s[j] # m
        BY <1>a, <3>1, <3>6
      <4> HIDE DEF j
      <4> QED BY <1>6, <1>8, <3>1, <3>2, <3>3, <3>4, <4>1, <4>2
    <3> QED BY <3>5, <3>6
  <2> QED BY <2>1 DEF Links
<1> QED BY <1>3, <1>5, <1>7, <1>9, <1>10 DEF m, p, q

(* What sort_list makes of a list of which no item is in another.             *)
SortedTo == [heap : Heaps, list : Pointers]

CanSort(h, order, w, s) ==
  /\ h \in Heaps /\ s \in Seq(Nodes) /\ Injective(s) /\ Links(h, s)
  /\ Weighs(h, ToSet(s), order, w)

SortedList(h, w, s, r, t) ==
  /\ r \in SortedTo /\ t \in Seq(Nodes) /\ Injective(t) /\ ToSet(t) = ToSet(s) /\ Len(t) = Len(s)
  /\ Links(r.heap, t) /\ At(t, 1) = r.list /\ Ordered(w, t) /\ Frame(h, r.heap, ToSet(s))

Middle(h, list) == List(h, list)[(Len(List(h, list)) + 1) \div 2 + 1]

(* The recursive case of sort_list, with f for the calls.                     *)
SortHalves(f, h, list, order) ==
  LET middle == Middle(h, list)
      first  == f[split(h, middle)][list]
      second == f[first.heap][middle]
  IN [heap |-> merge(second.heap, first.list, second.list, order),
      list |-> IF Less(second.heap, first.list, second.list, order)
               THEN first.list ELSE second.list]

(* Both halves are shorter than the list.                                     *)
LEMMA MiddleIndex ==
  ASSUME NEW h, NEW order, NEW s \in Seq(Nodes), ~InOrder(h, s, order)
  PROVE  (Len(s) + 1) \div 2 + 1 \in 2 .. Len(s)
<1>1. Len(s) \in Nat
  BY LenProperties
<1>2. PICK i \in 1 .. Len(s) - 1 : TRUE
  BY DEF InOrder
<1>3. Len(s) >= 2
  BY <1>1, <1>2
<1>4. \A n \in Nat : n >= 2 => (n + 1) \div 2 + 1 \in 2 .. n
  OBVIOUS
<1> QED BY <1>1, <1>3, <1>4

(* split returns a heap.                                                      *)
LEMMA SplitType ==
  ASSUME NEW h \in Heaps, NEW m \in Nodes
  PROVE  split(h, m) \in Heaps
<1> DEFINE e == h[m].prev
           h1 == Set(h, e, "next", NULL)
<1>1. e \in Pointers /\ m \in Pointers /\ split(h, m) = Set(h1, m, "prev", NULL)
  BY HeapType, NULLFacts DEF split
<1> HIDE DEF e
<1>2. h1 \in Heaps
  BY <1>1, NULLFacts, SetNext
<1> HIDE DEF h1
<1> QED BY <1>1, <1>2, NULLFacts, SetPrev

(* The recursive case returns a heap and a list.                              *)
LEMMA HalvesType ==
  ASSUME NEW f \in [Heaps -> [Pointers -> SortedTo]], NEW h \in Heaps, NEW list \in Pointers,
         NEW order, ~InOrder(h, List(h, list), order)
  PROVE  SortHalves(f, h, list, order) \in SortedTo
<1> DEFINE middle == Middle(h, list)
           h0 == split(h, middle)
           first  == f[h0][list]
           second == f[first.heap][middle]
<1>1. middle \in Nodes
  <2>1. List(h, list) \in Seq(Nodes)
    BY ListType
  <2> DEFINE k == (Len(List(h, list)) + 1) \div 2 + 1
  <2>2. k \in 2 .. Len(List(h, list))
    BY <2>1, MiddleIndex
  <2> HIDE DEF k
  <2>3. k \in 1 .. Len(List(h, list))
    BY <2>2
  <2>4. List(h, list)[k] \in Nodes
    BY <2>1, <2>3, ElementOfSeq
  <2> QED BY <2>4 DEF k, Middle
<1>2. SortHalves(f, h, list, order) =
        [heap |-> merge(second.heap, first.list, second.list, order),
         list |-> IF Less(second.heap, first.list, second.list, order)
                  THEN first.list ELSE second.list]
  BY DEF SortHalves
<1> HIDE DEF middle
<1>3. h0 \in Heaps /\ middle \in Pointers
  BY <1>1, SplitType, NULLFacts
<1> HIDE DEF h0
<1>4. first \in SortedTo
  BY <1>3
<1> HIDE DEF first
<1>5. first.heap \in Heaps /\ first.list \in Pointers
  BY <1>4 DEF SortedTo
<1>6. second \in SortedTo
  BY <1>3, <1>5
<1> HIDE DEF second
<1>7. second.heap \in Heaps /\ second.list \in Pointers
  BY <1>6 DEF SortedTo
<1>8. merge(second.heap, first.list, second.list, order) \in Heaps
  BY <1>5, <1>7, MergeType
<1> QED BY <1>2, <1>5, <1>7, <1>8 DEF SortedTo

(* sort_list as a function of the depth of its recursion.                     *)
Sorts(sort, order) ==
  /\ sort \in [Nat -> [Heaps -> [Pointers -> SortedTo]]]
  /\ \A n \in Nat, h \in Heaps, list \in Pointers :
       sort[n][h][list] = IF InOrder(h, List(h, list), order) \/ n = 0
                          THEN [heap |-> h, list |-> list]
                          ELSE SortHalves(sort[n - 1], h, list, order)

(* sort_list is it with as many levels as there are items.                    *)
LEMMA SortIs ==
  ASSUME NEW order
  PROVE  \E sort : /\ Sorts(sort, order)
                   /\ \A h \in Heaps, list \in Pointers :
                        sort_list(h, list, order) = sort[Cardinality(Nodes)][h][list]
<1> DEFINE X == [Heaps -> [Pointers -> SortedTo]]
           Step(w) == [h \in Heaps |-> [list \in Pointers |->
                         IF InOrder(h, List(h, list), order) THEN [heap |-> h, list |-> list]
                         ELSE SortHalves(w, h, list, order)]]
           b == [h \in Heaps |-> [list \in Pointers |-> [heap |-> h, list |-> list]]]
           F == [n \in Nat |-> [w \in X |-> Step(w)]]
           D(sort, depth) ==
             [h \in Heaps |-> [list \in Pointers |->
               LET items == List(h, list) IN
               IF InOrder(h, items, order) \/ depth = 0
               THEN [heap |-> h, list |-> list]
               ELSE LET middle == items[(Len(items) + 1) \div 2 + 1]
                        first  == sort[depth - 1][split(h, middle)][list]
                        second == sort[depth - 1][first.heap][middle]
                    IN [heap |-> merge(second.heap, first.list, second.list, order),
                        list |-> IF Less(second.heap, first.list, second.list, order)
                                 THEN first.list ELSE second.list]]]
           G(sort) == sort = [depth \in Nat |-> D(sort, depth)]
           sort == CHOOSE f : G(f)
<1>0. \A h \in Heaps, list \in Pointers : [heap |-> h, list |-> list] \in SortedTo
  BY DEF SortedTo
<1>1. ASSUME NEW w \in X PROVE Step(w) \in X
  <2>1. ASSUME NEW h \in Heaps, NEW list \in Pointers
        PROVE  (IF InOrder(h, List(h, list), order) THEN [heap |-> h, list |-> list]
                ELSE SortHalves(w, h, list, order)) \in SortedTo
    BY <1>0, HalvesType
  <2> QED BY <2>1
<1>2. b \in X
  BY <1>0
<1>a. F \in [Nat -> [X -> X]]
  BY <1>1
<1>3. \A n \in Nat : \A w \in X : F[n][w] = Step(w)
  OBVIOUS
<1> HIDE DEF F, b, X
<1>b. PICK g : Solves(g, X, b, F)
  BY <1>2, <1>a, Recursion DEF Recursive
<1>4. g \in [Nat -> X] /\ g[0] = b /\ \A n \in Nat : g[n + 1] = F[n][g[n]]
  BY <1>b DEF Solves
<1>c. \A f : D(f, 0) = b
  BY DEF b
<1>d. ASSUME NEW n \in Nat, n # 0, NEW f PROVE D(f, n) = Step(f[n - 1])
  <2> DEFINE Whole(h, list) ==
        LET items == List(h, list) IN
        IF InOrder(h, items, order) \/ n = 0
        THEN [heap |-> h, list |-> list]
        ELSE LET middle == items[(Len(items) + 1) \div 2 + 1]
                 first  == f[n - 1][split(h, middle)][list]
                 second == f[n - 1][first.heap][middle]
             IN [heap |-> merge(second.heap, first.list, second.list, order),
                 list |-> IF Less(second.heap, first.list, second.list, order)
                          THEN first.list ELSE second.list]
             Halves(h, list) ==
        IF InOrder(h, List(h, list), order) THEN [heap |-> h, list |-> list]
        ELSE SortHalves(f[n - 1], h, list, order)
  <2>1. ASSUME NEW h \in Heaps, NEW list \in Pointers PROVE Whole(h, list) = Halves(h, list)
    <3>1. CASE InOrder(h, List(h, list), order)
      BY <3>1
    <3>2. CASE ~InOrder(h, List(h, list), order)
      BY <1>d, <3>2, Zenon DEF SortHalves, Middle
    <3> QED BY <3>1, <3>2
  <2>2. D(f, n) = [h \in Heaps |-> [list \in Pointers |-> Whole(h, list)]]
    OBVIOUS
  <2>3. Step(f[n - 1]) = [h \in Heaps |-> [list \in Pointers |-> Halves(h, list)]]
    OBVIOUS
  <2> HIDE DEF Whole, Halves
  <2>4. [h \in Heaps |-> [list \in Pointers |-> Whole(h, list)]]
        = [h \in Heaps |-> [list \in Pointers |-> Halves(h, list)]]
    BY <2>1
  <2> HIDE DEF D, Step
  <2> QED BY <2>2, <2>3, <2>4
<1>5. ASSUME NEW n \in Nat PROVE g[n] = D(g, n)
  <2>1. CASE n = 0
    BY <1>4, <1>c, <2>1
  <2>2. CASE n # 0
    <3>1. n - 1 \in Nat /\ (n - 1) + 1 = n
      BY <2>2
    <3> HIDE DEF Step, D
    <3>2. g[n] = Step(g[n - 1])
      BY <1>3, <1>4, <3>1
    <3> QED BY <1>d, <2>2, <3>2
  <2> QED BY <2>1, <2>2
<1> HIDE DEF D, Step
<1>6. G(g)
  <2>1. g = [n \in Nat |-> g[n]]
    BY <1>4
  <2>2. [n \in Nat |-> g[n]] = [n \in Nat |-> D(g, n)]
    BY <1>5, Zenon
  <2> QED BY <2>1, <2>2
<1>7. G(sort)
  BY <1>6, Zenon
<1>8. \A h \in Heaps, list \in Pointers :
        sort_list(h, list, order) = sort[Cardinality(Nodes)][h][list]
  BY DEF sort_list, D
<1> HIDE DEF sort
<1>9. \A n \in Nat : sort[n] = D(sort, n)
  BY <1>7
<1>10. \A n \in Nat : sort[n] \in X
  <2> DEFINE S == {n \in Nat : sort[n] \in X}
  <2>1. 0 \in S
    BY <1>2, <1>9, <1>c
  <2>2. ASSUME NEW n \in Nat, n \in S PROVE n + 1 \in S
    <3>1. n + 1 \in Nat /\ n + 1 # 0 /\ (n + 1) - 1 = n
      OBVIOUS
    <3>2. sort[n + 1] = Step(sort[n])
      BY <1>9, <1>d, <3>1
    <3> QED BY <1>1, <2>2, <3>1, <3>2
  <2> HIDE DEF S
  <2>3. \A n \in Nat : n \in S
    BY <2>1, <2>2, NatSetInduction
  <2> QED BY <2>3 DEF S
<1>11. Sorts(sort, order)
  <2>1. sort \in [Nat -> X]
    BY <1>7, <1>10
  <2>2. ASSUME NEW n \in Nat, NEW h \in Heaps, NEW list \in Pointers
        PROVE  sort[n][h][list] = IF InOrder(h, List(h, list), order) \/ n = 0
                          THEN [heap |-> h, list |-> list]
                          ELSE SortHalves(sort[n - 1], h, list, order)
    <3>1. CASE n = 0
      BY <1>9, <1>c, <3>1 DEF b
    <3>2. CASE n # 0
      <4>1. sort[n] = Step(sort[n - 1])
        BY <1>9, <1>d, <3>2
      <4> QED BY <3>2, <4>1 DEF Step
    <3> QED BY <3>1, <3>2
  <2> QED BY <2>1, <2>2 DEF Sorts, X
<1> QED BY <1>8, <1>11

(* The lists of at most n items that f sorts.                                  *)
SortsUpTo(f, n, order, w) ==
  /\ f \in [Heaps -> [Pointers -> SortedTo]]
  /\ \A h \in Heaps, s \in Seq(Nodes) :
       CanSort(h, order, w, s) /\ Len(s) <= n => \E t : SortedList(h, w, s, f[h][At(s, 1)], t)

(* A part of a list that can be sorted can be sorted.                         *)
LEMMA CanSortPart ==
  ASSUME NEW h, NEW order, NEW w, NEW s, CanSort(h, order, w, s),
         NEW h2 \in Heaps, NEW U, Frame(h, h2, U), NEW p \in Seq(Nodes), Injective(p), Links(h2, p),
         ToSet(p) \subseteq ToSet(s)
  PROVE  CanSort(h2, order, w, p)
<1>1. ToSet(p) \in SUBSET Nodes
  BY SeqFacts
<1>2. Weighs(h, ToSet(s), order, w)
  BY DEF CanSort
<1>3. Weighs(h2, ToSet(p), order, w)
  BY <1>1, <1>2, WeighsLater
<1> QED BY <1>3 DEF CanSort

(* If the halves are sorted the list is.                                      *)
LEMMA SortStep ==
  ASSUME NEW f, NEW n \in Nat, NEW order, NEW w, SortsUpTo(f, n, order, w),
         NEW h, NEW s, CanSort(h, order, w, s), Len(s) <= n + 1, ~InOrder(h, s, order)
  PROVE  \E t : SortedList(h, w, s, SortHalves(f, h, At(s, 1), order), t)
<1> DEFINE k == (Len(s) + 1) \div 2 + 1
           p == SubSeq(s, 1, k - 1)
           q == SubSeq(s, k, Len(s))
           h0 == split(h, s[k])
           list == At(s, 1)
           first == f[h0][list]
           second == f[first.heap][s[k]]
           r == SortHalves(f, h, list, order)
<1>1. /\ h \in Heaps /\ s \in Seq(Nodes) /\ Injective(s) /\ Links(h, s)
      /\ Weighs(h, ToSet(s), order, w) /\ w \in [Nodes -> Nat]
  BY DEF CanSort, Weighs
<1>2. List(h, list) = s
  BY <1>1, ListIs
<1>3. k \in 2 .. Len(s) /\ Len(s) \in Nat /\ DOMAIN s = 1 .. Len(s)
  BY <1>1, MiddleIndex, LenProperties
<1>4. Middle(h, list) = s[k]
  BY <1>2 DEF Middle
<1>5. r = [heap |-> merge(second.heap, first.list, second.list, order),
           list |-> IF Less(second.heap, first.list, second.list, order)
                    THEN first.list ELSE second.list]
  BY <1>4 DEF SortHalves
<1> HIDE DEF k, r
<1>6. /\ p \in Seq(Nodes) /\ Len(p) = k - 1 /\ q \in Seq(Nodes) /\ Len(q) = Len(s) - k + 1
      /\ ToSet(s) = ToSet(p) \cup ToSet(q) /\ ToSet(p) \cap ToSet(q) = {}
      /\ Injective(p) /\ Injective(q)
      /\ \A j \in Int : At(p, j) = IF j < k THEN At(s, j) ELSE NULL
      /\ \A j \in Int : At(q, j) = IF j >= 1 THEN At(s, k - 1 + j) ELSE NULL
  BY <1>1, <1>3, SplitFacts
<1>7. h0 \in Heaps /\ Links(h0, p) /\ Links(h0, q) /\ Frame(h, h0, ToSet(s))
  BY <1>1, <1>3, SplitLinks
<1> HIDE DEF p, q, h0
<1>8. At(p, 1) = list /\ At(q, 1) = s[k] /\ Len(p) # 0 /\ Len(q) # 0
  <2>1. At(p, 1) = list
    BY <1>3, <1>6
  <2>2. k - 1 + 1 = k /\ k \in DOMAIN s
    BY <1>3
  <2>3. At(q, 1) = At(s, k)
    BY <1>6, <2>2
  <2> QED BY <1>3, <1>6, <2>1, <2>2, <2>3 DEF At
<1>9. Len(p) <= n /\ Len(q) <= n
  BY <1>3, <1>6
<1> HIDE DEF list
<1>10. PICK t1 : SortedList(h0, w, p, first, t1)
  <2>1. CanSort(h0, order, w, p)
    BY <1>6, <1>7, CanSortPart
  <2> QED BY <1>6, <1>7, <1>8, <1>9, <2>1 DEF SortsUpTo
<1> HIDE DEF first
<1>11. /\ first \in SortedTo /\ t1 \in Seq(Nodes) /\ Injective(t1) /\ ToSet(t1) = ToSet(p)
       /\ Len(t1) = Len(p) /\ Links(first.heap, t1) /\ At(t1, 1) = first.list /\ Ordered(w, t1)
       /\ Frame(h0, first.heap, ToSet(p)) /\ first.heap \in Heaps
  BY <1>10 DEF SortedList, SortedTo
<1>12. Frame(h, first.heap, ToSet(s)) /\ Links(first.heap, q)
  <2>1. ToSet(p) \subseteq ToSet(s) /\ ToSet(q) \cap ToSet(p) = {}
    BY <1>6
  <2>2. Links(first.heap, q)
    BY <1>6, <1>7, <1>11, <2>1, LinksLater
  <2>3. Frame(h, first.heap, ToSet(s))
    BY <1>7, <1>11, <2>1, FrameFacts
  <2> QED BY <2>2, <2>3
<1>13. PICK t2 : SortedList(first.heap, w, q, second, t2)
  <2>1. CanSort(first.heap, order, w, q)
    BY <1>6, <1>11, <1>12, CanSortPart
  <2> QED BY <1>6, <1>8, <1>9, <1>11, <2>1 DEF SortsUpTo
<1> HIDE DEF second
<1>14. /\ second \in SortedTo /\ t2 \in Seq(Nodes) /\ Injective(t2) /\ ToSet(t2) = ToSet(q)
       /\ Len(t2) = Len(q) /\ Links(second.heap, t2) /\ At(t2, 1) = second.list /\ Ordered(w, t2)
       /\ Frame(first.heap, second.heap, ToSet(q)) /\ second.heap \in Heaps
  BY <1>13 DEF SortedList, SortedTo
<1>15. Frame(h, second.heap, ToSet(s)) /\ Links(second.heap, t1)
  <2>1. ToSet(q) \subseteq ToSet(s) /\ ToSet(t1) \cap ToSet(q) = {}
    BY <1>6, <1>11
  <2>2. Links(second.heap, t1)
    BY <1>11, <1>14, <2>1, LinksLater
  <2>3. Frame(h, second.heap, ToSet(s))
    BY <1>12, <1>14, <2>1, FrameFacts
  <2> QED BY <2>2, <2>3
<1>16. ToSet(t1) \cup ToSet(t2) = ToSet(s) /\ ToSet(s) \in SUBSET Nodes
  BY <1>1, <1>6, <1>11, <1>14, SeqFacts
<1>17. Weighs(second.heap, ToSet(t1) \cup ToSet(t2), order, w)
  <2>1. Weighs(second.heap, ToSet(s), order, w)
    BY <1>1, <1>15, <1>16, WeighsLater
  <2> QED BY <1>16, <2>1
<1>18. CanMerge(second.heap, order, w, t1, t2)
  <2>1. ToSet(t1) \cap ToSet(t2) = {}
    BY <1>6, <1>11, <1>14
  <2> QED BY <1>11, <1>14, <1>15, <1>17, <2>1 DEF CanMerge
<1>19. PICK u : Merged(second.heap, w, <<>>, t1, t2,
                       merge(second.heap, first.list, second.list, order), u)
  BY <1>11, <1>14, <1>18, MergeLists
<1> DEFINE g == merge(second.heap, first.list, second.list, order)
<1>e. Len(<<>>) = 0 /\ ToSet(<<>>) = {}
  BY EmptySeq DEF ToSet
<1>20. /\ g \in Heaps /\ u \in Seq(Nodes) /\ Injective(u) /\ Links(g, u) /\ Ordered(w, u)
       /\ Len(u) = 0 + Len(t1) + Len(t2)
       /\ ToSet(u) = ToSet(t1) \cup ToSet(t2) /\ Frame(second.heap, g, ToSet(u))
       /\ At(u, 1) = IF w[At(t1, 1)] < w[At(t2, 1)] THEN At(t1, 1) ELSE At(t2, 1)
  <2>1. Len(t1) # 0 /\ Len(t2) # 0
    BY <1>8, <1>11, <1>14
  <2> HIDE DEF g
  <2> QED BY <1>19, <1>e, <2>1 DEF Merged, g
<1> HIDE DEF g
<1>21. Less(second.heap, first.list, second.list, order) <=> w[first.list] < w[second.list]
  <2>1. ASSUME NEW t \in Seq(Nodes), Len(t) # 0 PROVE At(t, 1) \in ToSet(t)
    <3>1. Len(t) \in Nat /\ DOMAIN t = 1 .. Len(t) /\ 1 \in DOMAIN t
      BY <2>1, LenProperties
    <3> QED BY <3>1, SeqFacts
  <2>2. first.list \in ToSet(t1) /\ second.list \in ToSet(t2)
    BY <1>8, <1>11, <1>14, <2>1
  <2> QED BY <1>17, <2>2 DEF Weighs
<1>22. r.heap = g /\ r.list = At(u, 1) /\ r = [heap |-> g, list |-> At(u, 1)]
  <2>1. At(u, 1) = IF Less(second.heap, first.list, second.list, order)
                   THEN first.list ELSE second.list
    BY <1>11, <1>14, <1>20, <1>21
  <2> QED BY <1>5, <2>1 DEF g
<1>23. r \in SortedTo
  <2>1. At(u, 1) \in Pointers
    BY <1>20, SeqFacts
  <2> QED BY <1>20, <1>22, <2>1 DEF SortedTo
<1>24. Len(u) = Len(s)
  BY <1>3, <1>6, <1>11, <1>14, <1>20
<1>25. ToSet(u) = ToSet(s) /\ Frame(h, g, ToSet(s))
  <2>1. ToSet(u) = ToSet(s)
    BY <1>16, <1>20
  <2>2. Frame(second.heap, g, ToSet(s))
    BY <1>20, <2>1
  <2> QED BY <1>15, <2>1, <2>2, FrameFacts
<1>26. SortedList(h, w, s, r, u)
  BY <1>20, <1>22, <1>23, <1>24, <1>25 DEF SortedList
<1> QED BY <1>26 DEF r, list

(* By induction on the length.                                                *)
LEMMA SortAll ==
  ASSUME NEW order, NEW w, NEW sort, Sorts(sort, order)
  PROVE  \A n \in Nat : SortsUpTo(sort[n], n, order, w)
<1> DEFINE S == {n \in Nat : SortsUpTo(sort[n], n, order, w)}
<1>0. \A n \in Nat : sort[n] \in [Heaps -> [Pointers -> SortedTo]]
  BY DEF Sorts
<1>1. ASSUME NEW n \in Nat, NEW h, NEW s, CanSort(h, order, w, s),
             Len(s) <= n, n = 0 \/ InOrder(h, s, order)
      PROVE  \E t : SortedList(h, w, s, sort[n][h][At(s, 1)], t)
  <2>1. h \in Heaps /\ s \in Seq(Nodes) /\ Injective(s) /\ Links(h, s)
        /\ Weighs(h, ToSet(s), order, w)
    BY <1>1 DEF CanSort
  <2>2. List(h, At(s, 1)) = s /\ At(s, 1) \in Pointers
    BY <2>1, ListIs, SeqFacts
  <2>3. sort[n][h][At(s, 1)] = [heap |-> h, list |-> At(s, 1)]
    BY <1>1, <2>1, <2>2 DEF Sorts
  <2>4. Ordered(w, s)
    <3>1. CASE n = 0
      <4>1. Len(s) = 0 /\ DOMAIN s = 1 .. 0
        BY <1>1, <2>1, <3>1, LenProperties
      <4> QED BY <4>1 DEF Ordered
    <3>2. CASE InOrder(h, s, order)
      BY <2>1, <3>2, InOrderIsOrdered
    <3> QED BY <1>1, <3>1, <3>2
  <2> DEFINE r == [heap |-> h, list |-> At(s, 1)]
  <2>5. r \in SortedTo /\ r.heap = h /\ r.list = At(s, 1)
    BY <2>1, <2>2 DEF SortedTo
  <2> HIDE DEF r
  <2>6. SortedList(h, w, s, r, s)
    BY <2>1, <2>4, <2>5 DEF SortedList, Frame
  <2> QED BY <2>3, <2>6 DEF r
<1>2. 0 \in S
  <2>1. ASSUME NEW h \in Heaps, NEW s \in Seq(Nodes), CanSort(h, order, w, s), Len(s) <= 0
        PROVE  \E t : SortedList(h, w, s, sort[0][h][At(s, 1)], t)
    BY <1>1, <2>1
  <2> QED BY <1>0, <2>1 DEF SortsUpTo
<1>3. ASSUME NEW n \in Nat, n \in S PROVE n + 1 \in S
  <2>0. n + 1 \in Nat /\ n + 1 # 0 /\ (n + 1) - 1 = n
    OBVIOUS
  <2>1. ASSUME NEW h \in Heaps, NEW s \in Seq(Nodes), CanSort(h, order, w, s), Len(s) <= n + 1
        PROVE  \E t : SortedList(h, w, s, sort[n + 1][h][At(s, 1)], t)
    <3>1. CASE InOrder(h, s, order)
      BY <1>1, <2>0, <2>1, <3>1
    <3>2. CASE ~InOrder(h, s, order)
      <4>1. List(h, At(s, 1)) = s /\ At(s, 1) \in Pointers
        BY <2>1, ListIs, SeqFacts DEF CanSort
      <4>2. sort[n + 1][h][At(s, 1)] = SortHalves(sort[n], h, At(s, 1), order)
        BY <2>0, <2>1, <3>2, <4>1 DEF Sorts
      <4>3. SortsUpTo(sort[n], n, order, w)
        BY <1>3
      <4> QED BY <2>1, <3>2, <4>2, <4>3, SortStep
    <3> QED BY <3>1, <3>2
  <2> QED BY <1>0, <2>0, <2>1 DEF SortsUpTo
<1> HIDE DEF S
<1>4. \A n \in Nat : n \in S
  BY <1>2, <1>3, NatSetInduction
<1> QED BY <1>4 DEF S

(* sort_list returns the same items as one list in order.                     *)
LEMMA SortList ==
  ASSUME NEW h, NEW order, NEW w, NEW s, CanSort(h, order, w, s)
  PROVE  \E t : SortedList(h, w, s, sort_list(h, At(s, 1), order), t)
<1>1. PICK sort : /\ Sorts(sort, order)
                  /\ \A g \in Heaps, list \in Pointers :
                        sort_list(g, list, order) = sort[Cardinality(Nodes)][g][list]
  BY SortIs
<1>2. h \in Heaps /\ s \in Seq(Nodes) /\ Injective(s)
  BY DEF CanSort
<1>3. Cardinality(Nodes) \in Nat /\ Len(s) <= Cardinality(Nodes) /\ At(s, 1) \in Pointers
  BY <1>2, ItemAssumption, FS_CardinalityType, InjectiveLength, SeqFacts DEF ItemAssumption
<1>4. SortsUpTo(sort[Cardinality(Nodes)], Cardinality(Nodes), order, w)
  BY <1>1, <1>3, SortAll
<1> QED BY <1>1, <1>2, <1>3, <1>4 DEF SortsUpTo

(* sort_object.                                                                *)
Weight(h, order) == [x \in Nodes |-> IF h[x].string \in Keys THEN order[h[x].string] ELSE 0]

(* What sort_object does: the children of o in another order.                 *)
SortedChildren(h, l, ch, o, order, h2) ==
  \E t : /\ Represents(h2, l, [ch EXCEPT ![o] = t])
         /\ \A x \in Nodes : h2[x].string = h[x].string
         /\ t \in Seq(Nodes) /\ Len(t) = Len(ch[o]) /\ ToSet(t) = ToSet(ch[o])
         /\ \A i \in 1 .. Len(t) - 1 : order[h[t[i]].string] <= order[h[t[i + 1]].string]

(* sort_object keeps the children and the keys, and orders them.              *)
LEMMA SortObject ==
  ASSUME NEW h, NEW l, NEW ch, Represents(h, l, ch), NEW o \in l, o \in Objects,
         NEW order \in {Rank, Fold}
  PROVE  LET sorted == sort_list(h, h[o].child, order)
             h2 == Set(sorted.heap, o, "child", sorted.list) IN
         SortedChildren(h, l, ch, o, order, h2)
<1> DEFINE s == ch[o]
           w == Weight(h, order)
           r == sort_list(h, h[o].child, order)
           h2 == Set(r.heap, o, "child", r.list)
<1>1. /\ h \in Heaps /\ l \subseteq Nodes /\ o \in Nodes /\ ch \in [Nodes -> Seq(Nodes)]
      /\ s \in Seq(Nodes) /\ Injective(s) /\ Links(h, s) /\ h[o].child = At(s, 1)
      /\ ToSet(s) \subseteq l
  BY RepresentsFacts
<1>2. \A x \in ToSet(s) : h[x].string \in Keys /\ x \in Nodes
  BY <1>1 DEF Represents, MembersHaveKeys
<1>3. order \in [Keys -> Nat]
  BY ItemAssumption DEF ItemAssumption
<1>4. w \in [Nodes -> Nat] /\ \A x \in ToSet(s) : w[x] = order[h[x].string]
  BY <1>2, <1>3 DEF Weight
<1> HIDE DEF w
<1>5. CanSort(h, order, w, s)
  <2>1. Weighs(h, ToSet(s), order, w)
    BY <1>4 DEF Weighs, Less
  <2> QED BY <1>1, <2>1 DEF CanSort
<1>6. PICK t : SortedList(h, w, s, r, t)
  BY <1>1, <1>5, SortList
<1> HIDE DEF r
<1>7. /\ r \in SortedTo /\ t \in Seq(Nodes) /\ Injective(t) /\ ToSet(t) = ToSet(s)
           /\ Len(t) = Len(s)
      /\ Links(r.heap, t) /\ At(t, 1) = r.list /\ Ordered(w, t) /\ Frame(h, r.heap, ToSet(s))
      /\ r.heap \in Heaps /\ r.list \in Pointers
  BY <1>6 DEF SortedList, SortedTo
<1>8. /\ h2 \in Heaps
      /\ \A x \in Nodes : /\ h2[x].child = IF x = o THEN r.list ELSE r.heap[x].child
                          /\ h2[x].next = r.heap[x].next /\ h2[x].prev = r.heap[x].prev
                          /\ h2[x].string = r.heap[x].string
  <2>1. o \in Pointers
    BY <1>1, NULLFacts
  <2>2. PICK g, v : g = r.heap /\ v = r.list
    OBVIOUS
  <2>3. g \in Heaps /\ v \in Pointers /\ h2 = Set(g, o, "child", v)
    BY <1>7, <2>2
  <2> HIDE DEF h2
  <2>4. /\ Set(g, o, "child", v) \in Heaps
        /\ \A x \in Nodes :
             /\ Set(g, o, "child", v)[x].child = IF x = o THEN v ELSE g[x].child
             /\ Set(g, o, "child", v)[x].next = g[x].next
             /\ Set(g, o, "child", v)[x].prev = g[x].prev
             /\ Set(g, o, "child", v)[x].string = g[x].string
    BY <2>1, <2>3, SetChild
  <2> QED BY <2>2, <2>3, <2>4
<1> HIDE DEF h2
<1>9. /\ \A x \in Nodes : h2[x].string = h[x].string
      /\ \A x \in Nodes : h2[x].child = IF x = o THEN At(t, 1) ELSE h[x].child
      /\ \A x \in Nodes : x \notin ToSet(s) => h2[x].next = h[x].next /\ h2[x].prev = h[x].prev
  BY <1>7, <1>8 DEF Frame
<1>10. Links(h2, t)
  <2>1. \A i \in DOMAIN t : t[i] \in Nodes
    BY <1>7, SeqFacts
  <2> QED BY <1>7, <1>8, <2>1 DEF Links
<1> DEFINE c == [ch EXCEPT ![o] = t]
<1>11. \A n \in Nodes : ToSet(c[n]) = ToSet(ch[n])
  BY <1>1, <1>7
<1> HIDE DEF c, s
<1>12. Acyclic(c)
  <2>1. Acyclic(ch)
    BY DEF Represents
  <2> QED BY <1>11, <2>1, AcyclicLess
<1>13. MembersHaveKeys(h2, c)
  <2>1. MembersHaveKeys(h, ch) /\ Objects \subseteq Nodes
    BY ItemAssumption DEF Represents, ItemAssumption
  <2>2. ASSUME NEW p \in Objects, NEW x \in ToSet(c[p]) PROVE h2[x].string \in Keys
    <3>1. x \in ToSet(ch[p]) /\ p \in Nodes
      BY <1>11, <2>1, <2>2
    <3>2. x \in Nodes
      BY <3>1, RepresentsFacts
    <3> QED BY <1>9, <2>1, <3>1, <3>2 DEF MembersHaveKeys
  <2> QED BY <2>2 DEF MembersHaveKeys
<1>14. \A n \in Nodes \ l : h2[n].string = NULL
  BY <1>9 DEF Represents
<1>15. Relists(h, l, ch, o, t, h2)
  BY <1>1, <1>7, <1>8, <1>9, <1>10, <1>12, <1>13, <1>14 DEF Relists, s, c
<1>16. Represents(h2, l, c)
  BY <1>15, Relist DEF c
<1>17. ASSUME NEW i \in 1 .. Len(t) - 1
       PROVE  order[h[t[i]].string] <= order[h[t[i + 1]].string]
  <2>1. Len(t) \in Nat /\ DOMAIN t = 1 .. Len(t)
    BY <1>7, LenProperties
  <2>2. i \in DOMAIN t /\ i + 1 \in DOMAIN t /\ i < i + 1
    BY <2>1
  <2>3. w[t[i]] <= w[t[i + 1]] /\ t[i] \in ToSet(s) /\ t[i + 1] \in ToSet(s)
    <3>1. w[t[i]] <= w[t[i + 1]]
      BY <1>7, <2>2 DEF Ordered
    <3>2. t[i] \in ToSet(t) /\ t[i + 1] \in ToSet(t)
      BY <2>2 DEF ToSet
    <3> QED BY <1>7, <3>1, <3>2
  <2> QED BY <1>4, <2>3
<1> QED BY <1>7, <1>9, <1>16, <1>17 DEF c, s, h2, r, SortedChildren

-----------------------------------------------------------------------------
(* The invariant and the refinement.                                          *)

(* The refinement: the sequences of children and the keys.                    *)
kids == [n \in Nodes |-> ChildrenOf(heap, n)]
keys == [n \in Nodes |-> heap[n].string]

(* The inductive invariant: the memory holds these lists, in trees.           *)
IInv == Represents(heap, live, kids)

(* The lists that are represented are the children.                           *)
LEMMA KidsOf ==
  ASSUME NEW h, NEW l, NEW ch, Represents(h, l, ch)
  PROVE  [n \in Nodes |-> ChildrenOf(h, n)] = ch
<1>1. ch \in [Nodes -> Seq(Nodes)]
  BY RepresentsFacts
<1>2. \A n \in Nodes : ChildrenOf(h, n) = ch[n]
  BY ChildrenAre
<1> QED BY <1>1, <1>2

(* A step to a heap that represents ch has the children ch after it.          *)
LEMMA Reaches ==
  ASSUME NEW ch, Represents(heap', live', ch)
  PROVE  IInv' /\ kids' = ch
<1>1. [n \in Nodes |-> ChildrenOf(heap', n)] = ch
  BY KidsOf
<1> QED BY <1>1 DEF IInv, kids

(* The operators of the library in JsonTree are those of cJSON.               *)
LEMMA TreeToSet == \A s : Tree!ToSet(s) = ToSet(s)
BY DEF Tree!ToSet, ToSet
LEMMA TreeContains == \A s, e : Tree!Contains(s, e) = Contains(s, e)
BY DEF Tree!Contains, Contains
LEMMA TreeInsertAt == \A s, i, n : Tree!InsertAt(s, i, n) = InsertAt(s, i, n)
BY DEF Tree!InsertAt, InsertAt
LEMMA TreeRemoveAt == \A s, i : Tree!RemoveAt(s, i) = RemoveAt(s, i)
BY DEF Tree!RemoveAt, RemoveAt
LEMMA TreeReplaceAt == \A s, i, n : Tree!ReplaceAt(s, i, n) = ReplaceAt(s, i, n)
BY DEF Tree!ReplaceAt, ReplaceAt
LEMMA TreeRange == \A s : Tree!Range(s) = Range(s)
BY DEF Tree!Range, Range
LEMMA TreeIsInjective == \A s : Tree!IsInjective(s) = IsInjective(s)
BY DEF Tree!IsInjective, IsInjective
LEMMA TreeBoundedSeq == \A S, n : Tree!BoundedSeq(S, n) = BoundedSeq(S, n)
BY DEF Tree!BoundedSeq, BoundedSeq, Tree!SeqOf, SeqOf

(* What JsonTree calls the subtree of an item, along the children here.       *)
LEMMA TreeSubtree == \A n : Tree!Subtree(n) = Below(Kids(kids), n)
BY TreeToSet, Zenon DEF Tree!Subtree, Kids, kids, Tree!Below, Below

LEMMA TreeMember ==
  \A o, k, order : Tree!Member(o, k, order)
     = SelectInSeq(kids[o], LAMBDA n : order[keys[n]] = order[k])
BY DEF Tree!Member, kids, keys, Tree!SelectInSeq, SelectInSeq, Tree!Min, Min

LEMMA TreeDetached ==
  \A n : Tree!Detached(n) <=> n \in live /\ \A m \in live : ~Contains(kids[m], n)
BY TreeContains DEF Tree!Detached, kids

(* What is used of the invariant.                                             *)
LEMMA InvFacts ==
  ASSUME IInv
  PROVE  /\ Represents(heap, live, kids)
         /\ heap \in Heaps /\ live \subseteq Nodes /\ kids \in [Nodes -> Seq(Nodes)]
         /\ \A n \in Nodes : ChildrenOf(heap, n) = kids[n] /\ keys[n] = heap[n].string
         /\ DOMAIN keys = Nodes /\ keys = [n \in Nodes |-> keys[n]]
<1>1. Represents(heap, live, kids)
  BY DEF IInv
<1>2. heap \in Heaps /\ live \subseteq Nodes /\ kids \in [Nodes -> Seq(Nodes)]
  BY <1>1, RepresentsFacts
<1> QED BY <1>1, <1>2 DEF kids, keys

(* An element is contained where it is in the set.                            *)
LEMMA ContainsIs ==
  ASSUME NEW s \in Seq(Nodes), NEW n
  PROVE  Contains(s, n) <=> n \in ToSet(s)
<1>1. DOMAIN s = 1 .. Len(s)
  BY SeqFacts
<1> QED BY <1>1 DEF Contains, ToSet

(* An item that the caller owns is in no list.                                *)
LEMMA DetachedFacts ==
  ASSUME IInv, NEW n, Detached(n)
  PROVE  /\ n \in live /\ n \in Nodes /\ InNone(kids, n) /\ Tree!Detached(n)
         /\ Reached(heap, n) = Below(Kids(kids), n)
<1>1. n \in live /\ \A m \in live : ~Contains(ChildrenOf(heap, m), n)
  BY DEF Detached
<1>2. /\ n \in Nodes /\ \A m \in Nodes : ChildrenOf(heap, m) = kids[m] /\ kids[m] \in Seq(Nodes)
      /\ live \subseteq Nodes
  BY <1>1, InvFacts
<1>3. InNone(kids, n)
  <2>1. ASSUME NEW m \in Nodes, n \in ToSet(kids[m]) PROVE FALSE
    <3>1. CASE m \in live
      BY <1>1, <1>2, <2>1, <3>1, ContainsIs
    <3>2. CASE m \notin live
      <4>1. kids[m] = <<>>
        BY <3>2, InvFacts DEF Represents
      <4> QED BY <2>1, <4>1, Empty DEF EmptyFacts
    <3> QED BY <3>1, <3>2
  <2> QED BY <2>1 DEF InNone
<1>4. Tree!Detached(n)
  BY <1>1, <1>2, TreeDetached
<1>5. Reached(heap, n) = Below(Kids(kids), n)
  <2>1. Represents(heap, live, kids)
    BY InvFacts
  <2> QED BY <1>2, <1>3, <2>1, ReachedIsBelow
<1> QED BY <1>1, <1>2, <1>3, <1>4, <1>5

(* A list into which the caller may put it is no part of it.                  *)
LEMMA MayPutFacts ==
  ASSUME IInv, NEW a, NEW n, MayPut(a, n)
  PROVE  /\ a \in live /\ a \in Nodes /\ Tree!Detached(n) /\ a \in live \ Tree!Subtree(n)
         /\ n \in live /\ n \in Nodes /\ InNone(kids, n) /\ a \notin Below(Kids(kids), n)
         /\ (a \in Objects => heap[n].string \in Keys) => Attachable(heap, live, kids, a, n)
<1>1. Detached(n) /\ a \in live \ Reached(heap, n)
  BY DEF MayPut
<1>2. /\ n \in live /\ n \in Nodes /\ InNone(kids, n) /\ Tree!Detached(n)
      /\ Reached(heap, n) = Below(Kids(kids), n)
  BY <1>1, DetachedFacts
<1>3. a \in live /\ a \in Nodes /\ a \notin Below(Kids(kids), n) /\ a \in live \ Tree!Subtree(n)
  BY <1>1, <1>2, InvFacts, TreeSubtree
<1> QED BY <1>2, <1>3, InvFacts DEF Attachable

(* get_array_item finds the element with the index, counted from 0.           *)
LEMMA GetItem ==
  ASSUME IInv, NEW a \in Nodes, NEW i \in Int
  PROVE  get_array_item(heap, a, i) = At(kids[a], i + 1)
<1>1. ChildrenOf(heap, a) = kids[a] /\ kids[a] \in Seq(Nodes)
  BY InvFacts
<1>2. DOMAIN kids[a] = 1 .. Len(kids[a]) /\ Len(kids[a]) \in Nat
  BY <1>1, SeqFacts
<1>3. i \in 0 .. Len(kids[a]) - 1 <=> i + 1 \in DOMAIN kids[a]
  BY <1>2
<1> QED BY <1>1, <1>3 DEF get_array_item, At

(* There is a least element (WFMin is proved by induction).                   *)
LEMMA LeastNat ==
  ASSUME NEW S \in SUBSET Nat, S # {}
  PROVE  Min(S) \in S /\ \A m \in S : Min(S) <= m
<1> DEFINE R == OpToRel(<, Nat)
<1>1. \A x, y \in Nat : <<x, y>> \in R <=> x < y
  BY DEF OpToRel
<1>2. IsWellFoundedOn(R, Nat)
  BY NatLessThanWellFounded
<1> HIDE DEF R
<1>3. PICK n \in S : \A y \in S : ~ (<<y, n>> \in R)
  BY <1>2, WFMin
<1>4. n \in S /\ \A m \in S : n <= m
  <2>1. ASSUME NEW m \in S PROVE n <= m
    <3>1. m \in Nat /\ n \in Nat /\ ~ (<<m, n>> \in R)
      BY <1>3
    <3> QED BY <1>1, <3>1
  <2> QED BY <2>1
<1>5. \E x \in S : \A y \in S : x <= y
  BY <1>4
<1> QED BY <1>5 DEF Min

(* get_object_item finds the member that JsonTree finds.                      *)
LEMMA GetMember ==
  ASSUME IInv, NEW o \in Nodes, NEW k, NEW order
  PROVE  /\ Tree!Member(o, k, order) \in 0 .. Len(kids[o])
         /\ get_object_item(heap, o, k, order) = At(kids[o], Tree!Member(o, k, order))
<1> DEFINE s == kids[o]
           I == {i \in 1 .. Len(s) : order[heap[s[i]].string] = order[k]}
<1>1. ChildrenOf(heap, o) = s /\ s \in Seq(Nodes)
  BY InvFacts
<1>2. DOMAIN s = 1 .. Len(s) /\ Len(s) \in Nat /\ \A i \in 1 .. Len(s) : s[i] \in Nodes
  BY <1>1, SeqFacts
<1>3. I = {i \in 1 .. Len(s) : order[keys[s[i]]] = order[k]}
  BY <1>2, InvFacts
<1>4. Tree!Member(o, k, order) = IF I # {} THEN Min(I) ELSE 0
  BY <1>3, TreeMember DEF SelectInSeq
<1>5. get_object_item(heap, o, k, order)
        = LET i == IF I # {} THEN Min(I) ELSE 0 IN IF i = 0 THEN NULL ELSE s[i]
  BY <1>1 DEF get_object_item, SelectInSeq
<1>6. I # {} => Min(I) \in 1 .. Len(s)
  <2>1. I \in SUBSET Nat
    BY <1>2
  <2>2. \A i \in I : i \in 1 .. Len(s)
    OBVIOUS
  <2> HIDE DEF I
  <2> QED BY <2>1, <2>2, LeastNat
<1> HIDE DEF I, s
<1> QED BY <1>2, <1>4, <1>5, <1>6 DEF At, s

-----------------------------------------------------------------------------
(* The steps.                                                                 *)

(* The steps: each keeps IInv, and is the step of JsonTree with that name.    *)
LEMMA InsertStep ==
  ASSUME IInv, NEW a, NEW n, MayPut(a, n), NEW k, NEW h,
         Attaches(h, live, kids, a, k, n, heap'), live' = live
  PROVE  /\ IInv' /\ Tree!Insert(a, k, n)
         /\ \A x \in Nodes : heap'[x].string = h[x].string
<1>1. Represents(heap', live', [kids EXCEPT ![a] = InsertAt(kids[a], k, n)])
  BY Attach
<1>2. IInv' /\ kids' = [kids EXCEPT ![a] = InsertAt(kids[a], k, n)]
  BY <1>1, Reaches
<1>3. Tree!Detached(n) /\ a \in live \ Tree!Subtree(n)
  BY MayPutFacts
<1>4. Tree!Insert(a, k, n)
  BY <1>2, <1>3, TreeInsertAt DEF Tree!Insert, kids
<1> QED BY <1>2, <1>4 DEF Attaches

(* No key changes.                                                            *)
LEMMA KeysStay ==
  ASSUME \A x \in Nodes : heap'[x].string = heap[x].string
  PROVE  keys' = keys
<1>1. [n \in Nodes |-> heap'[n].string] = [n \in Nodes |-> heap[n].string]
  OBVIOUS
<1> QED BY <1>1 DEF keys

(* cJSON_New_Item finds memory that is in no list.                            *)
LEMMA CreateStep ==
  ASSUME IInv, NEW n \in Nodes, Create(n)
  PROVE  IInv' /\ Tree!Next
<1>1. /\ n \notin live /\ live' = live \cup {n} /\ heap' = [heap EXCEPT ![n] = Zeroed]
      /\ call' = <<"Create", n>>
  BY DEF Create, New_Item
<1>2. Represents(heap, live, kids) /\ heap \in Heaps
  BY InvFacts
<1> DEFINE W == {n}
<1>3. W \in SUBSET Nodes /\ W \cap live = {} /\ live' = live \cup W
  BY <1>1
<1>4. heap' = Renewed(heap, W)
  BY <1>1, <1>2 DEF Heaps, Renewed
<1> HIDE DEF W
<1>5. Represents(heap', live', kids) /\ \A x \in Nodes : heap'[x].string = heap[x].string
  BY <1>2, <1>3, <1>4, NewItems
<1>6. IInv' /\ kids' = kids /\ keys' = keys
  BY <1>5, Reaches, KeysStay
<1>7. Tree!Create(n)
  BY <1>1, <1>6 DEF Tree!Create, kids, keys
<1> QED BY <1>1, <1>6, <1>7 DEF Tree!Next

(* cJSON_Delete frees the subtree of JsonTree and nothing else.               *)
LEMMA DeleteStep ==
  ASSUME IInv, NEW n \in Nodes, Delete(n)
  PROVE  IInv' /\ Tree!Next
<1> DEFINE S == Reached(heap, n)
<1>1. Detached(n) /\ live' = live \ S /\ heap' = Free(heap, S) /\ call' = <<"Delete", n>>
  BY DEF Delete
<1>2. n \in live /\ InNone(kids, n) /\ Tree!Detached(n) /\ Represents(heap, live, kids)
  BY <1>1, DetachedFacts, InvFacts
<1>3. /\ S = Below(Kids(kids), n)
      /\ Represents(heap', live', Emptied(kids, S))
      /\ \A x \in Nodes : heap'[x].string = IF x \in S THEN NULL ELSE heap[x].string
  BY <1>1, <1>2, FreeTree
<1>4. S = Tree!Subtree(n)
  BY <1>3, TreeSubtree
<1> HIDE DEF S
<1>5. IInv' /\ kids' = Emptied(kids, S)
  BY <1>3, Reaches
<1>6. keys' = [x \in Nodes |-> IF x \in S THEN NULL ELSE keys[x]]
  BY <1>3 DEF keys
<1>7. Tree!Delete(n)
  BY <1>1, <1>2, <1>4, <1>5, <1>6 DEF Tree!Delete, Tree!Free, Tree!FreeKeys, Emptied, kids, keys
<1> QED BY <1>1, <1>5, <1>7 DEF Tree!Next

(* The item comes last.                                                       *)
LEMMA AddItemToArrayStep ==
  ASSUME IInv, NEW a \in Arrays, NEW n \in Nodes, AddItemToArray(a, n)
  PROVE  IInv' /\ Tree!Next
<1>1. /\ MayPut(a, n) /\ heap' = add_item_to_array(heap, a, n)
      /\ call' = <<"AddItemToArray", a, n>> /\ live' = live
  BY DEF AddItemToArray
<1>2. Attachable(heap, live, kids, a, n)
  BY <1>1, MayPutFacts DEF Arrays
<1>3. Attaches(heap, live, kids, a, Len(kids[a]) + 1, n, heap')
  BY <1>1, <1>2, AddItem
<1>4. IInv' /\ Tree!Insert(a, Len(kids[a]) + 1, n) /\ keys' = keys
  <2>1. /\ IInv' /\ Tree!Insert(a, Len(kids[a]) + 1, n)
        /\ \A x \in Nodes : heap'[x].string = heap[x].string
    BY <1>1, <1>3, InsertStep
  <2> QED BY <2>1, KeysStay
<1> QED BY <1>1, <1>4 DEF Tree!Next, Tree!Arrays, Arrays, kids, keys

(* An index past the end appends.                                             *)
LEMMA InsertAtIndex ==
  ASSUME IInv, NEW a \in Arrays, NEW i \in Nat, NEW n, MayPut(a, n),
         heap' = LET after == get_array_item(heap, a, i) IN
                 IF after = NULL THEN add_item_to_array(heap, a, n)
                 ELSE InsertBefore(heap, a, after, n),
         live' = live
  PROVE  /\ IInv' /\ Tree!Insert(a, Tree!Least(i, Len(kids[a])) + 1, n) /\ keys' = keys
<1> DEFINE s == kids[a]
           k == Tree!Least(i, Len(s)) + 1
<1>1. Attachable(heap, live, kids, a, n) /\ a \in Nodes
  BY MayPutFacts DEF Arrays
<1>2. get_array_item(heap, a, i) = At(s, i + 1)
  BY <1>1, GetItem
<1>3. s \in Seq(Nodes) /\ Len(s) \in Nat /\ DOMAIN s = 1 .. Len(s)
  BY <1>1, InvFacts, SeqFacts
<1>4. NULL \notin Nodes
  BY NULLFacts
<1>5. Attaches(heap, live, kids, a, k, n, heap')
  <2>1. CASE i < Len(s)
    <3>1. k = i + 1 /\ k \in DOMAIN s
      BY <1>3, <2>1 DEF Tree!Least
    <3>2. At(s, i + 1) = s[k] /\ s[k] # NULL
      BY <1>3, <1>4, <3>1, SeqFacts
    <3>3. heap' = InsertBefore(heap, a, s[k], n)
      BY <1>2, <3>2
    <3> HIDE DEF k
    <3> QED BY <1>1, <3>1, <3>3, InsertItem
  <2>2. CASE ~(i < Len(s))
    <3>1. k = Len(s) + 1 /\ i + 1 \notin DOMAIN s
      BY <1>3, <2>2 DEF Tree!Least
    <3>2. heap' = add_item_to_array(heap, a, n)
      BY <1>2, <3>1 DEF At
    <3> QED BY <1>1, <3>1, <3>2, AddItem
  <2> QED BY <2>1, <2>2
<1>6. /\ IInv' /\ Tree!Insert(a, k, n)
      /\ \A x \in Nodes : heap'[x].string = heap[x].string
  <2> HIDE DEF k
  <2> QED BY <1>5, InsertStep
<1> QED BY <1>6, KeysStay

(* cJSON_InsertItemInArray.                                                   *)
LEMMA InsertItemInArrayStep ==
  ASSUME IInv, NEW a \in Arrays, NEW i \in Indexes, NEW n \in Nodes, InsertItemInArray(a, i, n)
  PROVE  IInv' /\ Tree!Next
<1>1. /\ MayPut(a, n) /\ i >= 0 /\ live' = live /\ call' = <<"InsertItemInArray", a, i, n>>
      /\ heap' = LET after == get_array_item(heap, a, i) IN
                 IF after = NULL THEN add_item_to_array(heap, a, n)
                 ELSE InsertBefore(heap, a, after, n)
  BY DEF InsertItemInArray
<1>2. i \in Nat
  BY <1>1, ItemAssumption DEF ItemAssumption
<1>3. IInv' /\ Tree!Insert(a, Tree!Least(i, Len(kids[a])) + 1, n) /\ keys' = keys
  BY <1>1, <1>2, InsertAtIndex
<1> QED BY <1>1, <1>3 DEF Tree!Next, Tree!Arrays, Arrays, kids, keys

(* The same in cJSON_Utils, where an index past the end is refused.           *)
LEMMA insert_item_in_arrayStep ==
  ASSUME IInv, NEW a \in Arrays, NEW i \in Indexes, NEW n \in Nodes, insert_item_in_array(a, i, n)
  PROVE  IInv' /\ Tree!Next
<1>1. /\ MayPut(a, n) /\ live' = live /\ call' = <<"insert_item_in_array", a, i, n>>
      /\ i \in 0 .. Len(ChildrenOf(heap, a))
      /\ heap' = LET after == get_array_item(heap, a, i) IN
                 IF after = NULL THEN add_item_to_array(heap, a, n)
                 ELSE InsertBefore(heap, a, after, n)
  BY DEF insert_item_in_array
<1>2. ChildrenOf(heap, a) = kids[a] /\ Len(kids[a]) \in Nat
  BY InvFacts, SeqFacts DEF Arrays
<1>3. i \in Nat /\ i \in 0 .. Len(kids[a]) /\ Tree!Least(i, Len(kids[a])) = i
  BY <1>1, <1>2 DEF Tree!Least
<1>4. IInv' /\ Tree!Insert(a, Tree!Least(i, Len(kids[a])) + 1, n) /\ keys' = keys
  BY <1>1, <1>3, InsertAtIndex
<1>5. Tree!Insert(a, i + 1, n)
  BY <1>3, <1>4
<1> QED BY <1>1, <1>3, <1>4, <1>5 DEF Tree!Next, Tree!Arrays, Arrays, kids, keys

(* An index or a key that is not there changes nothing.                       *)
LEMMA DetachAt ==
  ASSUME IInv, NEW a \in live, NEW k \in Int, NEW item, item = At(kids[a], k),
         heap' = IF item = NULL THEN heap ELSE DetachItemViaPointer(heap, a, item),
         live' = live
  PROVE  IInv' /\ Tree!Detach(a, k)
<1>1. /\ Represents(heap, live, kids) /\ a \in Nodes /\ kids[a] \in Seq(Nodes)
      /\ kids \in [Nodes -> Seq(Nodes)]
  BY InvFacts
<1>2. CASE k \in DOMAIN kids[a]
  <2>1. item = kids[a][k] /\ item # NULL
    BY <1>1, <1>2, SeqFacts
  <2>2. heap' = DetachItemViaPointer(heap, a, kids[a][k])
    BY <2>1
  <2>3. /\ Represents(heap', live', [kids EXCEPT ![a] = RemoveAt(kids[a], k)])
        /\ \A x \in Nodes : heap'[x].string = heap[x].string
    <3>1. PICK g : g = DetachItemViaPointer(heap, a, kids[a][k])
      OBVIOUS
    <3>2. Represents(g, live, [kids EXCEPT ![a] = RemoveAt(kids[a], k)]) /\ SameKeys(heap, g)
      BY <1>1, <1>2, <3>1, DetachItem
    <3> QED BY <2>2, <3>1, <3>2 DEF SameKeys
  <2>4. IInv' /\ kids' = [kids EXCEPT ![a] = RemoveAt(kids[a], k)] /\ keys' = keys
    BY <2>3, Reaches, KeysStay
  <2> QED BY <1>2, <2>4, TreeRemoveAt DEF Tree!Detach, kids, keys
<1>3. CASE k \notin DOMAIN kids[a]
  <2>1. heap' = heap
    BY <1>3 DEF At
  <2>2. kids' = kids /\ keys' = keys /\ IInv'
    BY <1>1, <2>1 DEF kids, keys, IInv
  <2> QED BY <1>3, <2>2 DEF Tree!Detach, kids, keys
<1> QED BY <1>2, <1>3

(* By index.                                                                  *)
LEMMA DetachItemFromArrayStep ==
  ASSUME IInv, NEW a \in Arrays, NEW i \in Indexes, DetachItemFromArray(a, i)
  PROVE  IInv' /\ Tree!Next
<1>1. /\ a \in live /\ live' = live /\ call' = <<"DetachItemFromArray", a, i>>
      /\ heap' = LET item == get_array_item(heap, a, i) IN
                 IF item = NULL THEN heap ELSE DetachItemViaPointer(heap, a, item)
  BY DEF DetachItemFromArray
<1>2. i \in Int /\ i + 1 \in Int
  BY ItemAssumption DEF ItemAssumption
<1>3. get_array_item(heap, a, i) = At(kids[a], i + 1)
  BY <1>2, GetItem DEF Arrays
<1>4. IInv' /\ Tree!Detach(a, i + 1)
  BY <1>1, <1>2, <1>3, DetachAt
<1> QED BY <1>1, <1>4 DEF Tree!Next, Tree!Arrays, Arrays

(* By key, in either order.                                                   *)
LEMMA DetachItemFromObjectStep ==
  ASSUME IInv, NEW o \in Objects, NEW k \in Keys, NEW order \in {Rank, Fold},
         DetachItemFromObject(o, k, order)
  PROVE  IInv' /\ Tree!Next
<1>1. /\ o \in live /\ live' = live /\ call' = <<"DetachItemFromObject", o, k, order>>
      /\ heap' = LET item == get_object_item(heap, o, k, order) IN
                 IF item = NULL THEN heap ELSE DetachItemViaPointer(heap, o, item)
  BY DEF DetachItemFromObject
<1>2. o \in Nodes /\ Len(kids[o]) \in Nat
  BY ItemAssumption, InvFacts, SeqFacts DEF ItemAssumption
<1>3. /\ Tree!Member(o, k, order) \in Int
      /\ get_object_item(heap, o, k, order) = At(kids[o], Tree!Member(o, k, order))
  BY <1>2, GetMember
<1>4. IInv' /\ Tree!Detach(o, Tree!Member(o, k, order))
  BY <1>1, <1>3, DetachAt
<1> QED BY <1>1, <1>4 DEF Tree!Next

(* One item has another key.                                                  *)
LEMMA KeyIsSet ==
  ASSUME IInv, NEW n \in Nodes, NEW k,
         \A x \in Nodes : heap'[x].string = IF x = n THEN k ELSE heap[x].string
  PROVE  keys' = Tree!Renamed(n, k)
<1>1. [x \in Nodes |-> heap'[x].string] = [[x \in Nodes |-> heap[x].string] EXCEPT ![n] = k]
  OBVIOUS
<1> QED BY <1>1 DEF keys, Tree!Renamed

(* The item gets its key before it is added.                                  *)
LEMMA AddItemToObjectStep ==
  ASSUME IInv, NEW o \in Objects, NEW n \in Nodes, NEW k \in Keys, AddItemToObject(o, k, n)
  PROVE  IInv' /\ Tree!Next
<1>1. /\ MayPut(o, n) /\ heap' = add_item_to_array(Set(heap, n, "string", k), o, n)
      /\ call' = <<"AddItemToObject", o, k, n>> /\ live' = live
  BY DEF AddItemToObject, add_item_to_object
<1>2. PICK h : h = Set(heap, n, "string", k)
  OBVIOUS
<1>3. /\ o \in live /\ n \in live /\ InNone(kids, n) /\ o \notin Below(Kids(kids), n)
      /\ Represents(heap, live, kids)
  BY <1>1, MayPutFacts, InvFacts
<1>4. Represents(h, live, kids) /\ \A x \in Nodes : h[x].string = IF x = n THEN k
      ELSE heap[x].string
  BY <1>2, <1>3, Rename
<1>5. Attachable(h, live, kids, o, n)
  BY <1>3, <1>4 DEF Attachable
<1>6. Attaches(h, live, kids, o, Len(kids[o]) + 1, n, heap')
  BY <1>1, <1>2, <1>5, AddItem
<1>7. /\ IInv' /\ Tree!Insert(o, Len(kids[o]) + 1, n)
      /\ \A x \in Nodes : heap'[x].string = h[x].string
  BY <1>1, <1>6, InsertStep
<1>8. keys' = Tree!Renamed(n, k)
  BY <1>4, <1>7, KeyIsSet
<1> QED BY <1>1, <1>7, <1>8 DEF Tree!Next, kids, keys

(* A new item is below nothing, so the object is not below it.                *)
LEMMA AddNewToObjectStep ==
  ASSUME IInv, NEW o \in Objects, NEW n \in Nodes, NEW k \in Keys, AddNewToObject(o, k, n)
  PROVE  IInv' /\ Tree!Next
<1>1. /\ n \notin live /\ o \in live /\ live' = live \cup {n}
      /\ heap' = add_item_to_array(Set([heap EXCEPT ![n] = Zeroed], n, "string", k), o, n)
      /\ call' = <<"AddNewToObject", o, k, n>>
  BY DEF AddNewToObject, add_item_to_object
<1>2. /\ Represents(heap, live, kids) /\ heap \in Heaps /\ live \subseteq Nodes
      /\ kids \in [Nodes -> Seq(Nodes)] /\ o \in Nodes /\ o # n
      /\ kids[n] = <<>> /\ InNone(kids, n)
  <2>1. Represents(heap, live, kids) /\ heap \in Heaps /\ live \subseteq Nodes
        /\ kids \in [Nodes -> Seq(Nodes)]
    BY InvFacts
  <2>2. kids[n] = <<>> /\ \A m \in Nodes : ToSet(kids[m]) \subseteq live
    BY <1>1, <2>1 DEF Represents
  <2> QED BY <1>1, <2>1, <2>2 DEF InNone
<1> DEFINE W == {n}
<1>3. W \in SUBSET Nodes /\ W \cap live = {} /\ live' = live \cup W
  BY <1>1
<1>4. [heap EXCEPT ![n] = Zeroed] = Renewed(heap, W)
  BY <1>2 DEF Heaps, Renewed
<1> HIDE DEF W
<1>5. PICK g : g = Renewed(heap, W)
  OBVIOUS
<1>6. Represents(g, live', kids) /\ \A x \in Nodes : g[x].string = heap[x].string
  BY <1>2, <1>3, <1>5, NewItems
<1>7. PICK h : h = Set(g, n, "string", k)
  OBVIOUS
<1>8. n \in live' /\ o \in live'
  BY <1>1
<1>9. Represents(h, live', kids) /\ \A x \in Nodes : h[x].string = IF x = n THEN k ELSE g[x].string
  BY <1>6, <1>7, <1>8, Rename
<1>10. o \notin Below(Kids(kids), n)
  <2>1. Below(Kids(kids), n) = {n}
    BY <1>2, LeafBelow
  <2> QED BY <1>2, <2>1
<1>11. Attachable(h, live', kids, o, n)
  BY <1>2, <1>8, <1>9, <1>10 DEF Attachable
<1>12. heap' = add_item_to_array(h, o, n)
  BY <1>1, <1>4, <1>5, <1>7
<1>13. Attaches(h, live', kids, o, Len(kids[o]) + 1, n, heap')
  BY <1>11, <1>12, AddItem
<1>14. Represents(heap', live', [kids EXCEPT ![o] = InsertAt(kids[o], Len(kids[o]) + 1, n)])
  BY <1>13, Attach
<1>15. InsertAt(kids[o], Len(kids[o]) + 1, n) = Append(kids[o], n)
  BY <1>2, InsertLast
<1>16. IInv' /\ kids' = [kids EXCEPT ![o] = Append(kids[o], n)]
  BY <1>14, <1>15, Reaches
<1>17. keys' = Tree!Renamed(n, k)
  <2>1. \A x \in Nodes : heap'[x].string = h[x].string
    BY <1>13 DEF Attaches
  <2> QED BY <1>6, <1>9, <2>1, KeyIsSet
<1> QED BY <1>1, <1>16, <1>17 DEF Tree!Next, kids, keys

(* The array and its items are new and so in no list.                         *)
LEMMA CreateArrayOfStep ==
  ASSUME IInv, NEW a \in Arrays, NEW items \in BoundedSeq(Nodes, MaxCount),
         CreateArrayOf(a, items)
  PROVE  IInv' /\ Tree!Next
<1> DEFINE W == {a} \cup ToSet(items)
<1>1. PICK g : g = Renewed(heap, W)
  OBVIOUS
<1>2. /\ W \cap live = {} /\ a \notin ToSet(items) /\ IsInjective(items)
      /\ live' = live \cup W /\ call' = <<"CreateArray", a, items>>
  BY DEF CreateArrayOf
<1>3. a \in Nodes /\ a \notin Objects
  BY DEF Arrays
<1>4. items \in Seq(Nodes) /\ ToSet(items) \subseteq Nodes
  <2>1. MaxCount \in Nat
    BY ItemAssumption DEF ItemAssumption
  <2>2. PICK m \in 0 .. MaxCount : items \in [1 .. m -> Nodes]
    BY DEF BoundedSeq, SeqOf
  <2>3. m \in Nat
    BY <2>1, <2>2
  <2>4. items \in Seq(Nodes)
    BY <2>2, <2>3
  <2> QED BY <2>4, SeqFacts
<1>5. /\ Represents(heap, live, kids) /\ W \in SUBSET Nodes
      /\ \A x \in W : x \in Nodes /\ kids[x] = <<>> /\ InNone(kids, x)
  <2>1. Represents(heap, live, kids) /\ W \in SUBSET Nodes
    BY <1>3, <1>4, InvFacts
  <2>2. \A x \in W : x \in Nodes \ live
    BY <1>2, <2>1
  <2> QED BY <2>1, <2>2 DEF Represents, InNone
<1>6. a \in W /\ ToSet(items) \subseteq W
  OBVIOUS
<1>7. PICK linked : LinkUp(linked, g, a, items) /\ heap' = linked[Len(items)]
  <2>1. g \in Heaps
    <3>1. heap \in Heaps
      BY InvFacts
    <3> QED BY <1>1, <3>1, ZeroedFacts DEF Heaps, Renewed
  <2>2. heap' = LET linked[i \in 0 .. Len(items)] ==
                      IF i = 0 THEN g
                      ELSE IF i = 1 THEN Set(linked[0], a, "child", items[1])
                           ELSE suffix_object(linked[i - 1], items[i - 1], items[i])
                IN linked[Len(items)]
    BY <1>1 DEF CreateArrayOf, Renewed
  <2> QED BY <1>3, <1>4, <2>1, <2>2, LinkUpExists
<1> HIDE DEF W
<1>8. Represents(g, live', kids) /\ \A x \in Nodes : g[x].string = heap[x].string
  BY <1>1, <1>2, <1>5, NewItems
<1>9. Injective(items)
  BY <1>2 DEF IsInjective, Injective
<1>10. a \in live' /\ \A x \in ToSet(items) : x \in live' /\ InNone(kids, x) /\ kids[x] = <<>>
  BY <1>2, <1>5, <1>6
<1>11. /\ Represents(linked[Len(items)], live', [kids EXCEPT ![a] = items])
       /\ \A x \in Nodes : linked[Len(items)][x].string = g[x].string
  BY <1>2, <1>3, <1>4, <1>5, <1>6, <1>7, <1>8, <1>9, <1>10, CreateArray
<1>12. IInv' /\ kids' = [kids EXCEPT ![a] = items]
  BY <1>7, <1>11, Reaches
<1>13. keys' = keys
  BY <1>7, <1>8, <1>11, KeysStay
<1>14. Tree!CreateArrayOf(a, items)
  BY <1>2, <1>12, <1>13, TreeToSet, TreeIsInjective DEF Tree!CreateArrayOf, W, kids, keys
<1> QED BY <1>2, <1>12, <1>14, TreeBoundedSeq DEF Tree!Next, Tree!Arrays, Arrays

(* What cJSON_Duplicate visits is the subtree, or the item alone.             *)
LEMMA DuplicateStep ==
  ASSUME IInv, NEW n \in Nodes, NEW recurse \in BOOLEAN, Duplicate(n, recurse)
  PROVE  IInv' /\ Tree!Next
<1> DEFINE D == IF recurse /\ heap[n].child # NULL
                THEN {n} \cup Reached(heap, heap[n].child) ELSE {n}
<1>2. n \in live
  BY DEF Duplicate
<1>3. PICK copy \in [D -> Nodes \ live] :
        /\ IsInjective(copy)
        /\ \A x \in D : x \in Objects <=> copy[x] \in Objects
        /\ live' = live \cup Range(copy)
        /\ heap' = CopiedHeap(heap, n, D, copy)
        /\ call' = <<"Duplicate", n, copy>>
  BY DEF Duplicate, CopiedHeap
<1>4. Represents(heap, live, kids)
  BY InvFacts
<1>5. D \in {{n}, Below(Kids(kids), n)}
  BY <1>4, ReachedIsUnder
<1> HIDE DEF D
<1>6. Duplicates(heap, live, kids, n, D, copy, heap')
  BY <1>2, <1>3, <1>4, <1>5 DEF Duplicates
<1>7. /\ Represents(heap', live', Copied(kids, n, D, copy))
      /\ CopiedKeys(heap, D, copy, heap')
  BY <1>3, <1>6, Duplicated
<1>8. IInv' /\ kids' = Copied(kids, n, D, copy)
  BY <1>7, Reaches
<1>9. DOMAIN copy = D /\ D \subseteq Nodes /\ Range(copy) \subseteq Nodes \ live
  <2>1. D \subseteq Nodes
    BY <1>4, <1>5, KidsFacts
  <2> QED BY <1>3, <2>1 DEF Range
<1>10. keys' = [m \in Nodes |-> IF m \in Range(copy)
                 THEN keys[CHOOSE x \in DOMAIN copy : copy[x] = m] ELSE keys[m]]
  <2>1. ASSUME NEW m \in Nodes
        PROVE  heap'[m].string = IF m \in Range(copy)
                 THEN keys[CHOOSE x \in DOMAIN copy : copy[x] = m] ELSE keys[m]
    <3>1. CASE m \in Range(copy)
      <4>1. \E x \in D : copy[x] = m
        BY <1>9, <3>1 DEF Range
      <4>2. PICK x : x = CHOOSE y \in D : copy[y] = m
        OBVIOUS
      <4>3. x \in Nodes
        BY <1>9, <4>1, <4>2
      <4>4. heap'[m].string = heap[x].string
        BY <1>7, <3>1, <4>2 DEF CopiedKeys
      <4>5. keys[x] = heap[x].string
        BY <4>3 DEF keys
      <4> QED BY <1>9, <3>1, <4>2, <4>4, <4>5
    <3>2. CASE m \notin Range(copy)
      BY <1>7, <3>2 DEF keys, CopiedKeys
    <3> QED BY <3>1, <3>2
  <2>2. keys' = [m \in Nodes |-> heap'[m].string]
    BY DEF keys
  <2> QED BY <2>1, <2>2
<1>11. Tree!Duplicate(n, copy)
  <2>1. /\ n \in live /\ DOMAIN copy \in {{n}, Tree!Subtree(n)}
        /\ Tree!IsInjective(copy) /\ Tree!Range(copy) \subseteq Nodes \ live
        /\ live' = live \cup Tree!Range(copy)
    BY <1>2, <1>3, <1>5, <1>9, TreeSubtree, TreeIsInjective, TreeRange
  <2>2. keys' = [m \in Nodes |-> IF m \in Tree!Range(copy)
                 THEN keys[CHOOSE x \in DOMAIN copy : copy[x] = m] ELSE keys[m]]
    BY <1>10, TreeRange
  <2>3. kids' = [m \in Nodes |->
          IF m \notin Tree!Range(copy) THEN kids[m]
          ELSE IF DOMAIN copy # Tree!Subtree(n) THEN <<>>
          ELSE [i \in DOMAIN kids[CHOOSE x \in DOMAIN copy : copy[x] = m] |->
                  copy[kids[CHOOSE x \in DOMAIN copy : copy[x] = m][i]]]]
    BY <1>8, <1>9, TreeRange, TreeSubtree DEF Copied, CopyOf
  <2> QED BY <2>1, <2>2, <2>3 DEF Tree!Duplicate, kids, keys
<1>12. copy \in [{n} -> Nodes \ live] \cup [Tree!Subtree(n) -> Nodes \ live]
  BY <1>5, TreeSubtree
<1> QED BY <1>3, <1>8, <1>11, <1>12 DEF Tree!Next

(* The keys in a heap.                                                        *)
StringsOf(h) == [x \in Nodes |-> h[x].string]

(* What Replace of JsonTree deletes, and what it leaves.                      *)
Gone(ch, a, i) == IF i \in DOMAIN ch[a] THEN Below(Kids(ch), ch[a][i]) ELSE {}

ReplacedKids(ch, a, i, n, S) ==
  [m \in Nodes |-> IF m \in S THEN <<>>
                   ELSE IF m = a /\ S # {} THEN ReplaceAt(ch[a], i, n) ELSE ch[m]]

ReplacedKeys(ks, S) == [m \in Nodes |-> IF m \in S THEN NULL ELSE ks[m]]

(* Replace of JsonTree, by these.                                             *)
LEMMA ReplaceIs ==
  ASSUME NEW a, NEW i, NEW n, NEW ks, NEW S, S = Gone(kids, a, i),
         Tree!Detached(n), a \in live \ Tree!Subtree(n), live' = live \ S,
         kids' = ReplacedKids(kids, a, i, n, S), keys' = ReplacedKeys(ks, S)
  PROVE  Tree!Replace(a, i, n, ks)
<1>1. S = IF i \in DOMAIN kids[a] THEN Tree!Subtree(kids[a][i]) ELSE {}
  BY TreeSubtree DEF Gone
<1>2. kids' = [m \in Nodes |-> IF m \in S THEN <<>>
                ELSE IF m = a /\ S # {} THEN Tree!ReplaceAt(kids[a], i, n) ELSE kids[m]]
  BY TreeReplaceAt DEF ReplacedKids
<1>3. keys' = [m \in Nodes |-> IF m \in S THEN NULL ELSE ks[m]]
  BY DEF ReplacedKeys
<1> QED BY <1>1, <1>2, <1>3, Zenon DEF Tree!Replace, kids, keys

(* replace, on the heap in which the new item may have been renamed.          *)
LEMMA ReplaceStep ==
  ASSUME IInv, NEW a, NEW n, MayPut(a, n), NEW h, Attachable(h, live, kids, a, n),
         NEW k \in Int, NEW item, item = At(kids[a], k), replace(h, a, item, n)
  PROVE  IInv' /\ Tree!Replace(a, k, n, StringsOf(h))
<1> DEFINE s == kids[a]
           ks == StringsOf(h)
<1>1. /\ Represents(h, live, kids) /\ a \in live /\ a \in Nodes /\ n \in Nodes /\ n \notin ToSet(s)
      /\ s \in Seq(Nodes) /\ Injective(s)
  <2>1. /\ a \in Nodes /\ n \in Nodes /\ n \notin ToSet(s) /\ s \in Seq(Nodes) /\ Injective(s)
    BY AttachableFacts
  <2> QED BY <2>1 DEF Attachable
<1>2. kids \in [Nodes -> Seq(Nodes)]
  BY InvFacts
<1>3. Tree!Detached(n) /\ a \in live \ Tree!Subtree(n)
  BY MayPutFacts
<1>4. CASE k \notin DOMAIN s
  <2>1. heap' = h /\ live' = live
    BY <1>4 DEF At, replace
  <2>2. Represents(heap', live', kids)
    BY <1>1, <2>1
  <2>3. IInv' /\ kids' = kids
    BY <2>2, Reaches
  <2>4. keys' = ks /\ ks = [m \in Nodes |-> ks[m]]
    BY <2>1 DEF keys, StringsOf
  <2>5. kids' = ReplacedKids(kids, a, k, n, {}) /\ keys' = ReplacedKeys(ks, {})
    <3> HIDE DEF ks
    <3> QED BY <1>2, <2>3, <2>4 DEF ReplacedKids, ReplacedKeys
  <2>6. {} = Gone(kids, a, k) /\ live' = live \ {}
    BY <1>4, <2>1 DEF Gone
  <2>7. Tree!Replace(a, k, n, ks)
    <3> HIDE DEF ks
    <3> QED BY <1>3, <2>5, <2>6, ReplaceIs
  <2> QED BY <2>3, <2>7
<1>5. CASE k \in DOMAIN s
  <2>1. item = s[k] /\ item # NULL /\ item \in ToSet(s) /\ item \in Nodes
    BY <1>1, <1>5, SeqFacts
  <2>2. PICK g : g = Severed(ReplaceItemViaPointer(h, a, s[k], n), s[k])
    OBVIOUS
  <2> DEFINE c == [kids EXCEPT ![a] = ReplaceAt(s, k, n)]
             S == Reached(g, item)
  <2>3. live' = live \ S /\ heap' = Free(g, S)
    BY <2>1, <2>2 DEF replace
  <2>4. Represents(g, live, c) /\ SameKeys(h, g)
    BY <1>5, <2>2, ReplaceItem
  <2>5. ToSet(ReplaceAt(s, k, n)) = (ToSet(s) \ {item}) \cup {n}
    BY <1>1, <1>5, <2>1, ReplaceFacts
  <2>6. c[a] = ReplaceAt(s, k, n) /\ \A m \in Nodes : m # a => c[m] = kids[m]
    BY <1>1, <1>2
  <2>7. InNone(c, item)
    <3>1. ASSUME NEW m \in Nodes PROVE item \notin ToSet(c[m])
      <4>1. CASE m = a
        BY <1>1, <2>1, <2>5, <2>6, <4>1
      <4>2. CASE m # a
        <5>1. ToSet(kids[m]) \cap ToSet(kids[a]) = {}
          BY <1>1, <4>2, RepresentsFacts
        <5> QED BY <2>1, <2>6, <4>2, <5>1
      <4> QED BY <4>1, <4>2
    <3> HIDE DEF c
    <3> QED BY <3>1 DEF InNone
  <2> HIDE DEF c
  <2>8. item \in live
    BY <1>1, <2>1, RepresentsFacts
  <2>9. /\ S = Below(Kids(c), item)
        /\ Represents(heap', live', Emptied(c, S))
        /\ \A x \in Nodes : heap'[x].string = IF x \in S THEN NULL ELSE g[x].string
    BY <2>3, <2>4, <2>7, <2>8, FreeTree
  <2>10. S = Below(Kids(kids), item) /\ item \in S
    <3>1. /\ Kids(kids) \in [Nodes -> SUBSET Nodes] /\ Kids(c) \in [Nodes -> SUBSET Nodes]
          /\ item \in Below(Kids(kids), item) /\ Below(Kids(kids), item) \subseteq Nodes
      BY <1>1, <2>1, <2>4, RepresentsFacts, KidsFacts
    <3>2. \A p \in Below(Kids(kids), item) : p # a
      BY <1>1, <2>1, NotBelowItself
    <3>3. \A p \in Below(Kids(kids), item) : Kids(c)[p] = Kids(kids)[p]
      BY <2>6, <3>1, <3>2 DEF Kids
    <3>4. Below(Kids(c), item) = Below(Kids(kids), item)
      BY <2>1, <3>1, <3>3, BelowLocal
    <3> QED BY <2>9, <3>1, <3>4
  <2>11. IInv' /\ kids' = Emptied(c, S)
    BY <2>9, Reaches
  <2>12. keys' = ReplacedKeys(ks, S)
    <3>1. \A x \in Nodes : heap'[x].string = IF x \in S THEN NULL ELSE ks[x]
      BY <2>4, <2>9 DEF SameKeys, StringsOf
    <3> HIDE DEF S, ks
    <3> QED BY <3>1 DEF keys, ReplacedKeys
  <2>13. S = Gone(kids, a, k)
    BY <1>5, <2>1, <2>10 DEF Gone
  <2>14. kids' = ReplacedKids(kids, a, k, n, S)
    <3> HIDE DEF S
    <3> QED BY <2>6, <2>10, <2>11 DEF Emptied, ReplacedKids
  <2>15. Tree!Replace(a, k, n, ks)
    <3> HIDE DEF S, ks
    <3> QED BY <1>3, <2>3, <2>12, <2>13, <2>14, ReplaceIs
  <2> QED BY <2>11, <2>15
<1> QED BY <1>4, <1>5

(* cJSON_ReplaceItemInArray.                                                  *)
LEMMA ReplaceItemInArrayStep ==
  ASSUME IInv, NEW a \in Arrays, NEW i \in Indexes, NEW n \in Nodes, ReplaceItemInArray(a, i, n)
  PROVE  IInv' /\ Tree!Next
<1>1. /\ MayPut(a, n) /\ replace(heap, a, get_array_item(heap, a, i), n)
      /\ call' = <<"ReplaceItemInArray", a, i, n>>
  BY DEF ReplaceItemInArray
<1>2. i \in Int /\ i + 1 \in Int
  BY ItemAssumption DEF ItemAssumption
<1>3. PICK item : item = get_array_item(heap, a, i)
  OBVIOUS
<1>4. item = At(kids[a], i + 1)
  BY <1>2, <1>3, GetItem DEF Arrays
<1>5. Attachable(heap, live, kids, a, n)
  BY <1>1, MayPutFacts DEF Arrays
<1>6. keys = StringsOf(heap)
  BY DEF keys, StringsOf
<1>7. IInv' /\ Tree!Replace(a, i + 1, n, keys)
  <2>1. PICK j \in Int : j = i + 1
    BY <1>2
  <2>2. PICK h : h = heap
    OBVIOUS
  <2>3. /\ replace(h, a, item, n) /\ item = At(kids[a], j)
        /\ Attachable(h, live, kids, a, n)
    BY <1>1, <1>3, <1>4, <1>5, <2>1, <2>2 DEF replace
  <2>4. IInv' /\ Tree!Replace(a, j, n, StringsOf(h))
    BY <1>1, <2>3, ReplaceStep
  <2>5. StringsOf(h) = keys
    BY <1>6, <2>2
  <2> QED BY <2>1, <2>4, <2>5 DEF Tree!Replace
<1> QED BY <1>1, <1>7 DEF Tree!Next, Tree!Arrays, Arrays, keys

(* The new item has its key before it is known whether there is an old one.   *)
LEMMA replace_item_in_objectStep ==
  ASSUME IInv, NEW o \in Objects, NEW n \in Nodes, NEW k \in Keys, NEW order \in {Rank, Fold},
         replace_item_in_object(o, k, n, order)
  PROVE  IInv' /\ Tree!Next
<1>1. /\ MayPut(o, n)
      /\ replace(Set(heap, n, "string", k), o, get_object_item(heap, o, k, order), n)
      /\ call' = <<"ReplaceItemInObject", o, k, n, order>>
  BY DEF replace_item_in_object
<1>2. PICK h : h = Set(heap, n, "string", k)
  OBVIOUS
<1>3. PICK item : item = get_object_item(heap, o, k, order)
  OBVIOUS
<1>4. /\ o \in live /\ o \in Nodes /\ n \in live /\ InNone(kids, n) /\ o \notin Below(Kids(kids), n)
      /\ Represents(heap, live, kids)
  BY <1>1, MayPutFacts, InvFacts
<1>5. Represents(h, live, kids) /\ \A x \in Nodes : h[x].string = IF x = n THEN k
      ELSE heap[x].string
  BY <1>2, <1>4, Rename
<1>6. Attachable(h, live, kids, o, n)
  BY <1>4, <1>5 DEF Attachable
<1>7. Tree!Member(o, k, order) \in Int /\ item = At(kids[o], Tree!Member(o, k, order))
  <2>1. Len(kids[o]) \in Nat
    BY <1>4, InvFacts, SeqFacts
  <2> QED BY <1>3, <1>4, <2>1, GetMember
<1>8. Tree!Renamed(n, k) = StringsOf(h)
  <2>1. [x \in Nodes |-> h[x].string] = [[x \in Nodes |-> heap[x].string] EXCEPT ![n] = k]
    BY <1>5
  <2> QED BY <2>1 DEF Tree!Renamed, StringsOf
<1>9. IInv' /\ Tree!Replace(o, Tree!Member(o, k, order), n, Tree!Renamed(n, k))
  <2>1. PICK j \in Int : j = Tree!Member(o, k, order)
    BY <1>7
  <2>2. replace(h, o, item, n) /\ item = At(kids[o], j)
    BY <1>1, <1>2, <1>3, <1>7, <2>1
  <2>3. IInv' /\ Tree!Replace(o, j, n, StringsOf(h))
    BY <1>1, <1>6, <2>2, ReplaceStep
  <2> QED BY <1>8, <2>1, <2>3 DEF Tree!Replace
<1> QED BY <1>1, <1>9 DEF Tree!Next

(* cJSONUtils_SortObject keeps the members of the object.                     *)
LEMMA sort_objectStep ==
  ASSUME IInv, NEW o \in Objects, NEW order \in {Rank, Fold}, sort_object(o, order)
  PROVE  IInv' /\ Tree!Next
<1>1. PICK r : r = sort_list(heap, heap[o].child, order)
  OBVIOUS
<1>2. /\ o \in live /\ live' = live /\ call' = <<"SortObject", o, order>>
      /\ heap' = Set(r.heap, o, "child", r.list)
  BY <1>1 DEF sort_object
<1>3. /\ Represents(heap, live, kids) /\ o \in Nodes /\ kids \in [Nodes -> Seq(Nodes)]
      /\ kids[o] \in Seq(Nodes)
  BY <1>2, InvFacts
<1>4. SortedChildren(heap, live, kids, o, order, heap')
  <2>1. PICK g : g = Set(r.heap, o, "child", r.list)
    OBVIOUS
  <2>2. SortedChildren(heap, live, kids, o, order, g)
    BY <1>1, <1>2, <1>3, <2>1, SortObject
  <2> QED BY <1>2, <2>1, <2>2
<1>5. PICK t : /\ Represents(heap', live, [kids EXCEPT ![o] = t])
               /\ \A x \in Nodes : heap'[x].string = heap[x].string
               /\ t \in Seq(Nodes) /\ Len(t) = Len(kids[o]) /\ ToSet(t) = ToSet(kids[o])
               /\ \A i \in 1 .. Len(t) - 1 :
                    order[heap[t[i]].string] <= order[heap[t[i + 1]].string]
  BY <1>4 DEF SortedChildren
<1>6. IInv' /\ kids' = [kids EXCEPT ![o] = t] /\ keys' = keys
  BY <1>2, <1>5, Reaches, KeysStay
<1>7. kids'[o] = t /\ \A n \in Nodes \ {o} : kids'[n] = kids[n]
  BY <1>3, <1>6
<1>8. t \in [1 .. Len(kids[o]) -> ToSet(kids[o])]
  <2>1. t \in [1 .. Len(t) -> Nodes]
    BY <1>5
  <2>2. \A i \in 1 .. Len(t) : t[i] \in ToSet(t)
    BY <2>1 DEF ToSet
  <2> QED BY <1>5, <2>1, <2>2
<1>9. \A i \in 1 .. Len(kids[o]) - 1 : order[keys[t[i]]] <= order[keys[t[i + 1]]]
  <2>1. ASSUME NEW i \in 1 .. Len(kids[o]) - 1
        PROVE  order[keys[t[i]]] <= order[keys[t[i + 1]]]
    <3>1. Len(t) \in Nat /\ i \in 1 .. Len(t) - 1 /\ i \in 1 .. Len(t) /\ i + 1 \in 1 .. Len(t)
      BY <1>5
    <3>2. t[i] \in Nodes /\ t[i + 1] \in Nodes
      BY <1>5, <3>1
    <3> QED BY <1>5, <3>1, <3>2 DEF keys
  <2> QED BY <2>1
<1>10. Tree!Sort(o, order)
  <2>1. /\ kids'[o] \in [1 .. Len(kids[o]) -> ToSet(kids[o])]
        /\ ToSet(kids'[o]) = ToSet(kids[o])
        /\ \A i \in 1 .. Len(kids[o]) - 1 : order[keys[kids'[o][i]]] <= order[keys[kids'[o][i + 1]]]
    BY <1>5, <1>7, <1>8, <1>9
  <2> QED BY <1>2, <1>6, <1>7, <2>1, TreeToSet DEF Tree!Sort, kids, keys
<1> QED BY <1>2, <1>6, <1>10 DEF Tree!Next

(* Nothing is live at the start.                                              *)
LEMMA InitStep ==
  ASSUME Init
  PROVE  IInv /\ Tree!Init
<1> DEFINE c == [n \in Nodes |-> <<>>]
<1>1. heap = [n \in Nodes |-> Zeroed] /\ live = {} /\ call = <<"none">>
  BY DEF Init
<1>2. heap \in Heaps /\ \A n \in Nodes : /\ heap[n].child = NULL /\ heap[n].next = NULL
                                         /\ heap[n].prev = NULL /\ heap[n].string = NULL
  BY <1>1, ZeroedFacts DEF Heaps
<1>3. c \in [Nodes -> Seq(Nodes)] /\ \A n \in Nodes : c[n] = <<>>
  OBVIOUS
<1> HIDE DEF c
<1>4. \A n \in Nodes : ToSet(c[n]) = {} /\ DOMAIN c[n] = {} /\ At(c[n], 1) = NULL
  BY <1>3, Empty DEF EmptyFacts
<1>5. OnePlace(c) /\ Acyclic(c)
  BY <1>4 DEF OnePlace, Acyclic
<1>6. Stores(heap, c)
  BY <1>2, <1>4 DEF Stores, Links
<1>7. MembersHaveKeys(heap, c)
  BY <1>4, ItemAssumption DEF MembersHaveKeys, ItemAssumption
<1>8. Represents(heap, live, c)
  BY <1>1, <1>2, <1>3, <1>4, <1>5, <1>6, <1>7 DEF Represents
<1>9. kids = c
  BY <1>8, KidsOf DEF kids
<1>10. IInv
  BY <1>8, <1>9 DEF IInv
<1>11. keys = [n \in Nodes |-> NULL]
  BY <1>2 DEF keys
<1>12. Tree!Init
  BY <1>1, <1>9, <1>11 DEF Tree!Init, kids, keys, c
<1> QED BY <1>10, <1>12

(* Every step keeps the invariant and is one of JsonTree or changes nothing.  *)
LEMMA NextStep ==
  ASSUME IInv, [Next]_vars
  PROVE  IInv' /\ [Tree!Next]_(Tree!vars)
<1>1. CASE UNCHANGED vars
  <2>1. heap' = heap /\ live' = live /\ call' = call
    BY <1>1 DEF vars
  <2>2. kids' = kids /\ keys' = keys
    BY <2>1 DEF kids, keys
  <2> QED BY <2>1, <2>2 DEF IInv, Tree!vars, kids, keys
<1>2. CASE \E n \in Nodes : Create(n)
  BY <1>2, CreateStep
<1>3. CASE \E n \in Nodes : Delete(n)
  BY <1>3, DeleteStep
<1>4. CASE \E n \in Nodes, recurse \in BOOLEAN : Duplicate(n, recurse)
  BY <1>4, DuplicateStep
<1>5. CASE \E a \in Arrays, items \in BoundedSeq(Nodes, MaxCount) : CreateArrayOf(a, items)
  BY <1>5, CreateArrayOfStep
<1>6. CASE \E a \in Arrays, n \in Nodes : AddItemToArray(a, n)
  BY <1>6, AddItemToArrayStep
<1>7. CASE \E a \in Arrays, i \in Indexes, n \in Nodes : InsertItemInArray(a, i, n)
  BY <1>7, InsertItemInArrayStep
<1>8. CASE \E a \in Arrays, i \in Indexes, n \in Nodes : insert_item_in_array(a, i, n)
  BY <1>8, insert_item_in_arrayStep
<1>9. CASE \E a \in Arrays, i \in Indexes, n \in Nodes : ReplaceItemInArray(a, i, n)
  BY <1>9, ReplaceItemInArrayStep
<1>10. CASE \E a \in Arrays, i \in Indexes : DetachItemFromArray(a, i)
  BY <1>10, DetachItemFromArrayStep
<1>11. CASE \E o \in Objects, n \in Nodes, k \in Keys : AddItemToObject(o, k, n)
  BY <1>11, AddItemToObjectStep
<1>12. CASE \E o \in Objects, n \in Nodes, k \in Keys : AddNewToObject(o, k, n)
  BY <1>12, AddNewToObjectStep
<1>13. CASE \E o \in Objects, k \in Keys, order \in {Rank, Fold} : DetachItemFromObject(o, k, order)
  BY <1>13, DetachItemFromObjectStep
<1>14. CASE \E o \in Objects, k \in Keys, order \in {Rank, Fold}, n \in Nodes :
              replace_item_in_object(o, k, n, order)
  BY <1>14, replace_item_in_objectStep
<1>15. CASE \E o \in Objects, order \in {Rank, Fold} : sort_object(o, order)
  BY <1>15, sort_objectStep
<1> QED BY <1>1, <1>2, <1>3, <1>4, <1>5, <1>6, <1>7, <1>8, <1>9, <1>10, <1>11, <1>12, <1>13,
           <1>14, <1>15 DEF Next

-----------------------------------------------------------------------------
(* The results.                                                               *)

(* The neighbours of an item are those in the list it is in, if any.          *)
LEMMA Neighbours ==
  ASSUME IInv, NEW n \in live
  PROVE  /\ heap[n].next # NULL => heap[n].next \in live /\ heap[heap[n].next].prev = n
         /\ heap[n].prev # NULL => heap[n].prev \in live /\ heap[heap[n].prev].next = n
<1>1. n \in Nodes /\ Represents(heap, live, kids)
  BY InvFacts
<1>2. CASE InNone(kids, n)
  BY <1>1, <1>2 DEF Represents, Stores
<1>3. CASE ~InNone(kids, n)
  <2>1. PICK m \in Nodes : n \in ToSet(kids[m])
    BY <1>3 DEF InNone
  <2> DEFINE s == kids[m]
  <2>2. s \in Seq(Nodes) /\ Links(heap, s) /\ ToSet(s) \subseteq live
    BY <1>1, RepresentsFacts
  <2>3. PICK i \in DOMAIN s : s[i] = n
    BY <2>1, <2>2, SeqFacts
  <2>4. heap[n].prev = At(s, i - 1) /\ heap[n].next = At(s, i + 1)
    BY <2>2, <2>3 DEF Links
  <2>5. i \in Int /\ (i + 1) - 1 = i /\ (i - 1) + 1 = i
    BY <2>2, <2>3, SeqFacts
  <2>6. At(s, i) = n
    BY <2>3 DEF At
  <2>7. \A j \in DOMAIN s : At(s, j) = s[j] /\ s[j] \in live
    BY <2>2, SeqFacts
  <2>8. \A j : At(s, j) # NULL => j \in DOMAIN s
    BY DEF At
  <2>9. ASSUME heap[n].next # NULL
        PROVE  heap[n].next \in live /\ heap[heap[n].next].prev = n
    <3>1. i + 1 \in DOMAIN s
      BY <2>4, <2>8, <2>9
    <3>2. heap[s[i + 1]].prev = At(s, (i + 1) - 1)
      BY <2>2, <3>1 DEF Links
    <3> QED BY <2>4, <2>5, <2>6, <2>7, <3>1, <3>2
  <2>10. ASSUME heap[n].prev # NULL
         PROVE  heap[n].prev \in live /\ heap[heap[n].prev].next = n
    <3>1. i - 1 \in DOMAIN s
      BY <2>4, <2>8, <2>10
    <3>2. heap[s[i - 1]].next = At(s, (i - 1) + 1)
      BY <2>2, <3>1 DEF Links
    <3> QED BY <2>4, <2>5, <2>6, <2>7, <3>1, <3>2
  <2> QED BY <2>9, <2>10
<1> QED BY <1>2, <1>3

(* The first child of an item has no predecessor.                             *)
LEMMA FirstChild ==
  ASSUME IInv, NEW n \in live, heap[n].child # NULL
  PROVE  /\ n \in Nodes /\ heap[n].child \in ToSet(kids[n]) /\ heap[n].child \in live
         /\ heap[heap[n].child].prev = NULL
<1>1. n \in Nodes /\ Represents(heap, live, kids)
  BY InvFacts
<1> DEFINE s == kids[n]
<1>2. s \in Seq(Nodes) /\ Links(heap, s) /\ ToSet(s) \subseteq live /\ heap[n].child = At(s, 1)
  BY <1>1, RepresentsFacts
<1>3. 1 \in DOMAIN s /\ heap[n].child = s[1]
  BY <1>2 DEF At
<1>4. s[1] \in ToSet(s) /\ 1 - 1 \notin DOMAIN s
  BY <1>2, <1>3, SeqFacts
<1>5. heap[s[1]].prev = At(s, 1 - 1)
  BY <1>2, <1>3 DEF Links
<1>6. heap[s[1]].prev = NULL
  BY <1>4, <1>5 DEF At
<1> QED BY <1>1, <1>2, <1>3, <1>4, <1>6

(* The invariant implies the links that ListsOK asks for.                     *)
LEMMA InvImpliesListsOK ==
  ASSUME IInv
  PROVE  ListsOK
<1>1. heap \in Heaps /\ live \subseteq Nodes
  BY InvFacts
<1>2. ASSUME NEW n \in live
      PROVE  /\ {heap[n].child, heap[n].next, heap[n].prev} \subseteq live \cup {NULL}
             /\ heap[n].next # NULL => heap[heap[n].next].prev = n
             /\ heap[n].prev # NULL => heap[heap[n].prev].next = n
             /\ heap[n].child # NULL => heap[heap[n].child].prev = NULL
  BY Neighbours, FirstChild
<1>3. ASSUME NEW m \in live, NEW n \in live, m # n, heap[m].child # NULL
      PROVE  heap[m].child # heap[n].child
  <2>1. SUFFICES ASSUME heap[m].child = heap[n].child PROVE FALSE
    OBVIOUS
  <2>2. /\ m \in Nodes /\ n \in Nodes
        /\ heap[m].child \in ToSet(kids[m]) /\ heap[m].child \in ToSet(kids[n])
    BY <1>3, <2>1, FirstChild
  <2>3. ToSet(kids[m]) \cap ToSet(kids[n]) # {} => m = n
    BY <2>2, InvFacts, RepresentsFacts
  <2> QED BY <1>3, <2>2, <2>3
<1> QED BY <1>1, <1>2, <1>3 DEF ListsOK

(* The lists are well formed in every state, whatever calls are made          *)
(* (cJSON.c:1820-2207, cJSON_Utils.c:373-569).                               *)
THEOREM ListsAreOK == Spec => []ListsOK
<1>1. Init => IInv
  BY InitStep
<1>2. IInv /\ [Next]_vars => IInv'
  BY NextStep
<1>3. IInv => ListsOK
  BY InvImpliesListsOK
<1> QED BY <1>1, <1>2, <1>3, PTL DEF Spec

(* Each call does to the sequence of children what JsonTree promises of it, and *)
(* to no other list anything.                                                *)
THEOREM ListsImplementTree == Spec => ImplementsTree
<1>1. Init => IInv /\ Tree!Init
  BY InitStep
<1>2. IInv /\ [Next]_vars => IInv' /\ [Tree!Next]_(Tree!vars)
  BY NextStep
<1> QED BY <1>1, <1>2, PTL DEF Spec, ImplementsTree, Tree!Spec
=============================================================================
