-------------------------- MODULE NDBufferPool_proof --------------------------
(***************************************************************************)
(* For any number of threads, buffers and any sizes, and a heap that fails  *)
(* any number of times: until a section overlaps the flush of another       *)
(* thread, every block has one owner and is as large as was asked, the       *)
(* counter is exact, and the pool implements Allocator.                    *)
(***************************************************************************)
EXTENDS NDBufferPool, FiniteSetTheorems, SequenceTheorems, WellFoundedInduction, TLAPS

-----------------------------------------------------------------------------
(* Lists                                                                     *)

(* Removing the last entry of a list.                                        *)
LEMMA FrontLemma ==
  ASSUME NEW S, NEW s \in Seq(S), s # <<>>
  PROVE  LET f == SubSeq(s, 1, Len(s) - 1) IN
         /\ f \in Seq(S) /\ Len(f) = Len(s) - 1 /\ DOMAIN f = 1..(Len(s) - 1)
         /\ \A k \in 1..(Len(s) - 1) : f[k] = s[k]
<1> DEFINE n == Len(s) - 1
<1>1. n \in Nat /\ n \in Int /\ 1 \in Int /\ \A k \in 1..n : s[k] \in S
  OBVIOUS
<1> HIDE DEF n
<1>2. ASSUME NEW m \in Int, \A k \in 1..m : s[k] \in S
      PROVE  /\ SubSeq(s, 1, m) \in Seq(S)
             /\ Len(SubSeq(s, 1, m)) = IF 1 <= m THEN m - 1 + 1 ELSE 0
             /\ \A k \in 1..(m - 1 + 1) : SubSeq(s, 1, m)[k] = s[1 + k - 1]
  <2>1. 1 \in Int
    OBVIOUS
  <2>2. \A k \in 1..m : s[k] \in S
    BY <1>2
  <2> QED
    BY <2>1, <2>2, SubSeqProperties
<1>3. Len(SubSeq(s, 1, n)) = n /\ \A k \in 1..n : SubSeq(s, 1, n)[k] = s[k]
  BY <1>1, <1>2
<1> QED
  BY <1>1, <1>2, <1>3 DEF n

(* Appending an entry to a list.                                             *)
LEMMA AppendLemma ==
  ASSUME NEW S, NEW s \in Seq(S), NEW e \in S
  PROVE  LET f == Append(s, e) IN
         /\ f \in Seq(S) /\ Len(f) = Len(s) + 1 /\ DOMAIN f = 1..(Len(s) + 1)
         /\ \A k \in 1..Len(s) : f[k] = s[k]
         /\ f[Len(s) + 1] = e
  OBVIOUS

(* What fastRemove leaves in a list (lines 350-353).                         *)
LEMMA WithoutLemma ==
  ASSUME NEW S, NEW p \in Seq(S), NEW k \in 1..Len(p)
  PROVE  LET q == Without(p, k) IN
         /\ q \in Seq(S) /\ Len(q) = Len(p) - 1 /\ DOMAIN q = 1..(Len(p) - 1)
         /\ \A l \in 1..(Len(p) - 1) : q[l] = IF l = k THEN p[Len(p)] ELSE p[l]
<1> DEFINE r == [p EXCEPT ![k] = p[Len(p)]]
<1>1. r \in Seq(S) /\ Len(r) = Len(p) /\ Len(p) \in Nat \ {0}
      /\ \A l \in 1..Len(p) : r[l] = IF l = k THEN p[Len(p)] ELSE p[l]
  OBVIOUS
<1>2. r # <<>>
  BY <1>1
<1> HIDE DEF r
<1>3. LET f == SubSeq(r, 1, Len(r) - 1) IN
      /\ f \in Seq(S) /\ Len(f) = Len(r) - 1 /\ DOMAIN f = 1..(Len(r) - 1)
      /\ \A l \in 1..(Len(r) - 1) : f[l] = r[l]
  BY <1>1, <1>2, FrontLemma
<1>4. Without(p, k) = SubSeq(r, 1, Len(r) - 1)
  BY <1>1 DEF Without, r
<1> QED
  BY <1>1, <1>3, <1>4

(* No list of distinct members of a set without a is as long as the set with *)
(* a: the assertion of tinyFree (line 306).                                  *)
LEMMA DistinctLemma ==
  ASSUME NEW S, IsFiniteSet(S), NEW a \in S, NEW s \in Seq(S \ {a}),
         \A k, l \in 1..Len(s) : s[k] = s[l] => k = l
  PROVE  Len(s) + 1 <= Cardinality(S)
<1>1. IsFiniteSet(S \ {a}) /\ Cardinality(S \ {a}) = Cardinality(S) - 1
  BY FS_RemoveElement
<1>2. s \in Injection(1..Len(s), S \ {a})
  BY DEF Injection, IsInjective
<1>3. Cardinality(1..Len(s)) <= Cardinality(S \ {a})
  BY <1>1, <1>2, FS_Injection
<1>4. Len(s) \in Nat /\ Cardinality(1..Len(s)) = Len(s)
  BY FS_Interval
<1>5. Cardinality(S) \in Nat
  BY FS_CardinalityType
<1> QED
  BY <1>1, <1>3, <1>4, <1>5

(* fastRemove of a list of distinct blocks removes one block and keeps the   *)
(* others, each in one place.                                                *)
LEMMA WithoutPointers ==
  ASSUME NEW p \in Seq(Entry), NEW k \in 1..Len(p),
         \A l, m \in 1..Len(p) : p[l].ptr = p[m].ptr => l = m
  PROVE  LET q == Without(p, k) IN
         /\ q \in Seq(Entry) /\ Len(q) = Len(p) - 1 /\ DOMAIN q = 1..Len(q)
         /\ \A l \in DOMAIN q : \E m \in 1..Len(p) : q[l] = p[m]
         /\ \A l, m \in DOMAIN q : q[l].ptr = q[m].ptr => l = m
         /\ {q[l].ptr : l \in DOMAIN q} = {p[l].ptr : l \in 1..Len(p)} \ {p[k].ptr}
<1> DEFINE q == Without(p, k)
<1>1. /\ q \in Seq(Entry) /\ Len(q) = Len(p) - 1 /\ DOMAIN q = 1..(Len(p) - 1)
      /\ \A l \in 1..(Len(p) - 1) : q[l] = IF l = k THEN p[Len(p)] ELSE p[l]
  BY WithoutLemma
<1> HIDE DEF q
<1>2. Len(p) \in Nat /\ Len(p) \in 1..Len(p)
  OBVIOUS
<1>3. \A l \in DOMAIN q : \E m \in 1..Len(p) : m # k /\ q[l] = p[m]
  BY <1>1, <1>2
<1>4. \A l, m \in DOMAIN q : q[l].ptr = q[m].ptr => l = m
  BY <1>1, <1>2
<1>5. ASSUME NEW m \in 1..Len(p), m # k
      PROVE  \E l \in DOMAIN q : q[l] = p[m]
  <2>1. CASE m = Len(p)
    BY <1>1, <1>2, <1>5, <2>1
  <2>2. CASE m # Len(p)
    <3>1. m \in DOMAIN q /\ q[m] = p[m]
      BY <1>1, <1>2, <1>5, <2>2
    <3> QED
      BY <3>1
  <2> QED
    BY <2>1, <2>2
<1>6. {q[l].ptr : l \in DOMAIN q} = {p[l].ptr : l \in 1..Len(p)} \ {p[k].ptr}
  BY <1>3, <1>5
<1> QED
  BY <1>1, <1>3, <1>4, <1>6 DEF q

-----------------------------------------------------------------------------
(* Sums over finite sets: SumFunctionOnSet is defined, does not depend on the *)
(* order in which it adds, and changes as one value does.                    *)

Chosen(s) == CHOOSE x \in s : TRUE
IsSum(g, f, S) ==
  g = [s \in SUBSET S |-> IF s = {} THEN 0 ELSE f[Chosen(s)] + g[s \ {Chosen(s)}]]
SumOf(f, S) == CHOOSE g : IsSum(g, f, S)

LEMMA SumIs ==
  ASSUME NEW f, NEW S
  PROVE  SumFunctionOnSet(f, S) = SumOf(f, S)[S]
BY DEF SumFunctionOnSet, FoldFunctionOnSet, MapThenFoldSet, SumOf, IsSum, Chosen

(* Among subsets of a finite set there is one none of whose parts is among them. *)
LEMMA Smallest ==
  ASSUME NEW S, IsFiniteSet(S), NEW B \in SUBSET (SUBSET S), B # {}
  PROVE  \E s \in B : \A u \in SUBSET s : u # s => u \notin B
<1> DEFINE R == OpToRel(<, Nat)
           N == {Cardinality(s) : s \in B}
<1>1. \A s \in B : IsFiniteSet(s) /\ Cardinality(s) \in Nat
  BY FS_Subset, FS_CardinalityType
<1>2. \A m, n \in Nat : m < n => <<m, n>> \in R
  BY DEF OpToRel
<1>3. N \subseteq Nat /\ N # {}
  BY <1>1
<1>7. IsWellFoundedOn(R, Nat)
  BY NatLessThanWellFounded, Zenon
<1> HIDE DEF R, N
<1>4. PICK n \in N : \A m \in N : ~ (<<m, n>> \in R)
  BY <1>3, <1>7, WFMin
<1>5. PICK s \in B : n = Cardinality(s)
  BY DEF N
<1>6. ASSUME NEW u \in SUBSET s, u # s, u \in B
      PROVE  FALSE
  <2>1. Cardinality(u) < Cardinality(s)
    BY <1>1, <1>6, FS_Subset
  <2> QED
    BY <1>1, <1>2, <1>4, <1>5, <1>6, <2>1 DEF N
<1> QED
  BY <1>6

LEMMA ChosenIn ==
  ASSUME NEW s, s # {}
  PROVE  Chosen(s) \in s
BY DEF Chosen

(* Sums of two functions that agree on a set agree there.                     *)
LEMMA SumsAgree ==
  ASSUME NEW S, IsFiniteSet(S), NEW T, S \subseteq T, NEW f, NEW e,
         \A x \in S : f[x] = e[x], NEW g, NEW h, IsSum(g, f, S), IsSum(h, e, T)
  PROVE  \A s \in SUBSET S : g[s] = h[s]
<1> DEFINE B == {s \in SUBSET S : g[s] # h[s]}
<1> SUFFICES ASSUME B # {} PROVE FALSE
  OBVIOUS
<1>0. B \in SUBSET (SUBSET S)
  OBVIOUS
<1>1. PICK s \in B : \A u \in SUBSET s : u # s => u \notin B
  <2> HIDE DEF B
  <2> QED
    BY <1>0, Smallest
<1>2. s \in SUBSET S /\ s \in SUBSET T /\ g[s] # h[s]
  OBVIOUS
<1>3. /\ g[s] = IF s = {} THEN 0 ELSE f[Chosen(s)] + g[s \ {Chosen(s)}]
      /\ h[s] = IF s = {} THEN 0 ELSE e[Chosen(s)] + h[s \ {Chosen(s)}]
  BY <1>2 DEF IsSum
<1>4. CASE s # {}
  <2>1. Chosen(s) \in s /\ Chosen(s) \in S
    BY <1>2, <1>4, ChosenIn
  <2>2. g[s \ {Chosen(s)}] = h[s \ {Chosen(s)}]
    BY <1>1, <1>2, <2>1
  <2> QED
    BY <1>3, <1>4, <2>1, <2>2
<1> QED
  BY <1>2, <1>3, <1>4

(* The sums over the parts of a finite set are defined.                       *)
LEMMA SumDefined ==
  ASSUME NEW S, IsFiniteSet(S), NEW f
  PROVE  IsSum(SumOf(f, S), f, S)
<1> SUFFICES ASSUME NEW B, B = {s \in SUBSET S : ~ IsSum(SumOf(f, s), f, s)}, B # {}
             PROVE  FALSE
  OBVIOUS
<1>1. PICK s \in B : \A u \in SUBSET s : u # s => u \notin B
  BY Smallest
<1>2. \A u \in SUBSET s : u # s => IsSum(SumOf(f, u), f, u)
  BY <1>1
<1>3. s \in SUBSET S /\ ~ IsSum(SumOf(f, s), f, s)
  OBVIOUS
<1> DEFINE Rest(u) == u \ {Chosen(u)}
           h == [u \in SUBSET s |-> IF u = {} THEN 0 ELSE f[Chosen(u)] + SumOf(f, Rest(u))[Rest(u)]]
<1>4. ASSUME NEW u \in SUBSET s, u # {}
      PROVE  h[Rest(u)] = SumOf(f, Rest(u))[Rest(u)]
  <2> DEFINE v == Rest(u)
  <2>1. v \in SUBSET s /\ v # s /\ IsFiniteSet(v)
    BY <1>3, <1>4, ChosenIn, FS_Subset
  <2> HIDE DEF v
  <2>2. IsSum(SumOf(f, v), f, v)
    BY <1>2, <2>1
  <2>3. SumOf(f, v)[v] = IF v = {} THEN 0 ELSE f[Chosen(v)] + SumOf(f, v)[Rest(v)]
    <3>1. v \in SUBSET v
      OBVIOUS
    <3> QED
      BY <2>2, <3>1 DEF IsSum
  <2>4. h[v] = IF v = {} THEN 0 ELSE f[Chosen(v)] + SumOf(f, Rest(v))[Rest(v)]
    BY <2>1
  <2>5. ASSUME v # {} PROVE h[v] = SumOf(f, v)[v]
    <3>1. /\ Rest(v) \in SUBSET v /\ Rest(v) \in SUBSET s /\ Rest(v) # s
          /\ IsFiniteSet(Rest(v)) /\ Rest(v) \subseteq v
      BY <2>1, <2>5, ChosenIn, FS_Subset
    <3>2. IsSum(SumOf(f, Rest(v)), f, Rest(v))
      BY <1>2, <3>1
    <3>3. \A w \in SUBSET Rest(v) : SumOf(f, Rest(v))[w] = SumOf(f, v)[w]
      <4> DEFINE r == Rest(v)
                 g1 == SumOf(f, r)
                 g2 == SumOf(f, v)
      <4>1. IsFiniteSet(r) /\ r \subseteq v /\ IsSum(g1, f, r) /\ IsSum(g2, f, v)
        BY <2>2, <3>1, <3>2
      <4> HIDE DEF r, g1, g2
      <4>2. \A w \in SUBSET r : g1[w] = g2[w]
        BY <4>1, SumsAgree
      <4> QED
        BY <4>2 DEF r, g1, g2
    <3>4. SumOf(f, Rest(v))[Rest(v)] = SumOf(f, v)[Rest(v)]
      BY <3>3
    <3> HIDE DEF h, Rest
    <3> QED
      BY <2>3, <2>4, <3>4
  <2>6. ASSUME v = {} PROVE h[v] = SumOf(f, v)[v]
    <3> HIDE DEF h, Rest
    <3> QED
      BY <2>3, <2>4, <2>6
  <2> QED
    BY <2>5, <2>6 DEF v
<1>5. h = [u \in SUBSET s |-> IF u = {} THEN 0 ELSE f[Chosen(u)] + h[u \ {Chosen(u)}]]
  <2>1. \A u \in SUBSET s : h[u] = IF u = {} THEN 0 ELSE f[Chosen(u)] + h[u \ {Chosen(u)}]
    BY <1>4
  <2>2. h = [u \in SUBSET s |-> h[u]]
    OBVIOUS
  <2> HIDE DEF h
  <2> QED
    BY <2>1, <2>2
<1>6. IsSum(h, f, s)
  BY <1>5 DEF IsSum
<1> HIDE DEF h
<1> QED
  BY <1>3, <1>6 DEF SumOf

(* A sum of integers is an integer, and in any order the same.               *)
LEMMA SumFacts ==
  ASSUME NEW S, IsFiniteSet(S), NEW f, \A x \in S : f[x] \in Int
  PROVE  /\ SumOf(f, S)[{}] = 0
         /\ \A s \in SUBSET S : SumOf(f, S)[s] \in Int
         /\ \A s \in SUBSET S : \A a \in s : SumOf(f, S)[s] = f[a] + SumOf(f, S)[s \ {a}]
<1> DEFINE g == SumOf(f, S)
<1>1. IsSum(g, f, S)
  BY SumDefined
<1> HIDE DEF g
<1>2. \A s \in SUBSET S : g[s] = IF s = {} THEN 0 ELSE f[Chosen(s)] + g[s \ {Chosen(s)}]
  BY <1>1 DEF IsSum
<1>3. {s \in SUBSET S : g[s] \notin Int} = {}
  <2> DEFINE B == {s \in SUBSET S : g[s] \notin Int}
  <2> SUFFICES ASSUME B # {} PROVE FALSE
    OBVIOUS
  <2>0. B \in SUBSET (SUBSET S) /\ \A s \in SUBSET S : s \in B <=> g[s] \notin Int
    OBVIOUS
  <2> HIDE DEF B
  <2>1. PICK s \in B : \A u \in SUBSET s : u # s => u \notin B
    BY <2>0, Smallest
  <2>2. s \in SUBSET S /\ g[s] \notin Int
    BY <2>0
  <2>3. s # {}
    <3>1. g[{}] = 0
      BY <1>2
    <3> QED
      BY <2>2, <3>1
  <2>4. Chosen(s) \in s
    BY <2>3, ChosenIn
  <2>5. g[s \ {Chosen(s)}] \in Int
    BY <2>0, <2>1, <2>2, <2>4
  <2>6. g[s] = f[Chosen(s)] + g[s \ {Chosen(s)}] /\ f[Chosen(s)] \in Int
    BY <1>2, <2>2, <2>3, <2>4
  <2> QED
    BY <2>2, <2>5, <2>6
<1>4. \A s \in SUBSET S : g[s] \in Int
  BY <1>3
<1>5. {s \in SUBSET S : \E a \in s : g[s] # f[a] + g[s \ {a}]} = {}
  <2> DEFINE Apart(s) == \E a \in s : g[s] # f[a] + g[s \ {a}]
             B == {s \in SUBSET S : Apart(s)}
  <2> SUFFICES ASSUME B # {} PROVE FALSE
    OBVIOUS
  <2>0. B \in SUBSET (SUBSET S) /\ \A s \in SUBSET S : s \in B <=> Apart(s)
    OBVIOUS
  <2> HIDE DEF B
  <2>1. PICK s \in B : \A u \in SUBSET s : u # s => u \notin B
    BY <2>0, Smallest
  <2>2. s \in SUBSET S
    BY <2>0
  <2>3. PICK a \in s : g[s] # f[a] + g[s \ {a}]
    BY <2>0, <2>2
  <2>4. PICK x \in s : x = Chosen(s)
    BY <2>3, ChosenIn
  <2>5. g[s] = f[x] + g[s \ {x}]
    BY <1>2, <2>2, <2>4
  <2>6. a # x
    BY <2>3, <2>5
  <2>7. /\ s \ {x} \in SUBSET S /\ s \ {x} # s /\ a \in s \ {x} /\ s \ {x} \in SUBSET s
        /\ s \ {a} \in SUBSET S /\ s \ {a} # s /\ x \in s \ {a} /\ s \ {a} \in SUBSET s
    BY <2>2, <2>6
  <2>8. ~Apart(s \ {x}) /\ ~Apart(s \ {a})
    <3> HIDE DEF Apart
    <3> QED
      BY <2>0, <2>1, <2>7
  <2> DEFINE r == (s \ {x}) \ {a}
  <2>9. r = (s \ {a}) \ {x} /\ r \in SUBSET S
    BY <2>2
  <2>10. g[s \ {x}] = f[a] + g[r]
    BY <2>7, <2>8
  <2>11. g[s \ {a}] = f[x] + g[r]
    BY <2>7, <2>8, <2>9
  <2>12. f[a] \in Int /\ f[x] \in Int /\ g[r] \in Int
    BY <1>4, <2>2, <2>9
  <2> HIDE DEF r
  <2>13. f[x] + (f[a] + g[r]) = f[a] + (f[x] + g[r])
    BY <2>12
  <2> QED
    BY <2>3, <2>5, <2>10, <2>11, <2>13
<1>6. \A s \in SUBSET S : \A a \in s : g[s] = f[a] + g[s \ {a}]
  BY <1>5
<1>7. g[{}] = 0
  BY <1>2
<1> QED
  BY <1>4, <1>6, <1>7 DEF g

(* What the sum over a set says of one with another element.                  *)
LEMMA SumInsert ==
  ASSUME NEW S, IsFiniteSet(S), NEW a, a \notin S, NEW f,
         \A x \in S \cup {a} : f[x] \in Int
  PROVE  /\ SumFunctionOnSet(f, S) \in Int
         /\ SumFunctionOnSet(f, S \cup {a}) = SumFunctionOnSet(f, S) + f[a]
<1> DEFINE T == S \cup {a}
           g == SumOf(f, T)
           h == SumOf(f, S)
<1>1. IsFiniteSet(T)
  BY FS_AddElement
<1>2. IsSum(h, f, S) /\ IsSum(g, f, T)
  BY <1>1, SumDefined
<1>3. S \subseteq T /\ S \in SUBSET T /\ T \in SUBSET T /\ a \in T /\ T \ {a} = S
  OBVIOUS
<1>4. g[T] = f[a] + g[T \ {a}]
  <2> HIDE DEF T
  <2> QED
    BY <1>1, <1>3, SumFacts DEF T
<1>5. h[S] \in Int
  BY SumFacts
<1>6. SumFunctionOnSet(f, S) = h[S] /\ SumFunctionOnSet(f, T) = g[T]
  BY SumIs
<1> HIDE DEF g, h, T
<1>7. h[S] = g[S]
  BY <1>2, <1>3, SumsAgree
<1>8. f[a] \in Int /\ f[a] + h[S] = h[S] + f[a]
  BY <1>5
<1>9. g[T] = h[S] + f[a]
  BY <1>3, <1>4, <1>7, <1>8
<1> QED
  BY <1>5, <1>6, <1>9 DEF T

LEMMA SumEmpty ==
  ASSUME NEW f
  PROVE  SumFunctionOnSet(f, {}) = 0
BY SumIs, SumFacts, FS_EmptySet

LEMMA SumSame ==
  ASSUME NEW S, IsFiniteSet(S), NEW f, NEW e, \A x \in S : f[x] = e[x]
  PROVE  SumFunctionOnSet(f, S) = SumFunctionOnSet(e, S)
<1> DEFINE g == SumOf(f, S)
           h == SumOf(e, S)
<1>1. IsSum(g, f, S) /\ IsSum(h, e, S)
  BY SumDefined
<1>2. SumFunctionOnSet(f, S) = g[S] /\ SumFunctionOnSet(e, S) = h[S]
  BY SumIs
<1> HIDE DEF g, h
<1> QED
  BY <1>1, <1>2, SumsAgree

LEMMA TotalType ==
  ASSUME NEW D, NEW f \in [D -> Nat], IsFiniteSet(NonZero(D, f))
  PROVE  Total(D, f) \in Int
<1> DEFINE S == NonZero(D, f)
           p == [x \in D |-> Realsize(f[x])]
<1>1. \A x \in S : p[x] \in Int
  BY PoolAssumption DEF PoolAssumption, Realsize, NonZero
<1>2. IsFiniteSet(S) /\ Total(D, f) = SumFunctionOnSet(p, S)
  BY DEF Total
<1> HIDE DEF S, p
<1>3. S \in SUBSET S
  OBVIOUS
<1> QED
  BY <1>1, <1>2, <1>3, SumIs, SumFacts

(* Map e is f with one more value that is not 0, n at a; its total is so much  *)
(* larger.                                                                   *)
Grown(D, f, e, a, n) ==
  /\ f \in [D -> Nat] /\ e \in [D -> Nat] /\ IsFiniteSet(NonZero(D, f))
  /\ a \in D /\ n \in Nat /\ n # 0
  /\ f[a] = 0 /\ e[a] = n /\ \A x \in D : x # a => e[x] = f[x]

LEMMA TotalGrows ==
  ASSUME NEW D, NEW f, NEW e, NEW a, NEW n, Grown(D, f, e, a, n)
  PROVE  /\ IsFiniteSet(NonZero(D, e))
         /\ Total(D, e) = Total(D, f) + Realsize(n)
<1> USE DEF Grown
<1> DEFINE S == NonZero(D, f)
           p == [x \in D |-> Realsize(f[x])]
           q == [x \in D |-> Realsize(e[x])]
<1>1. e[a] = n /\ \A x \in D : x # a => e[x] = f[x]
  OBVIOUS
<1>2. NonZero(D, e) = S \cup {a} /\ a \notin S
  BY <1>1 DEF NonZero
<1>3. IsFiniteSet(S) /\ IsFiniteSet(S \cup {a})
  BY FS_AddElement
<1>4. Header \in Nat
  BY PoolAssumption DEF PoolAssumption
<1>5. \A x \in S : q[x] = p[x]
  BY <1>1 DEF NonZero
<1>6. \A x \in S \cup {a} : q[x] \in Int
  BY <1>1, <1>4 DEF Realsize, NonZero
<1>7. q[a] = Realsize(n)
  BY <1>1
<1>8. Total(D, f) = SumFunctionOnSet(p, S) /\ Total(D, e) = SumFunctionOnSet(q, S \cup {a})
  BY <1>2 DEF Total
<1> HIDE DEF S, p, q
<1>9. SumFunctionOnSet(q, S) = SumFunctionOnSet(p, S)
  BY <1>3, <1>5, SumSame
<1>10. SumFunctionOnSet(q, S \cup {a}) = SumFunctionOnSet(q, S) + q[a]
  BY <1>2, <1>3, <1>6, SumInsert
<1> QED
  BY <1>2, <1>3, <1>7, <1>8, <1>9, <1>10

LEMMA NonZeroShrinks ==
  ASSUME NEW D, NEW f, NEW e, IsFiniteSet(NonZero(D, f)),
         \A x \in D : e[x] # 0 => f[x] # 0
  PROVE  IsFiniteSet(NonZero(D, e))
<1>1. NonZero(D, e) \subseteq NonZero(D, f)
  BY DEF NonZero
<1> QED
  BY <1>1, FS_Subset

-----------------------------------------------------------------------------
(* The invariant                                                             *)

(* What it takes for the lists to be whole after a step.                     *)
LEMMA QuietStep ==
  ASSUME Quiet', \A c \in Classes : Full(c)'
  PROVE  FlushInv'
BY DEF Quiet, FlushInv

(* A section with which no race begins has the lists for itself.              *)
LEMMA SectionIsAlone ==
  ASSUME NEW t \in Threads, ~InFlush(t), Section(t), ~raced'
  PROVE  Quiet
BY DEF Section, Quiet

(* A step next to a flush: the lists and what the flush knows stay.           *)
LEMMA FlushStays ==
  ASSUME IInv, UNCHANGED <<pool, which, pos, victim>>,
         \A u \in Threads : InFlush(u) <=> InFlush(u)',
         \A u \in Threads : InFlush(u) => pc'[u] = pc[u]
  PROVE  FlushInv'
<1>1. \A c \in Classes : Full(c)' <=> Full(c)
  BY DEF Full
<1>2. ASSUME NEW u \in Threads, InFlush(u)'
      PROVE  FlushedSoFar(u)'
  <2>1. InFlush(u) /\ pc'[u] = pc[u] /\ FlushedSoFar(u)
    BY <1>2 DEF IInv, FlushInv
  <2> QED
    BY <1>1, <2>1 DEF FlushedSoFar
<1>3. Quiet' => \A c \in Classes : Full(c)'
  BY <1>1 DEF IInv, FlushInv, Quiet
<1> QED
  BY <1>2, <1>3 DEF IInv, FlushInv

(* Neither tiny buffers nor what the heap has not given out are on a list.    *)
LEMMA PooledOnHeap ==
  ASSUME IInv, NEW c \in Classes
  PROVE  Pooled(c) \subseteq OnHeap
BY DEF IInv, OneOwner, Classes

(* What the invariant says of one list while nobody flushes.                 *)
LEMMA ListFacts ==
  ASSUME IInv, Quiet, NEW c \in Classes
  PROVE  /\ pool[c] \in Seq(Entry) /\ Len(pool[c]) \in Nat
         /\ DOMAIN pool[c] = 1..Len(pool[c])
         /\ \A k, l \in 1..Len(pool[c]) : pool[c][k].ptr = pool[c][l].ptr => k = l
         /\ \A k \in 1..Len(pool[c]) : /\ pool[c][k] \in Entry
                                      /\ pool[c][k].ptr \in HeapAddrs
                                      /\ pool[c][k].bytes = size[pool[c][k].ptr]
         /\ Pooled(c) = {pool[c][k].ptr : k \in 1..Len(pool[c])}
<1>1. pool[c] \in Seq(Entry) /\ Len(pool[c]) \in Nat /\ DOMAIN pool[c] = 1..Len(pool[c])
  BY DEF IInv, TypeOK
<1>2. \A k \in 1..Len(pool[c]) : pool[c][k] \in Entry /\ pool[c][k].ptr # NULL
  BY <1>1 DEF IInv, FlushInv, Full
<1>3. \A k \in 1..Len(pool[c]) : /\ pool[c][k].ptr \in HeapAddrs
                                 /\ pool[c][k].bytes = size[pool[c][k].ptr]
  BY <1>1, <1>2 DEF IInv, BigEnough, Entry
<1>4. Distinct(Pointers(c))
  BY DEF IInv, OneOwner
<1>5. \A k, l \in 1..Len(pool[c]) : pool[c][k].ptr = pool[c][l].ptr => k = l
  BY <1>1, <1>2, <1>4 DEF Distinct, Pointers
<1>6. Pooled(c) = {pool[c][k].ptr : k \in 1..Len(pool[c])}
  BY <1>1, <1>2 DEF Pooled
<1> QED
  BY <1>1, <1>2, <1>3, <1>5, <1>6

(* What is handed out while it is free has one request to serve.             *)
LEMMA FirstUse ==
  ASSUME IInv, NEW a \in Addrs \ held, NEW n \in Nat
  PROVE  [asked EXCEPT ![a] = @ + n] = [asked EXCEPT ![a] = n]
<1>1. asked[a] = 0
  BY DEF IInv, Unasked
<1> QED
  BY <1>1

(* The constructor establishes it.                                           *)
LEMMA InitInv ==
  ASSUME Init
  PROVE  IInv
<1> USE DEF Init
<1>0. Cardinality(TinyAddrs) \in Nat
  BY PoolAssumption, FS_CardinalityType DEF PoolAssumption
<1>1. /\ tinyPool \in [1..Cardinality(TinyAddrs) -> TinyAddrs]
      /\ \A k, l \in DOMAIN tinyPool : tinyPool[k] = tinyPool[l] => k = l
      /\ \A a \in TinyAddrs : \E k \in DOMAIN tinyPool : tinyPool[k] = a
  BY DEF Bijection, Injection, Surjection, IsInjective
<1>2. tinyPool \in Seq(TinyAddrs) /\ Len(tinyPool) = Cardinality(TinyAddrs)
  <2>1. ASSUME NEW n \in Nat, NEW s \in [1..n -> TinyAddrs]
        PROVE  s \in Seq(TinyAddrs) /\ Len(s) = n
    OBVIOUS
  <2> QED
    BY <1>0, <1>1, <2>1
<1>3. \A c \in Classes : pool[c] = <<>> /\ Pooled(c) = {} /\ MaxBuffers(c) \in Nat
  BY PoolAssumption DEF Pooled, MaxBuffers, PoolAssumption
<1>4. TypeOK
  <2>1. pool \in [Classes -> Seq(Entry)] /\ \A c \in Classes : Len(pool[c]) <= MaxBuffers(c)
    BY <1>3
  <2>2. /\ tinyPool \in Seq(TinyAddrs) /\ Len(tinyPool) <= Cardinality(TinyAddrs)
        /\ size \in [HeapAddrs -> Nat] /\ bytesAllocated \in Int /\ ooms \in 0..MaxOoms
        /\ held \subseteq Addrs /\ asked \in [Addrs -> Nat]
    BY <1>0, <1>2, PoolAssumption DEF PoolAssumption
  <2>3. /\ pc \in [Threads -> {"idle", "heap", "flush", "release", "zero", "again", "crash"}]
        /\ want \in [Threads -> Sizes \cup {0}] /\ which \in [Threads -> Classes]
        /\ pos \in [Threads -> Nat] /\ victim \in [Threads -> Entry] /\ sum \in [Threads -> Int]
    BY DEF Classes, Entry, NoEntry
  <2> QED
    BY <2>1, <2>2, <2>3 DEF TypeOK
<1>5. Asking /\ FlushInv
  BY <1>3 DEF Asking, FlushInv, InFlush, Full
<1>6. OneOwner
  <2>1. Distinct(tinyPool) /\ TinyAddrs \subseteq FreeTiny
    BY <1>1 DEF Distinct, FreeTiny
  <2>2. \A c \in Classes : Distinct(Pointers(c))
    BY <1>3 DEF Distinct, Pointers
  <2>3. OnHeap = {}
    BY DEF OnHeap
  <2> QED
    BY <1>3, <2>1, <2>2, <2>3 DEF OneOwner, Classes
<1>7. BigEnough
  BY <1>3 DEF BigEnough
<1>8. Unasked
  BY DEF Unasked
<1> QED
  BY <1>4, <1>5, <1>6, <1>7, <1>8 DEF IInv

(* A tiny buffer is handed out (lines 99-105, 268-296).                      *)
LEMMA TinyMallocInv ==
  ASSUME IInv, NEW n \in Sizes, tinyMalloc(n)
  PROVE  IInv' /\ User!Give
<1> DEFINE a == tinyPool[Len(tinyPool)]
<1>1. /\ tinyPool \in Seq(TinyAddrs) /\ tinyPool # <<>>
      /\ Len(tinyPool) \in 1..Len(tinyPool) /\ a \in TinyAddrs /\ a \in FreeTiny
  BY DEF IInv, TypeOK, tinyMalloc, Tiny, FreeTiny
<1>2. /\ tinyPool' \in Seq(TinyAddrs) /\ Len(tinyPool') = Len(tinyPool) - 1
      /\ DOMAIN tinyPool' = 1..(Len(tinyPool) - 1)
      /\ \A k \in 1..(Len(tinyPool) - 1) : tinyPool'[k] = tinyPool[k]
  BY <1>1, FrontLemma DEF tinyMalloc
<1>3. \A k, l \in 1..Len(tinyPool) : tinyPool[k] = tinyPool[l] => k = l
  BY <1>1, PoolAssumption DEF IInv, OneOwner, Distinct, PoolAssumption
<1>4. FreeTiny' = FreeTiny \ {a}
  BY <1>1, <1>2, <1>3 DEF FreeTiny
<1>5. a \notin held /\ a \in Addrs /\ a \notin HeapAddrs /\ n \in Nat
  BY <1>1, PoolAssumption DEF IInv, OneOwner, Addrs, PoolAssumption
<1>6. /\ held' = held \cup {a} /\ asked' = [asked EXCEPT ![a] = n] /\ n <= TinySize
      /\ UNCHANGED <<pool, heapVars, flushVars, pc, want>>
  BY <1>5, FirstUse DEF tinyMalloc, Handout, Tiny
<1>7. TypeOK'
  <2>1. Cardinality(TinyAddrs) \in Nat /\ Len(tinyPool) <= Cardinality(TinyAddrs)
    BY PoolAssumption, FS_CardinalityType DEF PoolAssumption, IInv, TypeOK
  <2>2. Len(tinyPool') <= Cardinality(TinyAddrs)
    BY <1>1, <1>2, <2>1
  <2> QED
    BY <1>1, <1>2, <1>6, <1>5, <2>2 DEF IInv, TypeOK, heapVars, flushVars
<1>8. Asking' /\ FlushInv'
  BY <1>6, FlushStays DEF IInv, Asking, InFlush, flushVars
<1>9. OneOwner'
  <2>1. Distinct(tinyPool)'
    BY <1>2, <1>3 DEF Distinct
  <2>2. \A c \in Classes : Distinct(Pointers(c))' /\ Pooled(c)' = Pooled(c)
    BY <1>6 DEF IInv, OneOwner, Distinct, Pointers, Pooled
  <2>3. OnHeap' = OnHeap
    BY <1>6 DEF OnHeap, heapVars
  <2>4. \A c \in Classes : a \notin Pooled(c)
    BY <1>5, PooledOnHeap DEF OnHeap
  <2> QED
    BY <1>4, <1>6, <1>5, <2>1, <2>2, <2>3, <2>4 DEF IInv, OneOwner, Classes
<1>10. BigEnough'
  BY <1>6, <1>5 DEF IInv, BigEnough, TypeOK, heapVars
<1>11. Unasked'
  BY <1>6 DEF IInv, Unasked, TypeOK
<1> QED
  BY <1>5, <1>6, <1>7, <1>8, <1>9, <1>10, <1>11 DEF IInv, User!Give

(* A tiny buffer comes back (lines 191-196, 303-323).                        *)
LEMMA TinyFreeInv ==
  ASSUME IInv, NEW t \in Threads, NEW a \in held, free(t, a), tinyFree(a)
  PROVE  IInv'
<1>1. /\ a \in TinyAddrs /\ a \notin HeapAddrs /\ a \in Addrs
      /\ tinyPool \in Seq(TinyAddrs) /\ Len(tinyPool) \in Nat
      /\ DOMAIN tinyPool = 1..Len(tinyPool)
  BY PoolAssumption DEF IInv, TypeOK, tinyFree, Addrs, PoolAssumption
<1>2. /\ tinyPool' \in Seq(TinyAddrs) /\ Len(tinyPool') = Len(tinyPool) + 1
      /\ DOMAIN tinyPool' = 1..(Len(tinyPool) + 1)
      /\ \A k \in 1..Len(tinyPool) : tinyPool'[k] = tinyPool[k]
      /\ tinyPool'[Len(tinyPool) + 1] = a
  BY <1>1, AppendLemma DEF tinyFree
<1>3. \A k, l \in 1..Len(tinyPool) : tinyPool[k] = tinyPool[l] => k = l
  BY <1>1, PoolAssumption DEF IInv, OneOwner, Distinct, PoolAssumption
<1>4. \A k \in 1..Len(tinyPool) : tinyPool[k] # a
  BY <1>1 DEF IInv, OneOwner, FreeTiny
<1>5. FreeTiny' = FreeTiny \cup {a}
  BY <1>1, <1>2 DEF FreeTiny
<1>6. /\ held' = held \ {a} /\ asked' = [asked EXCEPT ![a] = 0]
      /\ UNCHANGED <<pool, heapVars, flushVars, pc, want>>
  BY DEF free, tinyFree, heapVars
<1>7. Len(tinyPool) + 1 <= Cardinality(TinyAddrs)
  <2>1. \A k \in 1..Len(tinyPool) : tinyPool[k] \in TinyAddrs \ {a}
    BY <1>1, <1>4
  <2>2. tinyPool \in Seq(TinyAddrs \ {a})
    BY <1>1, <2>1
  <2> QED
    BY <1>1, <1>3, <2>2, DistinctLemma, PoolAssumption DEF PoolAssumption
<1>8. TypeOK'
  BY <1>1, <1>2, <1>6, <1>7 DEF IInv, TypeOK, heapVars, flushVars
<1>9. Asking' /\ FlushInv'
  BY <1>6, FlushStays DEF IInv, Asking, InFlush, flushVars
<1>10. OneOwner'
  <2>1. Distinct(tinyPool)'
    BY <1>1, <1>2, <1>3, <1>4 DEF Distinct
  <2>2. \A c \in Classes : Distinct(Pointers(c))' /\ Pooled(c)' = Pooled(c)
    BY <1>6 DEF IInv, OneOwner, Distinct, Pointers, Pooled
  <2>3. OnHeap' = OnHeap
    BY <1>6 DEF OnHeap, heapVars
  <2>4. \A c \in Classes : a \notin Pooled(c)
    BY <1>1, PooledOnHeap DEF OnHeap
  <2> QED
    BY <1>1, <1>5, <1>6, <2>1, <2>2, <2>3, <2>4 DEF IInv, OneOwner, Classes
<1>11. BigEnough'
  BY <1>6 DEF IInv, BigEnough, TypeOK, heapVars, Addrs
<1>12. Unasked'
  BY <1>6 DEF IInv, Unasked, TypeOK
<1> QED
  BY <1>8, <1>9, <1>10, <1>11, <1>12 DEF IInv

(* A block from a list is handed out (lines 111-134, 337-360).               *)
LEMMA PoolMallocInv ==
  ASSUME IInv, Quiet, NEW t \in Threads, NEW n \in Sizes, poolMalloc(t, n)
  PROVE  IInv' /\ User!Give
<1>0. PICK c \in Classes : \E k \in Fitting(c, n) :
         Handout(pool[c][k].ptr, n) /\ pool' = [pool EXCEPT ![c] = Without(@, k)]
  BY DEF poolMalloc, SmallOrMed, Classes
<1>1. PICK k \in Fitting(c, n) :
         Handout(pool[c][k].ptr, n) /\ pool' = [pool EXCEPT ![c] = Without(@, k)]
  BY <1>0
<1> DEFINE a == pool[c][k].ptr
<1>2. k \in 1..Len(pool[c]) /\ pool[c][k].bytes >= n
  BY <1>1, ListFacts DEF Fitting
<1>3. /\ a \in HeapAddrs /\ a \in Addrs /\ a \notin TinyAddrs /\ a \in Pooled(c)
      /\ n \in Nat /\ n <= size[a]
  BY <1>2, ListFacts, PoolAssumption DEF Addrs, PoolAssumption
<1>4. a \notin held /\ \A d \in Classes : d # c => a \notin Pooled(d)
  BY <1>3 DEF IInv, OneOwner, Classes
<1>5. /\ held' = held \cup {a} /\ asked' = [asked EXCEPT ![a] = n]
      /\ UNCHANGED <<tinyPool, heapVars, flushVars, pc, want>>
  BY <1>1, <1>3, <1>4, FirstUse DEF poolMalloc, Handout
<1>6. pool' = [pool EXCEPT ![c] = Without(pool[c], k)] /\ pool'[c] = Without(pool[c], k)
      /\ \A d \in Classes : d # c => pool'[d] = pool[d]
  BY <1>1 DEF IInv, TypeOK
<1>7. /\ pool'[c] \in Seq(Entry) /\ Len(pool'[c]) = Len(pool[c]) - 1
      /\ DOMAIN pool'[c] = 1..Len(pool'[c])
      /\ \A l \in DOMAIN pool'[c] : \E m \in 1..Len(pool[c]) : pool'[c][l] = pool[c][m]
      /\ \A l, m \in DOMAIN pool'[c] : pool'[c][l].ptr = pool'[c][m].ptr => l = m
      /\ {pool'[c][l].ptr : l \in DOMAIN pool'[c]} = Pooled(c) \ {a}
  <2>1. /\ pool[c] \in Seq(Entry)
        /\ \A l, m \in 1..Len(pool[c]) : pool[c][l].ptr = pool[c][m].ptr => l = m
        /\ Pooled(c) = {pool[c][l].ptr : l \in 1..Len(pool[c])}
    BY ListFacts
  <2>3. k \in 1..Len(pool[c])
    BY <1>2
  <2> DEFINE p == pool[c]
  <2>4. p \in Seq(Entry) /\ k \in 1..Len(p)
    BY <2>1, <2>3
  <2>5. \A l, m \in 1..Len(p) : p[l].ptr = p[m].ptr => l = m
    BY <2>1
  <2>6. pool'[c] = Without(p, k) /\ Pooled(c) = {p[l].ptr : l \in 1..Len(p)} /\ a = p[k].ptr
    BY <1>6, <2>1
  <2> HIDE DEF p
  <2>7. LET q == Without(p, k) IN
        /\ q \in Seq(Entry) /\ Len(q) = Len(p) - 1 /\ DOMAIN q = 1..Len(q)
        /\ \A l \in DOMAIN q : \E m \in 1..Len(p) : q[l] = p[m]
        /\ \A l, m \in DOMAIN q : q[l].ptr = q[m].ptr => l = m
        /\ {q[l].ptr : l \in DOMAIN q} = {p[l].ptr : l \in 1..Len(p)} \ {p[k].ptr}
    BY <2>4, <2>5, WithoutPointers, Zenon
  <2> DEFINE q == Without(p, k)
  <2>8. pool'[c] = q
    BY <2>6
  <2> HIDE DEF q
  <2>9. /\ pool'[c] \in Seq(Entry) /\ Len(pool'[c]) = Len(p) - 1
        /\ DOMAIN pool'[c] = 1..Len(pool'[c])
        /\ \A l \in DOMAIN pool'[c] : \E m \in 1..Len(p) : pool'[c][l] = p[m]
        /\ \A l, m \in DOMAIN pool'[c] : pool'[c][l].ptr = pool'[c][m].ptr => l = m
    BY <2>7, <2>8 DEF q
  <2>10. {pool'[c][l].ptr : l \in DOMAIN pool'[c]} = Pooled(c) \ {a}
    <3>1. {q[l].ptr : l \in DOMAIN q} = {p[l].ptr : l \in 1..Len(p)} \ {p[k].ptr}
      BY <2>7 DEF q
    <3> QED
      BY <2>6, <2>8, <3>1
  <2> QED
    BY <2>9, <2>10 DEF p
<1>8. TypeOK'
  <2>1. pool' \in [Classes -> Seq(Entry)]
    BY <1>6, <1>7 DEF IInv, TypeOK
  <2>2. \A d \in Classes : Len(pool'[d]) <= MaxBuffers(d)
    <3>1. MaxBuffers(c) \in Nat /\ Len(pool[c]) \in Nat /\ Len(pool[c]) <= MaxBuffers(c)
      BY ListFacts, PoolAssumption DEF MaxBuffers, PoolAssumption, IInv, TypeOK
    <3>2. Len(pool'[c]) <= MaxBuffers(c)
      BY <1>7, <3>1
    <3> QED
      BY <1>6, <3>2 DEF IInv, TypeOK
  <2> QED
    BY <1>5, <1>3, <2>1, <2>2 DEF IInv, TypeOK, heapVars, flushVars
<1>9. Asking' /\ Quiet'
  BY <1>5 DEF IInv, Asking, Quiet, InFlush
<1>10. FlushInv'
  <2>1. ASSUME NEW l \in DOMAIN pool'[c]
        PROVE  pool'[c][l].ptr # NULL
    <3>1. PICK m \in 1..Len(pool[c]) : pool'[c][l] = pool[c][m]
      BY <1>7
    <3>2. pool[c][m].ptr \in HeapAddrs
      BY ListFacts
    <3> QED
      BY <3>1, <3>2, PoolAssumption DEF PoolAssumption
  <2> QED
    BY <1>6, <1>9, <2>1, QuietStep DEF IInv, FlushInv, Full
<1>11. \A d \in Classes : Pooled(d)' = IF d = c THEN Pooled(c) \ {a} ELSE Pooled(d)
  <2>1. Pooled(c)' = Pooled(c) \ {a}
    BY <1>7, ListFacts, PoolAssumption DEF Pooled, PoolAssumption
  <2>2. \A d \in Classes : d # c => Pooled(d)' = Pooled(d)
    BY <1>6 DEF Pooled
  <2> QED
    BY <2>1, <2>2
<1>12. OneOwner'
  <2>1. Distinct(tinyPool)' /\ FreeTiny' = FreeTiny /\ OnHeap' = OnHeap
    BY <1>5 DEF IInv, OneOwner, Distinct, FreeTiny, OnHeap, heapVars
  <2>2. \A d \in Classes : Distinct(Pointers(d))'
    <3>1. Distinct(Pointers(c))'
      BY <1>7 DEF Distinct, Pointers
    <3>2. \A d \in Classes : d # c => Distinct(Pointers(d))'
      BY <1>6 DEF IInv, OneOwner, Distinct, Pointers
    <3> QED
      BY <3>1, <3>2
  <2>3. c = "small" \/ c = "med"
    BY DEF Classes
  <2>4. a \notin FreeTiny
    BY <1>3 DEF IInv, TypeOK, FreeTiny
  <2> QED
    BY <1>5, <1>3, <1>4, <1>11, <2>1, <2>2, <2>3, <2>4 DEF IInv, OneOwner, Classes
<1>13. BigEnough'
  <2>1. \A b \in held' \cap HeapAddrs : asked'[b] <= size'[b]
    BY <1>5, <1>3 DEF IInv, BigEnough, TypeOK, heapVars
  <2>2. \A b \in held' \cap TinyAddrs : asked'[b] <= TinySize
    BY <1>5, <1>3 DEF IInv, BigEnough, TypeOK
  <2>3. ASSUME NEW l \in DOMAIN pool'[c]
        PROVE  pool'[c][l].bytes = size'[pool'[c][l].ptr]
    <3>1. PICK m \in 1..Len(pool[c]) : pool'[c][l] = pool[c][m]
      BY <1>7
    <3>2. pool[c][m].bytes = size[pool[c][m].ptr]
      BY ListFacts
    <3> QED
      BY <1>5, <3>1, <3>2 DEF heapVars
  <2>4. \A d \in Classes : \A l \in DOMAIN pool'[d] :
          pool'[d][l].ptr # NULL => pool'[d][l].bytes = size'[pool'[d][l].ptr]
    BY <1>5, <1>6, <2>3 DEF IInv, BigEnough, heapVars
  <2> QED
    BY <2>1, <2>2, <2>4 DEF BigEnough
<1>14. Unasked'
  BY <1>5 DEF IInv, Unasked, TypeOK
<1> QED
  BY <1>3, <1>4, <1>5, <1>8, <1>9, <1>10, <1>12, <1>13, <1>14 DEF IInv, User!Give

(* The lists have nothing, the heap is asked (lines 136-145).                *)
LEMMA HeapEnterInv ==
  ASSUME IInv, Quiet, NEW t \in Threads, NEW n \in Sizes, heapEnter(t, n)
  PROVE  IInv' /\ UNCHANGED <<held, asked>>
<1>1. /\ bytesAllocated' = bytesAllocated + Realsize(n)
      /\ want' = [want EXCEPT ![t] = n] /\ pc' = [pc EXCEPT ![t] = "heap"]
      /\ UNCHANGED <<tinyPool, pool, size, ooms, held, asked, flushVars>>
  BY DEF heapEnter, listVars, userVars
<1>2. Realsize(n) \in Nat
  BY PoolAssumption DEF Realsize, PoolAssumption
<1>3. TypeOK'
  BY <1>1, <1>2 DEF IInv, TypeOK, flushVars
<1>4. Asking' /\ Quiet'
  BY <1>1 DEF IInv, Asking, Quiet, InFlush, TypeOK
<1>5. FlushInv' /\ BigEnough'
  BY <1>1, <1>4, QuietStep DEF IInv, FlushInv, Full, BigEnough
<1>6. OneOwner'
  <2>1. \A c \in Classes : Distinct(Pointers(c))' /\ Pooled(c)' = Pooled(c)
    BY <1>1 DEF IInv, OneOwner, Distinct, Pointers, Pooled
  <2>2. Distinct(tinyPool)' /\ FreeTiny' = FreeTiny /\ OnHeap' = OnHeap /\ held' = held
    BY <1>1 DEF IInv, OneOwner, Distinct, FreeTiny, OnHeap
  <2> QED
    BY <2>1, <2>2 DEF IInv, OneOwner, Classes
<1>7. Unasked'
  BY <1>1 DEF IInv, Unasked, TypeOK
<1> QED
  BY <1>1, <1>3, <1>4, <1>5, <1>6, <1>7 DEF IInv

(* The heap gives a block (lines 145, 177-179).                              *)
LEMMA HeapMallocInv ==
  ASSUME IInv, NEW t \in Threads, heapMalloc(t)
  PROVE  IInv' /\ User!Give
<1>1. PICK a \in HeapAddrs : /\ size[a] = 0 /\ size' = [size EXCEPT ![a] = want[t]]
                             /\ Handout(a, want[t])
  BY DEF heapMalloc
<1>2. /\ want' = [want EXCEPT ![t] = 0] /\ pc' = [pc EXCEPT ![t] = "idle"]
      /\ UNCHANGED <<tinyPool, pool, bytesAllocated, ooms, flushVars>>
      /\ pc[t] \in {"heap", "again"}
  BY DEF heapMalloc, listVars
<1>3. want[t] \in Sizes /\ want[t] \in Nat /\ want[t] # 0
  BY <1>2, PoolAssumption DEF IInv, Asking, PoolAssumption
<1>4. /\ a \in Addrs /\ a \notin TinyAddrs /\ a \notin OnHeap
      /\ a \notin held /\ \A c \in Classes : a \notin Pooled(c)
  BY <1>1, PoolAssumption DEF IInv, OneOwner, OnHeap, Addrs, Classes, PoolAssumption
<1>5. /\ size[a] = 0 /\ size' = [size EXCEPT ![a] = want[t]]
      /\ held' = held \cup {a} /\ asked' = [asked EXCEPT ![a] = want[t]]
  BY <1>1, <1>3, <1>4, FirstUse DEF Handout
<1>6. TypeOK'
  BY <1>5, <1>2, <1>3, <1>4 DEF IInv, TypeOK, flushVars
<1>7. Asking' /\ FlushInv'
  <2>1. Asking' /\ \A u \in Threads : u # t => pc'[u] = pc[u]
    BY <1>2 DEF IInv, Asking, TypeOK
  <2>2. ~InFlush(t) /\ ~InFlush(t)'
    BY <1>2 DEF InFlush, IInv, TypeOK
  <2>3. \A u \in Threads : (InFlush(u) <=> InFlush(u)') /\ (InFlush(u) => pc'[u] = pc[u])
    BY <2>1, <2>2 DEF InFlush
  <2> QED
    BY <1>2, <2>1, <2>3, FlushStays DEF flushVars
<1>8. OnHeap' = OnHeap \cup {a}
  BY <1>5, <1>3 DEF OnHeap, IInv, TypeOK
<1>9. OneOwner'
  <2>1. /\ Distinct(tinyPool)' /\ FreeTiny' = FreeTiny
        /\ \A c \in Classes : Distinct(Pointers(c))' /\ Pooled(c)' = Pooled(c)
    <3>1. tinyPool' = tinyPool /\ pool' = pool
      BY <1>2
    <3>2. Distinct(tinyPool) /\ \A c \in Classes : Distinct(Pointers(c))
      BY DEF IInv, OneOwner
    <3> QED
      BY <3>1, <3>2 DEF Distinct, FreeTiny, Pointers, Pooled
  <2>2. a \notin FreeTiny
    BY <1>4 DEF IInv, TypeOK, FreeTiny
  <2> QED
    BY <1>5, <1>4, <1>8, <2>1, <2>2 DEF IInv, OneOwner, Classes
<1>10. BigEnough'
  <2>1. \A b \in held' \cap HeapAddrs : asked'[b] <= size'[b]
    BY <1>5, <1>3, <1>4 DEF IInv, BigEnough, TypeOK
  <2>2. \A b \in held' \cap TinyAddrs : asked'[b] <= TinySize
    BY <1>5, <1>4 DEF IInv, BigEnough, TypeOK
  <2>3. ASSUME NEW c \in Classes, NEW k \in DOMAIN pool'[c], pool'[c][k].ptr # NULL
        PROVE  pool'[c][k].bytes = size'[pool'[c][k].ptr]
    <3>1. pool' = pool /\ pool[c][k].ptr \in Pooled(c)
      BY <1>2, <2>3 DEF Pooled
    <3>2. pool[c][k].ptr # a /\ pool[c][k].ptr \in HeapAddrs
      BY <1>4, <3>1, PooledOnHeap DEF OnHeap
    <3>3. pool[c][k].bytes = size[pool[c][k].ptr]
      BY <2>3, <3>1 DEF IInv, BigEnough
    <3> QED
      BY <1>5, <3>1, <3>2, <3>3 DEF IInv, TypeOK
  <2> QED
    BY <2>1, <2>2, <2>3 DEF BigEnough
<1>11. Unasked'
  BY <1>5 DEF IInv, Unasked, TypeOK
<1> QED
  BY <1>3, <1>4, <1>5, <1>6, <1>7, <1>9, <1>10, <1>11 DEF IInv, User!Give

(* A block is put on a list (lines 198-217).                                 *)
LEMMA PoolFreeInv ==
  ASSUME IInv, Quiet, NEW t \in Threads, NEW a \in held, a \in HeapAddrs,
         free(t, a), poolFree(t, a, size[a])
  PROVE  IInv'
<1> DEFINE e == [ptr |-> a, bytes |-> size[a]]
<1>1. PICK c \in Classes : Len(pool[c]) < MaxBuffers(c)
                           /\ pool' = [pool EXCEPT ![c] = Append(pool[c], e)]
  BY DEF poolFree, SmallOrMed, Classes, IInv, TypeOK
<1>2. /\ held' = held \ {a} /\ asked' = [asked EXCEPT ![a] = 0]
      /\ UNCHANGED <<tinyPool, heapVars, flushVars, pc, want>>
  BY DEF free, poolFree, heapVars
<1>3. /\ a \in HeapAddrs /\ a \in Addrs /\ a \notin TinyAddrs /\ a # NULL
      /\ a \notin FreeTiny /\ \A d \in Classes : a \notin Pooled(d)
  BY PoolAssumption DEF poolFree, IInv, OneOwner, Addrs, Classes, PoolAssumption
<1>4. e \in Entry /\ e.ptr = a /\ e.bytes = size[a]
  BY <1>3 DEF IInv, TypeOK, Entry
<1> HIDE DEF e
<1>5. /\ pool'[c] = Append(pool[c], e)
      /\ \A d \in Classes : d # c => pool'[d] = pool[d]
  BY <1>1 DEF IInv, TypeOK
<1>6. /\ pool[c] \in Seq(Entry) /\ Len(pool[c]) \in Nat
      /\ \A k, l \in 1..Len(pool[c]) : pool[c][k].ptr = pool[c][l].ptr => k = l
      /\ \A k \in 1..Len(pool[c]) : /\ pool[c][k].ptr \in HeapAddrs /\ pool[c][k].ptr # a
                                   /\ pool[c][k].bytes = size[pool[c][k].ptr]
      /\ Pooled(c) = {pool[c][k].ptr : k \in 1..Len(pool[c])}
  BY <1>3, ListFacts
<1>7. /\ pool'[c] \in Seq(Entry) /\ Len(pool'[c]) = Len(pool[c]) + 1
      /\ DOMAIN pool'[c] = 1..(Len(pool[c]) + 1)
      /\ \A k \in 1..Len(pool[c]) : pool'[c][k] = pool[c][k]
      /\ pool'[c][Len(pool[c]) + 1] = e
  BY <1>4, <1>5, <1>6, AppendLemma
<1>8. \A k \in DOMAIN pool'[c] : k \in 1..Len(pool[c]) \/ k = Len(pool[c]) + 1
  BY <1>6, <1>7
<1>9. ASSUME NEW k \in DOMAIN pool'[c]
       PROVE  /\ pool'[c][k].ptr # NULL /\ pool'[c][k].bytes = size[pool'[c][k].ptr]
              /\ pool'[c][k].ptr \in Pooled(c) \cup {a}
  <2>1. CASE k \in 1..Len(pool[c])
    <3>1. pool'[c][k] = pool[c][k]
      BY <1>7, <2>1
    <3>2. /\ pool[c][k].ptr \in HeapAddrs /\ pool[c][k].bytes = size[pool[c][k].ptr]
          /\ pool[c][k].ptr \in Pooled(c)
      BY <1>6, <2>1
    <3> QED
      BY <3>1, <3>2, PoolAssumption DEF PoolAssumption
  <2>2. CASE k = Len(pool[c]) + 1
    BY <1>3, <1>4, <1>7, <2>2
  <2> QED
    BY <1>8, <2>1, <2>2
<1>10. \A d \in Classes : Pooled(d)' = IF d = c THEN Pooled(c) \cup {a} ELSE Pooled(d)
  <2>1. Pooled(c)' = Pooled(c) \cup {a}
    <3>1. Pooled(c)' \subseteq Pooled(c) \cup {a}
      BY <1>9 DEF Pooled
    <3>2. Len(pool[c]) + 1 \in DOMAIN pool'[c] /\ 1..Len(pool[c]) \subseteq DOMAIN pool'[c]
      BY <1>6, <1>7
    <3>3. a \in Pooled(c)'
      BY <1>3, <1>4, <1>7, <3>2 DEF Pooled
    <3>4. ASSUME NEW b \in Pooled(c)
          PROVE  b \in Pooled(c)'
      <4>1. PICK k \in 1..Len(pool[c]) : b = pool[c][k].ptr
        BY <1>6
      <4>2. b = pool'[c][k].ptr /\ k \in DOMAIN pool'[c] /\ b # NULL
        BY <1>7, <3>2, <4>1 DEF Pooled
      <4> QED
        BY <4>2 DEF Pooled
    <3> QED
      BY <3>1, <3>3, <3>4
  <2>2. \A d \in Classes : d # c => Pooled(d)' = Pooled(d)
    BY <1>5 DEF Pooled
  <2> QED
    BY <2>1, <2>2
<1>11. TypeOK'
  <2>1. pool' \in [Classes -> Seq(Entry)]
    BY <1>1, <1>5, <1>7 DEF IInv, TypeOK
  <2>2. \A d \in Classes : Len(pool'[d]) <= MaxBuffers(d)
    <3>1. MaxBuffers(c) \in Nat
      BY PoolAssumption DEF MaxBuffers, PoolAssumption
    <3>2. Len(pool'[c]) <= MaxBuffers(c)
      BY <1>1, <1>6, <1>7, <3>1
    <3> QED
      BY <1>5, <3>2 DEF IInv, TypeOK
  <2> QED
    BY <1>2, <1>3, <2>1, <2>2 DEF IInv, TypeOK, heapVars, flushVars
<1>12. Asking' /\ Quiet'
  BY <1>2 DEF IInv, Asking, Quiet, InFlush
<1>13. FlushInv'
  BY <1>5, <1>9, <1>12, QuietStep DEF IInv, FlushInv, Full
<1>14. OneOwner'
  <2>1. Distinct(tinyPool)' /\ FreeTiny' = FreeTiny /\ OnHeap' = OnHeap
    BY <1>2 DEF IInv, OneOwner, Distinct, FreeTiny, OnHeap, heapVars
  <2>2. \A d \in Classes : Distinct(Pointers(d))'
    <3>1. \A k, l \in DOMAIN pool'[c] : pool'[c][k].ptr = pool'[c][l].ptr => k = l
      <4>1. \A k \in 1..Len(pool[c]) : pool'[c][k].ptr = pool[c][k].ptr /\ pool[c][k].ptr # a
        BY <1>6, <1>7
      <4>2. pool'[c][Len(pool[c]) + 1].ptr = a
        BY <1>4, <1>7
      <4> QED
        BY <1>6, <1>8, <4>1, <4>2
    <3>2. Distinct(Pointers(c))'
      BY <3>1 DEF Distinct, Pointers
    <3>3. \A d \in Classes : d # c => Distinct(Pointers(d))'
      <4>1. \A d \in Classes : d # c => Pointers(d)' = Pointers(d)
        BY <1>5 DEF Pointers
      <4> QED
        BY <4>1 DEF IInv, OneOwner, Distinct
    <3> QED
      BY <3>2, <3>3
  <2>3. c = "small" \/ c = "med"
    BY DEF Classes
  <2> QED
    BY <1>2, <1>3, <1>10, <2>1, <2>2, <2>3 DEF IInv, OneOwner, Classes
<1>15. BigEnough'
  <2>1. \A b \in held' \cap HeapAddrs : asked'[b] <= size'[b]
    BY <1>2 DEF IInv, BigEnough, TypeOK, heapVars
  <2>2. \A b \in held' \cap TinyAddrs : asked'[b] <= TinySize
    BY <1>2 DEF IInv, BigEnough, TypeOK
  <2>3. \A d \in Classes : \A k \in DOMAIN pool'[d] :
          pool'[d][k].ptr # NULL => pool'[d][k].bytes = size'[pool'[d][k].ptr]
    <3>1. size' = size
      BY <1>2 DEF heapVars
    <3>2. \A k \in DOMAIN pool'[c] : pool'[c][k].bytes = size'[pool'[c][k].ptr]
      BY <1>9, <3>1
    <3>3. \A d \in Classes : d # c => \A k \in DOMAIN pool[d] :
            pool[d][k].ptr # NULL => pool[d][k].bytes = size'[pool[d][k].ptr]
      BY <3>1 DEF IInv, BigEnough
    <3> QED
      BY <1>5, <3>2, <3>3
  <2> QED
    BY <2>1, <2>2, <2>3 DEF BigEnough
<1>16. Unasked'
  BY <1>2 DEF IInv, Unasked, TypeOK
<1> QED
  BY <1>11, <1>12, <1>13, <1>14, <1>15, <1>16 DEF IInv

(* A block goes back to the heap (lines 218-223).                            *)
LEMMA HeapFreeInv ==
  ASSUME IInv, Quiet, NEW t \in Threads, NEW a \in held, a \in HeapAddrs,
         free(t, a), heapFree(t, a, size[a])
  PROVE  IInv'
<1>1. /\ held' = held \ {a} /\ asked' = [asked EXCEPT ![a] = 0]
      /\ bytesAllocated' = bytesAllocated - Realsize(size[a])
      /\ size' = [size EXCEPT ![a] = 0]
      /\ UNCHANGED <<tinyPool, pool, ooms, flushVars, pc, want>>
  BY DEF free, heapFree, listVars
<1>2. /\ a \in HeapAddrs /\ a \in Addrs /\ a \notin TinyAddrs
      /\ \A d \in Classes : a \notin Pooled(d)
  BY PoolAssumption DEF heapFree, IInv, OneOwner, Addrs, Classes, PoolAssumption
<1>3. Realsize(size[a]) \in Int
  BY <1>2, PoolAssumption DEF Realsize, IInv, TypeOK, PoolAssumption
<1>4. TypeOK'
  BY <1>1, <1>2, <1>3 DEF IInv, TypeOK, flushVars
<1>5. Asking' /\ FlushInv'
  BY <1>1, QuietStep DEF IInv, Asking, FlushInv, Quiet, InFlush, Full
<1>6. OneOwner'
  <2>1. /\ Distinct(tinyPool)' /\ FreeTiny' = FreeTiny
        /\ \A c \in Classes : Distinct(Pointers(c))' /\ Pooled(c)' = Pooled(c)
    <3>1. tinyPool' = tinyPool /\ pool' = pool
      BY <1>1
    <3>2. Distinct(tinyPool) /\ \A c \in Classes : Distinct(Pointers(c))
      BY DEF IInv, OneOwner
    <3> QED
      BY <3>1, <3>2 DEF Distinct, FreeTiny, Pointers, Pooled
  <2>2. OnHeap' = OnHeap \ {a}
    BY <1>1 DEF OnHeap, IInv, TypeOK
  <2> QED
    BY <1>1, <1>2, <2>1, <2>2 DEF IInv, OneOwner, Classes
<1>7. BigEnough'
  <2>1. \A b \in held' \cap HeapAddrs : asked'[b] <= size'[b]
    BY <1>1 DEF IInv, BigEnough, TypeOK
  <2>2. \A b \in held' \cap TinyAddrs : asked'[b] <= TinySize
    BY <1>1 DEF IInv, BigEnough, TypeOK
  <2>3. ASSUME NEW c \in Classes, NEW k \in DOMAIN pool'[c]
        PROVE  pool'[c][k].bytes = size'[pool'[c][k].ptr]
    <3>1. k \in 1..Len(pool[c]) /\ pool'[c][k] = pool[c][k]
      BY <1>1, <2>3, ListFacts
    <3>2. pool[c][k].ptr \in HeapAddrs /\ pool[c][k].bytes = size[pool[c][k].ptr]
          /\ pool[c][k].ptr \in Pooled(c)
      BY <3>1, ListFacts
    <3> QED
      BY <1>1, <1>2, <3>1, <3>2 DEF IInv, TypeOK
  <2> QED
    BY <2>1, <2>2, <2>3 DEF BigEnough
<1>8. Unasked'
  BY <1>1 DEF IInv, Unasked, TypeOK
<1> QED
  BY <1>4, <1>5, <1>6, <1>7, <1>8 DEF IInv

-----------------------------------------------------------------------------
(* The flush                                                                 *)

(* A step that leaves the blocks where they are.                             *)
LEMMA BlocksStay ==
  ASSUME IInv, UNCHANGED <<tinyPool, pool, size, held, asked>>
  PROVE  OneOwner' /\ BigEnough' /\ Unasked'
<1>1. \A c \in Classes : Distinct(Pointers(c))' /\ Pooled(c)' = Pooled(c)
  BY DEF IInv, OneOwner, Distinct, Pointers, Pooled
<1>2. Distinct(tinyPool)' /\ FreeTiny' = FreeTiny /\ OnHeap' = OnHeap
  BY DEF IInv, OneOwner, Distinct, FreeTiny, OnHeap
<1>3. BigEnough' /\ Unasked'
  BY DEF IInv, BigEnough, Unasked
<1> QED
  BY <1>1, <1>2, <1>3 DEF IInv, OneOwner, Classes

(* What the invariant says of the thread that flushes, and of its list.       *)
LEMMA FlushFacts ==
  ASSUME IInv, NEW t \in Threads, InFlush(t)
  PROVE  /\ which[t] \in Classes /\ pos[t] \in Nat \ {0} /\ want[t] \in Sizes
         /\ pool[which[t]] \in Seq(Entry) /\ Len(pool[which[t]]) \in Nat
         /\ DOMAIN pool[which[t]] = 1..Len(pool[which[t]])
         /\ \A k \in 1..Len(pool[which[t]]) : /\ pool[which[t]][k] \in Entry
                                             /\ pool[which[t]][k].ptr = NULL <=> k < pos[t]
         /\ \A c \in Classes : c # which[t] => Full(c)
         /\ \A u \in Threads : u # t => ~InFlush(u)
<1>1. /\ which[t] \in Classes /\ pos[t] \in Nat /\ pc[t] \notin {"idle", "crash"}
      /\ pool[which[t]] \in Seq(Entry)
  BY DEF IInv, TypeOK, InFlush
<1>2. want[t] \in Sizes /\ FlushedSoFar(t) /\ \A u \in Threads : u # t => ~InFlush(u)
  BY <1>1 DEF IInv, Asking, FlushInv
<1>3. /\ Len(pool[which[t]]) \in Nat /\ DOMAIN pool[which[t]] = 1..Len(pool[which[t]])
      /\ \A k \in 1..Len(pool[which[t]]) : pool[which[t]][k] \in Entry
  BY <1>1
<1> QED
  BY <1>1, <1>2, <1>3 DEF FlushedSoFar

(* While one thread flushes, the invariant speaks of that thread alone.       *)
LEMMA FlushStep ==
  ASSUME IInv, NEW t \in Threads, InFlush(t)', FlushedSoFar(t)',
         \A u \in Threads : u # t => ~InFlush(u) /\ pc'[u] = pc[u]
  PROVE  FlushInv'
<1>1. \A u \in Threads : u # t => ~InFlush(u)'
  BY DEF InFlush
<1> QED
  BY <1>1 DEF FlushInv, Quiet

(* ::malloc returns NULL: a flush begins, or the program ends (lines 145-178).  *)
LEMMA HeapFailsInv ==
  ASSUME IInv, NEW t \in Threads, heapFails(t), ~raced'
  PROVE  IInv' /\ UNCHANGED <<held, asked>>
<1>1. /\ UNCHANGED <<tinyPool, pool, size, bytesAllocated, held, asked, victim, sum, want>>
      /\ ooms < MaxOoms /\ ooms' = ooms + 1 /\ pc[t] \in {"heap", "again"}
  BY DEF heapFails, listVars, userVars
<1>2. ~InFlush(t)
  BY <1>1 DEF InFlush
<1>3. ooms' \in 0..MaxOoms
  BY <1>1, PoolAssumption DEF IInv, TypeOK, PoolAssumption
<1>4. CASE pc[t] = "heap"
  <2>0. Quiet /\ \A c \in Classes : Full(c)
    BY <1>2, <1>4, SectionIsAlone DEF heapFails, IInv, FlushInv
  <2>1. /\ pc' = [pc EXCEPT ![t] = "flush"] /\ which' = [which EXCEPT ![t] = "small"]
        /\ pos' = [pos EXCEPT ![t] = 1]
    BY <1>4 DEF heapFails
  <2>2. TypeOK'
    BY <1>1, <1>3, <2>1 DEF IInv, TypeOK, Classes
  <2>3. Asking'
    BY <1>1, <1>4, <2>1 DEF IInv, Asking, TypeOK
  <2>4. pc'[t] = "flush" /\ which'[t] = "small" /\ pos'[t] = 1
    BY <2>1 DEF IInv, TypeOK
  <2>5. \A u \in Threads : u # t => pc'[u] = pc[u]
    BY <2>1 DEF IInv, TypeOK
  <2>6. FlushedSoFar(t)'
    <3>1. "small" \in Classes /\ pool' = pool
      BY <1>1 DEF Classes
    <3>2. \A k \in DOMAIN pool["small"] : pool["small"][k].ptr # NULL /\ ~(k < 1)
      BY <2>0, <3>1 DEF IInv, TypeOK, Full
    <3>3. \A c \in Classes : Full(c)'
      BY <2>0, <3>1 DEF Full
    <3> QED
      BY <2>4, <3>1, <3>2, <3>3 DEF FlushedSoFar
  <2>7. FlushInv'
    BY <2>0, <2>4, <2>5, <2>6, FlushStep DEF InFlush, Quiet
  <2> QED
    BY <1>1, <2>2, <2>3, <2>7, BlocksStay DEF IInv
<1>5. CASE pc[t] = "again"
  <2>1. pc' = [pc EXCEPT ![t] = "crash"] /\ UNCHANGED <<which, pos>>
    BY <1>5 DEF heapFails
  <2>2. TypeOK'
    BY <1>1, <1>3, <2>1 DEF IInv, TypeOK
  <2>3. Asking' /\ pc'[t] = "crash" /\ \A u \in Threads : u # t => pc'[u] = pc[u]
    BY <1>1, <2>1 DEF IInv, Asking, TypeOK
  <2>4. FlushInv'
    <3>1. \A u \in Threads : (InFlush(u) <=> InFlush(u)') /\ (InFlush(u) => pc'[u] = pc[u])
      BY <1>2, <2>3 DEF InFlush
    <3> QED
      BY <1>1, <2>1, <3>1, FlushStays
  <2> QED
    BY <1>1, <2>2, <2>3, <2>4, BlocksStay DEF IInv
<1> QED
  BY <1>1, <1>4, <1>5

(* flushPool reads an entry and the counter (lines 327-328).                   *)
LEMMA FlushReadInv ==
  ASSUME IInv, NEW t \in Threads, flushRead(t)
  PROVE  IInv' /\ UNCHANGED <<held, asked>>
<1>1. /\ UNCHANGED <<tinyPool, pool, size, bytesAllocated, ooms, held, asked, which, pos, want>>
      /\ pc[t] = "flush" /\ pos[t] <= Len(pool[which[t]]) /\ pc' = [pc EXCEPT ![t] = "release"]
      /\ victim' = [victim EXCEPT ![t] = pool[which[t]][pos[t]]]
      /\ sum' = [sum EXCEPT ![t] = bytesAllocated]
  BY DEF flushRead, listVars, heapVars, userVars
<1>2. InFlush(t)
  BY <1>1 DEF InFlush
<1>3. pos[t] \in DOMAIN pool[which[t]] /\ pool[which[t]][pos[t]] \in Entry
  BY <1>1, <1>2, FlushFacts
<1>4. TypeOK'
  BY <1>1, <1>3 DEF IInv, TypeOK
<1>5. Asking'
  BY <1>1, <1>2, FlushFacts DEF IInv, Asking, TypeOK
<1>6. pc'[t] = "release" /\ victim'[t] = pool[which[t]][pos[t]]
      /\ \A u \in Threads : u # t => pc'[u] = pc[u]
  BY <1>1 DEF IInv, TypeOK
<1>7. FlushedSoFar(t)'
  BY <1>1, <1>2, <1>3, <1>6 DEF IInv, FlushInv, FlushedSoFar, Full
<1>8. FlushInv'
  BY <1>2, <1>6, <1>7, FlushFacts, FlushStep DEF InFlush
<1> QED
  BY <1>1, <1>4, <1>5, <1>8, BlocksStay DEF IInv

(* It gives the block back and clears the entry (lines 328-331).               *)
LEMMA FlushReleaseInv ==
  ASSUME IInv, NEW t \in Threads, flushRelease(t)
  PROVE  IInv' /\ UNCHANGED <<held, asked>>
<1>0. PICK c \in Classes : c = which[t]
  BY DEF IInv, TypeOK
<1> DEFINE p == pool[c]
           a == victim[t].ptr
           i == pos[t]
<1>1. /\ UNCHANGED <<tinyPool, ooms, held, asked, which, want>> /\ pc[t] = "release"
      /\ bytesAllocated' = sum[t] - Realsize(victim[t].bytes)
      /\ size' = [b \in HeapAddrs |-> IF b = a THEN 0 ELSE size[b]]
      /\ pos' = [pos EXCEPT ![t] = @ + 1] /\ victim' = [victim EXCEPT ![t] = NoEntry]
      /\ sum' = [sum EXCEPT ![t] = 0] /\ pc' = [pc EXCEPT ![t] = "flush"]
  BY DEF flushRelease, userVars
<1>2. InFlush(t)
  BY <1>1 DEF InFlush
<1>3. /\ c \in Classes /\ i \in Nat /\ p \in Seq(Entry) /\ Len(p) \in Nat
      /\ DOMAIN p = 1..Len(p) /\ want[t] \in Sizes
      /\ \A k \in 1..Len(p) : p[k] \in Entry /\ (p[k].ptr = NULL <=> k < i)
      /\ \A d \in Classes : d # c => Full(d)
      /\ \A u \in Threads : u # t => ~InFlush(u)
  BY <1>0, <1>2, FlushFacts
<1>4. i \in 1..Len(p) /\ victim[t] = p[i]
  BY <1>0, <1>1, <1>2, <1>3 DEF IInv, FlushInv, FlushedSoFar
<1>5. /\ pool'[c] = [k \in 1..Len(p) |-> IF k = i THEN NoEntry ELSE p[k]]
      /\ \A d \in Classes : d # c => pool'[d] = pool[d]
      /\ pool' = [pool EXCEPT ![c] = pool'[c]]
  BY <1>0, <1>3 DEF flushRelease, IInv, TypeOK
<1>6. a = p[i].ptr /\ a # NULL /\ a \in HeapAddrs /\ a \notin TinyAddrs /\ a \in Pooled(c)
  BY <1>3, <1>4, PoolAssumption DEF Entry, Pooled, PoolAssumption
<1>7. a \notin held /\ \A d \in Classes : d # c => a \notin Pooled(d)
  BY <1>3, <1>6 DEF IInv, OneOwner, Classes
<1>8. NoEntry \in Entry /\ NoEntry.ptr = NULL
  BY DEF NoEntry, Entry
<1> HIDE DEF p, a, i
<1>9. /\ pool'[c] \in Seq(Entry) /\ Len(pool'[c]) = Len(p) /\ DOMAIN pool'[c] = 1..Len(p)
      /\ \A k \in 1..Len(p) : pool'[c][k] = IF k = i THEN NoEntry ELSE p[k]
  <2>1. ASSUME NEW n \in Nat, NEW s \in [1..n -> Entry]
        PROVE  s \in Seq(Entry) /\ Len(s) = n
    OBVIOUS
  <2>2. pool'[c] \in [1..Len(p) -> Entry]
    BY <1>3, <1>5, <1>8
  <2> QED
    BY <1>3, <1>5, <2>1, <2>2
<1>10. \A k, l \in 1..Len(p) : p[k].ptr = p[l].ptr /\ p[k].ptr # NULL => k = l
  BY <1>3 DEF IInv, OneOwner, Distinct, Pointers, p
<1>11. \A k \in 1..Len(p) : p[k].ptr # NULL => p[k].ptr \in Pooled(c)
  BY <1>3 DEF Pooled, p
<1>12. Pooled(c)' = Pooled(c) \ {a}
  <2>1. Pooled(c)' \subseteq Pooled(c) \ {a}
    BY <1>4, <1>6, <1>8, <1>9, <1>10, <1>11 DEF Pooled
  <2>2. ASSUME NEW b \in Pooled(c), b # a
        PROVE  b \in Pooled(c)'
    <3>1. PICK k \in 1..Len(p) : b = p[k].ptr /\ b # NULL
      BY <1>3, <2>2 DEF Pooled, p
    <3>2. b = pool'[c][k].ptr /\ k \in DOMAIN pool'[c]
      BY <1>6, <1>9, <2>2, <3>1
    <3> QED
      BY <3>1, <3>2 DEF Pooled
  <2> QED
    BY <2>1, <2>2
<1>13. \A d \in Classes : d # c => Pooled(d)' = Pooled(d) /\ Pointers(d)' = Pointers(d)
  BY <1>5 DEF Pooled, Pointers
<1>14. TypeOK'
  <2>1. pool' \in [Classes -> Seq(Entry)] /\ \A d \in Classes : Len(pool'[d]) <= MaxBuffers(d)
    BY <1>3, <1>5, <1>9 DEF IInv, TypeOK, p
  <2>2. bytesAllocated' \in Int
    BY <1>1, PoolAssumption DEF IInv, TypeOK, Realsize, Entry, PoolAssumption
  <2>3. size' \in [HeapAddrs -> Nat]
    BY <1>1 DEF IInv, TypeOK
  <2> QED
    BY <1>1, <1>8, <2>1, <2>2, <2>3 DEF IInv, TypeOK
<1>15. Asking'
  BY <1>1, <1>3 DEF IInv, Asking, TypeOK
<1>16. pc'[t] = "flush" /\ pos'[t] = i + 1 /\ which'[t] = c
       /\ \A u \in Threads : u # t => pc'[u] = pc[u]
  BY <1>0, <1>1 DEF IInv, TypeOK, i
<1>17. FlushInv'
  <2>1. \A k \in 1..Len(p) : pool'[c][k].ptr = NULL <=> k < i + 1
    <3>1. ASSUME NEW k \in 1..Len(p)
          PROVE  pool'[c][k].ptr = NULL <=> k = i \/ k < i
      BY <1>3, <1>8, <1>9
    <3> QED
      BY <1>3, <3>1
  <2>2. \A d \in Classes : d # c => Full(d)'
    BY <1>3, <1>5 DEF Full
  <2>3. pos'[t] # 0
    BY <1>3, <1>16
  <2>4. FlushedSoFar(t)'
    BY <1>9, <1>16, <2>1, <2>2, <2>3 DEF FlushedSoFar
  <2> QED
    BY <1>3, <1>16, <2>4, FlushStep DEF InFlush
<1>18. OneOwner'
  <2>1. Distinct(tinyPool)' /\ FreeTiny' = FreeTiny
    BY <1>1 DEF IInv, OneOwner, Distinct, FreeTiny
  <2>2. \A d \in Classes : Distinct(Pointers(d))'
    <3>1. Distinct(Pointers(c))'
      BY <1>8, <1>9, <1>10 DEF Distinct, Pointers
    <3>2. \A d \in Classes : d # c => Distinct(Pointers(d))'
      BY <1>13 DEF IInv, OneOwner, Distinct
    <3> QED
      BY <3>1, <3>2
  <2>3. OnHeap' = OnHeap \ {a}
    BY <1>1 DEF OnHeap, a
  <2>4. c = "small" \/ c = "med"
    BY <1>3 DEF Classes
  <2> QED
    BY <1>1, <1>7, <1>12, <1>13, <2>1, <2>2, <2>3, <2>4 DEF IInv, OneOwner, Classes
<1>19. BigEnough'
  <2>1. \A b \in HeapAddrs : b # a => size'[b] = size[b]
    BY <1>1 DEF a
  <2>2. \A b \in held' \cap HeapAddrs : asked'[b] <= size'[b]
    BY <1>1, <1>7, <2>1 DEF IInv, BigEnough
  <2>3. ASSUME NEW k \in 1..Len(p), pool'[c][k].ptr # NULL
        PROVE  pool'[c][k].bytes = size'[pool'[c][k].ptr]
    <3>1. k # i /\ pool'[c][k] = p[k]
      BY <1>8, <1>9, <2>3
    <3>2. p[k].ptr # a /\ p[k].ptr \in HeapAddrs /\ p[k].bytes = size[p[k].ptr]
      BY <1>3, <1>4, <1>6, <1>10, <2>3, <3>1 DEF IInv, BigEnough, Entry, p
    <3> QED
      BY <2>1, <3>1, <3>2
  <2>4. ASSUME NEW d \in Classes, d # c, NEW k \in DOMAIN pool'[d], pool'[d][k].ptr # NULL
        PROVE  pool'[d][k].bytes = size'[pool'[d][k].ptr]
    <3>1. pool'[d] = pool[d] /\ pool[d][k].ptr \in Pooled(d) /\ pool[d][k] \in Entry
      BY <1>5, <2>4 DEF Pooled, IInv, TypeOK
    <3>2. pool[d][k].ptr # a /\ pool[d][k].ptr \in HeapAddrs
      BY <1>7, <2>4, <3>1 DEF Entry
    <3> QED
      BY <2>1, <2>4, <3>1, <3>2 DEF IInv, BigEnough
  <2>5. \A b \in held' \cap TinyAddrs : asked'[b] <= TinySize
    BY <1>1 DEF IInv, BigEnough
  <2> QED
    BY <1>9, <2>2, <2>3, <2>4, <2>5 DEF BigEnough
<1>20. Unasked'
  BY <1>1 DEF IInv, Unasked
<1> QED
  BY <1>1, <1>14, <1>15, <1>17, <1>18, <1>19, <1>20 DEF IInv

(* The end of a list is reached (line 327).                                    *)
LEMMA FlushEndInv ==
  ASSUME IInv, NEW t \in Threads, flushEnd(t)
  PROVE  IInv' /\ UNCHANGED <<held, asked>>
<1>1. /\ UNCHANGED <<tinyPool, pool, size, bytesAllocated, ooms, held, asked, want>>
      /\ UNCHANGED <<which, pos, victim, sum>>
      /\ pc[t] = "flush" /\ pos[t] > Len(pool[which[t]]) /\ pc' = [pc EXCEPT ![t] = "zero"]
  BY DEF flushEnd, listVars, heapVars, userVars, flushVars
<1>2. InFlush(t)
  BY <1>1 DEF InFlush
<1>3. TypeOK'
  BY <1>1 DEF IInv, TypeOK
<1>4. Asking'
  BY <1>1, <1>2, FlushFacts DEF IInv, Asking, TypeOK
<1>5. pc'[t] = "zero" /\ \A u \in Threads : u # t => pc'[u] = pc[u]
  BY <1>1 DEF IInv, TypeOK
<1>6. FlushedSoFar(t)'
  BY <1>1, <1>2, <1>5 DEF IInv, FlushInv, FlushedSoFar, Full
<1>7. FlushInv'
  BY <1>2, <1>5, <1>6, FlushFacts, FlushStep DEF InFlush
<1> QED
  BY <1>1, <1>3, <1>4, <1>7, BlocksStay DEF IInv

(* The list, all holes by now, is empty: the next one, or the heap again        *)
(* (lines 333, 149-150).                                                 *)
LEMMA FlushZeroInv ==
  ASSUME IInv, NEW t \in Threads, flushZero(t)
  PROVE  IInv' /\ UNCHANGED <<held, asked>>
<1>0. PICK c \in Classes : c = which[t]
  BY DEF IInv, TypeOK
<1>1. /\ UNCHANGED <<tinyPool, size, bytesAllocated, ooms, held, asked, victim, sum, want>>
      /\ pc[t] = "zero" /\ pool' = [pool EXCEPT ![c] = <<>>] /\ flushNext(t)
  BY <1>0 DEF flushZero, heapVars, userVars
<1>2. InFlush(t)
  BY <1>1 DEF InFlush
<1>3. /\ c \in Classes /\ Len(pool[c]) \in Nat /\ pos[t] \in Nat /\ want[t] \in Sizes
      /\ DOMAIN pool[c] = 1..Len(pool[c])
      /\ \A k \in 1..Len(pool[c]) : pool[c][k].ptr = NULL <=> k < pos[t]
      /\ \A d \in Classes : d # c => Full(d)
      /\ \A u \in Threads : u # t => ~InFlush(u)
  BY <1>0, <1>2, FlushFacts
<1>4. pos[t] > Len(pool[c])
  BY <1>0, <1>1, <1>2 DEF IInv, FlushInv, FlushedSoFar
<1>5. Pooled(c) = {}
  <2>1. \A k \in 1..Len(pool[c]) : pool[c][k].ptr = NULL
    BY <1>3, <1>4
  <2> QED
    BY <1>3, <2>1 DEF Pooled
<1>6. pool'[c] = <<>> /\ \A d \in Classes : d # c => pool'[d] = pool[d]
  BY <1>1, <1>3 DEF IInv, TypeOK
<1>7. \A d \in Classes : Pooled(d)' = Pooled(d) /\ Full(d)'
  <2>1. Pooled(c)' = {} /\ Full(c)'
    BY <1>6 DEF Pooled, Full
  <2>2. \A d \in Classes : d # c => Pooled(d)' = Pooled(d) /\ Full(d)'
    BY <1>3, <1>6 DEF Pooled, Full
  <2> QED
    BY <1>5, <2>1, <2>2
<1>8. /\ which' \in [Threads -> Classes] /\ pos' \in [Threads -> Nat]
      /\ pc' \in [Threads -> {"idle", "heap", "flush", "release", "zero", "again", "crash"}]
      /\ \A u \in Threads : u # t => pc'[u] = pc[u]
  <2>1. /\ pc' = [pc EXCEPT ![t] = "flush"] \/ pc' = [pc EXCEPT ![t] = "again"]
        /\ pos' = [pos EXCEPT ![t] = 1] \/ pos' = [pos EXCEPT ![t] = 0]
        /\ which' = [which EXCEPT ![t] = "med"] \/ which' = which
    BY <1>1 DEF flushNext
  <2>2. which' \in [Threads -> Classes]
    <3>1. which \in [Threads -> Classes] /\ "med" \in Classes
      BY DEF IInv, TypeOK, Classes
    <3> QED
      BY <2>1, <3>1
  <2>3. pos' \in [Threads -> Nat]
    <3>1. pos \in [Threads -> Nat]
      BY DEF IInv, TypeOK
    <3> QED
      BY <2>1, <3>1
  <2>4. /\ pc' \in [Threads -> {"idle", "heap", "flush", "release", "zero", "again", "crash"}]
        /\ \A u \in Threads : u # t => pc'[u] = pc[u]
    <3>1. pc \in [Threads -> {"idle", "heap", "flush", "release", "zero", "again", "crash"}]
      BY DEF IInv, TypeOK
    <3> QED
      BY <2>1, <3>1
  <2> QED
    BY <2>2, <2>3, <2>4
<1>9. TypeOK'
  <2>1. MaxBuffers(c) \in Nat
    BY PoolAssumption DEF MaxBuffers, PoolAssumption
  <2>2. pool' \in [Classes -> Seq(Entry)] /\ \A d \in Classes : Len(pool'[d]) <= MaxBuffers(d)
    BY <1>1, <1>3, <1>6, <2>1 DEF IInv, TypeOK
  <2> QED
    BY <1>1, <1>8, <2>2 DEF IInv, TypeOK
<1>10. Asking'
  BY <1>1, <1>3, <1>8 DEF IInv, Asking
<1>11. FlushInv'
  <2>1. CASE which[t] = "small"
    <3>1. pc'[t] = "flush" /\ which'[t] = "med" /\ pos'[t] = 1
      BY <1>1, <2>1 DEF flushNext, IInv, TypeOK
    <3>2. \A k \in DOMAIN pool'["med"] : pool'["med"][k].ptr # NULL /\ ~(k < 1)
      BY <1>7, <1>9 DEF TypeOK, Classes, Full
    <3>3. FlushedSoFar(t)'
      BY <1>7, <3>1, <3>2 DEF FlushedSoFar
    <3> QED
      BY <1>3, <1>8, <3>1, <3>3, FlushStep DEF InFlush
  <2>2. CASE which[t] # "small"
    <3>1. pc'[t] = "again"
      BY <1>1, <2>2 DEF flushNext, IInv, TypeOK
    <3>2. Quiet'
      BY <1>3, <1>8, <3>1 DEF Quiet, InFlush
    <3> QED
      BY <1>7, <3>2, QuietStep
  <2> QED
    BY <2>1, <2>2
<1>12. OneOwner'
  <2>1. Distinct(tinyPool)' /\ FreeTiny' = FreeTiny /\ OnHeap' = OnHeap
    BY <1>1 DEF IInv, OneOwner, Distinct, FreeTiny, OnHeap
  <2>2. \A d \in Classes : Distinct(Pointers(d))'
    BY <1>6 DEF IInv, OneOwner, Distinct, Pointers
  <2> QED
    BY <1>1, <1>7, <2>1, <2>2 DEF IInv, OneOwner, Classes
<1>13. BigEnough'
  BY <1>1, <1>6 DEF IInv, BigEnough
<1>14. Unasked'
  BY <1>1 DEF IInv, Unasked
<1> QED
  BY <1>1, <1>9, <1>10, <1>11, <1>12, <1>13, <1>14 DEF IInv

-----------------------------------------------------------------------------
(* The counter                                                               *)

LEMMA CounterInit ==
  ASSUME Init
  PROVE  CInv
<1>1. NonZero(HeapAddrs, size) = {} /\ NonZero(Threads, want) = {}
  BY DEF Init, NonZero
<1>2. Total(HeapAddrs, size) = 0 /\ Total(Threads, want) = 0
  BY <1>1, SumEmpty DEF Total
<1>3. IsFiniteSet(NonZero(HeapAddrs, size)) /\ IsFiniteSet(NonZero(Threads, want))
  BY <1>1, FS_EmptySet
<1> QED
  BY <1>2, <1>3 DEF Init, CInv, Counted

(* What the counter and its parts are.                                       *)
LEMMA CounterFacts ==
  ASSUME IInv, CInv
  PROVE  /\ bytesAllocated \in Int
         /\ bytesAllocated = Total(HeapAddrs, size) + Total(Threads, want)
         /\ size \in [HeapAddrs -> Nat] /\ IsFiniteSet(NonZero(HeapAddrs, size))
         /\ want \in [Threads -> Nat] /\ IsFiniteSet(NonZero(Threads, want))
         /\ Total(HeapAddrs, size) \in Int /\ Total(Threads, want) \in Int
<1>1. /\ bytesAllocated = Total(HeapAddrs, size) + Total(Threads, want)
      /\ IsFiniteSet(NonZero(HeapAddrs, size)) /\ IsFiniteSet(NonZero(Threads, want))
  BY DEF CInv, Counted
<1>2. /\ size \in [HeapAddrs -> Nat] /\ bytesAllocated \in Int
      /\ want \in [Threads -> Sizes \cup {0}]
  BY DEF IInv, TypeOK
<1>3. \A n \in Sizes \cup {0} : n \in Nat
  BY PoolAssumption DEF PoolAssumption
<1>4. want \in [Threads -> Nat]
  BY <1>2, <1>3
<1>5. Total(HeapAddrs, size) \in Int /\ Total(Threads, want) \in Int
  BY <1>1, <1>2, <1>4, TotalType
<1> QED
  BY <1>1, <1>2, <1>4, <1>5

(* A step that changes neither the counter nor what it counts.                *)
LEMMA CounterStays ==
  ASSUME CInv, UNCHANGED <<size, bytesAllocated, want>>,
         \A t \in Threads : pc'[t] = "idle" => pc[t] = "idle",
         \A t \in Threads : pc'[t] = "release" => sum'[t] = bytesAllocated
  PROVE  CInv'
<1>1. /\ Total(HeapAddrs, size)' = Total(HeapAddrs, size)
      /\ Total(Threads, want)' = Total(Threads, want)
      /\ NonZero(HeapAddrs, size)' = NonZero(HeapAddrs, size)
      /\ NonZero(Threads, want)' = NonZero(Threads, want)
  BY DEF Total, NonZero
<1> QED
  BY <1>1 DEF CInv, Counted

(* What is to be shown after a step that changes them.                       *)
LEMMA CounterMoves ==
  ASSUME NEW f, f = size', NEW w, w = want', NEW b, b = bytesAllocated',
         b = Total(HeapAddrs, f) + Total(Threads, w),
         IsFiniteSet(NonZero(HeapAddrs, f)), IsFiniteSet(NonZero(Threads, w)),
         \A t \in Threads : pc'[t] = "release" => sum'[t] = b,
         \A t \in Threads : pc'[t] = "idle" => w[t] = 0
  PROVE  CInv'
<1>1. /\ Total(HeapAddrs, size)' = Total(HeapAddrs, f)
      /\ Total(Threads, want)' = Total(Threads, w)
      /\ NonZero(HeapAddrs, size)' = NonZero(HeapAddrs, f)
      /\ NonZero(Threads, want)' = NonZero(Threads, w)
  BY DEF Total, NonZero
<1> QED
  BY <1>1 DEF CInv, Counted

(* The counter is raised before the heap is asked (lines 136-137).            *)
LEMMA CounterEnter ==
  ASSUME IInv, Quiet, CInv, NEW t \in Threads, NEW n \in Sizes, pc[t] = "idle", heapEnter(t, n)
  PROVE  CInv'
<1>1. /\ bytesAllocated' = bytesAllocated + Realsize(n) /\ size' = size
      /\ want' = [want EXCEPT ![t] = n] /\ pc' = [pc EXCEPT ![t] = "heap"]
  BY DEF heapEnter
<1>2. n \in Nat /\ n # 0 /\ Header \in Nat
  BY PoolAssumption DEF PoolAssumption
<1>3. want[t] = 0 /\ Realsize(n) \in Int
  BY <1>2 DEF Realsize, CInv
<1>4. want \in [Threads -> Nat] /\ IsFiniteSet(NonZero(Threads, want))
  BY CounterFacts
<1> DEFINE w == [want EXCEPT ![t] = n]
<1>5. /\ w = want' /\ w \in [Threads -> Nat]
      /\ w[t] = n /\ \A u \in Threads : u # t => w[u] = want[u]
  BY <1>1, <1>2, <1>4
<1>6. \A u \in Threads : pc'[u] # "release" /\ (pc'[u] = "idle" => w[u] = 0)
  BY <1>1, <1>4 DEF IInv, TypeOK, Quiet, InFlush, CInv
<1> HIDE DEF w
<1>7. IsFiniteSet(NonZero(Threads, w)) /\ Total(Threads, w) = Total(Threads, want) + Realsize(n)
  <2>1. Grown(Threads, want, w, t, n)
    BY <1>2, <1>3, <1>4, <1>5 DEF Grown
  <2> QED
    BY <2>1, TotalGrows
<1>8. bytesAllocated + Realsize(n) = Total(HeapAddrs, size) + Total(Threads, w)
  BY <1>3, <1>7, CounterFacts
<1> QED
  BY <1>1, <1>5, <1>6, <1>7, <1>8, CounterFacts, CounterMoves

(* What was asked for is there.                                              *)
LEMMA CounterMalloc ==
  ASSUME IInv, CInv, NEW t \in Threads, heapMalloc(t)
  PROVE  CInv'
<1>1. PICK a \in HeapAddrs : size[a] = 0 /\ size' = [size EXCEPT ![a] = want[t]]
  BY DEF heapMalloc
<1>2. /\ bytesAllocated' = bytesAllocated /\ want' = [want EXCEPT ![t] = 0]
      /\ pc' = [pc EXCEPT ![t] = "idle"] /\ pc[t] \notin {"idle", "crash"}
  BY DEF heapMalloc
<1>3. want[t] \in Sizes
  BY <1>2 DEF IInv, Asking
<1>4. want[t] \in Nat /\ want[t] # 0 /\ Header \in Nat
  BY <1>3, PoolAssumption DEF PoolAssumption
<1>5. Realsize(want[t]) \in Int
  BY <1>4 DEF Realsize
<1>6. /\ size \in [HeapAddrs -> Nat] /\ IsFiniteSet(NonZero(HeapAddrs, size))
      /\ want \in [Threads -> Nat] /\ IsFiniteSet(NonZero(Threads, want))
  BY CounterFacts
<1> DEFINE n == want[t]
           f == [size EXCEPT ![a] = n]
           w == [want EXCEPT ![t] = 0]
<1>7. /\ f = size' /\ f \in [HeapAddrs -> Nat]
      /\ f[a] = n /\ \A b \in HeapAddrs : b # a => f[b] = size[b]
  BY <1>1, <1>4, <1>6
<1>14. /\ w = want' /\ w \in [Threads -> Nat]
       /\ w[t] = 0 /\ \A u \in Threads : u # t => w[u] = want[u]
  BY <1>2, <1>6
<1>8. \A u \in Threads : /\ pc'[u] = "release" => sum'[u] = bytesAllocated
                         /\ pc'[u] = "idle" => w[u] = 0
  <2>1. pc'[t] = "idle" /\ sum' = sum /\ \A u \in Threads : u # t => pc'[u] = pc[u]
    BY <1>2 DEF heapMalloc, flushVars, IInv, TypeOK
  <2> QED
    BY <1>14, <2>1 DEF CInv
<1>9. n \in Nat /\ n # 0 /\ n = want[t]
  BY <1>4
<1> HIDE DEF n, f, w
<1>10. /\ IsFiniteSet(NonZero(HeapAddrs, f))
       /\ Total(HeapAddrs, f) = Total(HeapAddrs, size) + Realsize(n)
  <2>1. Grown(HeapAddrs, size, f, a, n)
    BY <1>1, <1>6, <1>7, <1>9 DEF Grown
  <2> QED
    BY <2>1, TotalGrows
<1>11. /\ IsFiniteSet(NonZero(Threads, w))
       /\ Total(Threads, want) = Total(Threads, w) + Realsize(n)
  <2>1. \A u \in Threads : w[u] # 0 => want[u] # 0
    BY <1>14
  <2>2. IsFiniteSet(NonZero(Threads, w))
    BY <1>6, <2>1, NonZeroShrinks
  <2>3. Grown(Threads, w, want, t, n)
    BY <1>6, <1>9, <1>14, <2>2 DEF Grown
  <2> QED
    BY <2>2, <2>3, TotalGrows
<1>12. Total(Threads, w) \in Int
  BY <1>11, <1>14, TotalType
<1>13. bytesAllocated = Total(HeapAddrs, f) + Total(Threads, w)
  BY <1>5, <1>9, <1>10, <1>11, <1>12, CounterFacts
<1> QED
  <2>1. PICK b : b = bytesAllocated'
    OBVIOUS
  <2>2. /\ b = Total(HeapAddrs, f) + Total(Threads, w)
        /\ \A u \in Threads : pc'[u] = "release" => sum'[u] = b
        /\ \A u \in Threads : pc'[u] = "idle" => w[u] = 0
    BY <1>2, <1>8, <1>13, <2>1
  <2> QED
    <3>1. f = size' /\ w = want' /\ b = bytesAllocated'
      BY <1>7, <1>14, <2>1
    <3>2. IsFiniteSet(NonZero(HeapAddrs, f)) /\ IsFiniteSet(NonZero(Threads, w))
      BY <1>10, <1>11
    <3> QED
      BY <2>2, <3>1, <3>2, CounterMoves

(* A block a goes back to the heap and its bytes are taken off.               *)
LEMMA CounterShrinks ==
  ASSUME IInv, CInv, NEW a \in HeapAddrs, size[a] # 0, size' = [size EXCEPT ![a] = 0],
         bytesAllocated' = bytesAllocated - Realsize(size[a]), want' = want,
         \A t \in Threads : pc'[t] = "idle" => pc[t] = "idle",
         \A t \in Threads : pc'[t] # "release"
  PROVE  CInv'
<1>1. size \in [HeapAddrs -> Nat] /\ IsFiniteSet(NonZero(HeapAddrs, size)) /\ Header \in Nat
  BY CounterFacts, PoolAssumption DEF PoolAssumption
<1>2. size[a] \in Nat /\ Realsize(size[a]) \in Int
  BY <1>1 DEF Realsize
<1> DEFINE f == [size EXCEPT ![a] = 0]
<1>3. /\ f = size' /\ f \in [HeapAddrs -> Nat]
      /\ f[a] = 0 /\ \A b \in HeapAddrs : b # a => f[b] = size[b]
  BY <1>1
<1> HIDE DEF f
<1>4. /\ IsFiniteSet(NonZero(HeapAddrs, f))
      /\ Total(HeapAddrs, size) = Total(HeapAddrs, f) + Realsize(size[a])
  <2>1. \A b \in HeapAddrs : f[b] # 0 => size[b] # 0
    BY <1>3
  <2>2. IsFiniteSet(NonZero(HeapAddrs, f))
    BY <1>1, <2>1, NonZeroShrinks
  <2>3. Grown(HeapAddrs, f, size, a, size[a])
    BY <1>1, <1>2, <1>3, <2>2 DEF Grown
  <2> QED
    BY <2>2, <2>3, TotalGrows
<1>5. Total(HeapAddrs, f) \in Int
  BY <1>3, <1>4, TotalType
<1>6. bytesAllocated - Realsize(size[a]) = Total(HeapAddrs, f) + Total(Threads, want)
  BY <1>2, <1>4, <1>5, CounterFacts
<1>7. \A t \in Threads : pc'[t] # "release" /\ (pc'[t] = "idle" => want[t] = 0)
  BY DEF CInv
<1> QED
  BY <1>3, <1>4, <1>6, <1>7, CounterFacts, CounterMoves

(* It is, when a list is flushed: nobody changed the counter in between.       *)
LEMMA CounterRelease ==
  ASSUME IInv, CInv, NEW t \in Threads, flushRelease(t)
  PROVE  CInv'
<1> DEFINE a == victim[t].ptr
<1>1. /\ pc[t] = "release" /\ want' = want /\ pc' = [pc EXCEPT ![t] = "flush"]
      /\ bytesAllocated' = sum[t] - Realsize(victim[t].bytes)
      /\ size' = [b \in HeapAddrs |-> IF b = a THEN 0 ELSE size[b]]
  BY DEF flushRelease
<1>2. InFlush(t)
  BY <1>1 DEF InFlush
<1>3. PICK c \in Classes : c = which[t]
  BY DEF IInv, TypeOK
<1>4. FlushedSoFar(t)
  BY <1>2 DEF IInv, FlushInv
<1>5. pos[t] \in DOMAIN pool[c] /\ victim[t] = pool[c][pos[t]]
  BY <1>1, <1>3, <1>4 DEF FlushedSoFar
<1>6. a # NULL
  <2>1. pos[t] \in Nat
    BY DEF IInv, TypeOK
  <2>2. pool[c][pos[t]].ptr = NULL <=> pos[t] < pos[t]
    BY <1>3, <1>4, <1>5 DEF FlushedSoFar
  <2> QED
    BY <1>5, <2>1, <2>2
<1>7. a \in Pooled(c) /\ victim[t].bytes = size[a]
  BY <1>5, <1>6 DEF Pooled, IInv, BigEnough
<1>8. a \in HeapAddrs /\ size[a] # 0
  BY <1>7 DEF IInv, OneOwner, OnHeap, Classes
<1>9. sum[t] = bytesAllocated
  BY <1>1 DEF CInv
<1>10. \A u \in Threads : pc'[u] # "release" /\ (pc'[u] = "idle" => pc[u] = "idle")
  BY <1>1, <1>2, FlushFacts DEF IInv, TypeOK, InFlush
<1>11. size' = [size EXCEPT ![a] = 0]
  BY <1>1, <1>8, CounterFacts
<1> HIDE DEF a
<1> QED
  BY <1>1, <1>7, <1>8, <1>9, <1>10, <1>11, CounterShrinks

-----------------------------------------------------------------------------
(* The theorems                                                              *)

(* A block in use that is not a tiny buffer has its header.                    *)
LEMMA HeaderThere ==
  ASSUME IInv, NEW a \in held, a \in HeapAddrs
  PROVE  BytesOf(a) = {size[a]}
BY DEF IInv, OneOwner, OnHeap, BytesOf

(* Up to a race every step keeps the invariant and is one of the abstract      *)
(* allocator, or none of its.                                                *)
LEMMA NextInv ==
  ASSUME IInv, ~raced', [Next]_vars
  PROVE  IInv' /\ [User!Next]_<<held, asked>>
<1>1. CASE UNCHANGED vars
  <2>1. /\ UNCHANGED <<tinyPool, pool, size, bytesAllocated, ooms, held, asked>>
        /\ UNCHANGED <<which, pos, victim, sum, pc, want>>
    BY <1>1 DEF vars, listVars, heapVars, userVars, flushVars
  <2>2. TypeOK' /\ Asking' /\ FlushInv'
    BY <2>1 DEF IInv, TypeOK, Asking, FlushInv, FlushedSoFar, Quiet, InFlush, Full
  <2> QED
    BY <2>1, <2>2, BlocksStay DEF IInv
<1>2. CASE Next
  <2>1. PICK t \in Threads : \/ \E n \in Sizes : malloc(t, n)
                             \/ heapMalloc(t) \/ heapFails(t) \/ flush(t)
                             \/ \E a \in held : free(t, a)
    BY <1>2 DEF Next
  <2>2. pc[t] = "idle" /\ Section(t) => Quiet
    BY SectionIsAlone DEF InFlush
  <2>3. CASE \E n \in Sizes : malloc(t, n)
    <3>1. PICK n \in Sizes :
            pc[t] = "idle" /\ (tinyMalloc(n) \/ poolMalloc(t, n) \/ heapEnter(t, n))
      BY <2>3 DEF malloc
    <3>2. poolMalloc(t, n) \/ heapEnter(t, n) => Quiet
      BY <2>2, <3>1 DEF poolMalloc, heapEnter
    <3> QED
      BY <3>1, <3>2, TinyMallocInv, PoolMallocInv, HeapEnterInv DEF User!Next
  <2>4. CASE heapMalloc(t)
    BY <2>4, HeapMallocInv DEF User!Next
  <2>5. CASE heapFails(t)
    BY <2>5, HeapFailsInv
  <2>6. CASE flush(t)
    BY <2>6, FlushReadInv, FlushReleaseInv, FlushEndInv, FlushZeroInv DEF flush
  <2>7. CASE \E a \in held : free(t, a)
    <3>1. PICK a \in held : free(t, a)
      BY <2>7
    <3>2. /\ pc[t] = "idle"
          /\ \/ tinyFree(a)
             \/ a \in HeapAddrs /\ (poolFree(t, a, size[a]) \/ heapFree(t, a, size[a]))
      BY <3>1, HeaderThere DEF free
    <3>4. poolFree(t, a, size[a]) \/ heapFree(t, a, size[a]) => Quiet
      BY <2>2, <3>2 DEF poolFree, heapFree
    <3>3. held' = held \ {a} /\ asked' = [asked EXCEPT ![a] = 0]
      BY <3>1 DEF free
    <3> QED
      BY <3>1, <3>2, <3>3, <3>4, TinyFreeInv, PoolFreeInv, HeapFreeInv DEF User!Next, User!Take
  <2> QED
    BY <2>1, <2>3, <2>4, <2>5, <2>6, <2>7
<1> QED
  BY <1>1, <1>2

(* And the counter stays right.                                              *)
LEMMA CounterNext ==
  ASSUME IInv, CInv, ~raced', [Next]_vars
  PROVE  CInv'
<1>1. CASE UNCHANGED vars
  BY <1>1, CounterStays DEF vars, heapVars, flushVars, CInv
<1>2. CASE Next
  <2>1. PICK t \in Threads : \/ \E n \in Sizes : malloc(t, n)
                             \/ heapMalloc(t) \/ heapFails(t) \/ flush(t)
                             \/ \E a \in held : free(t, a)
    BY <1>2 DEF Next
  <2>2. pc[t] = "idle" /\ Section(t) => Quiet
    BY SectionIsAlone DEF InFlush
  <2>3. ASSUME UNCHANGED <<size, bytesAllocated, want, pc, sum>>
        PROVE  CInv'
    BY <2>3, CounterStays DEF CInv
  <2>4. CASE \E n \in Sizes : malloc(t, n)
    <3>1. PICK n \in Sizes :
            pc[t] = "idle" /\ (tinyMalloc(n) \/ poolMalloc(t, n) \/ heapEnter(t, n))
      BY <2>4 DEF malloc
    <3>2. CASE tinyMalloc(n) \/ poolMalloc(t, n)
      BY <2>3, <3>2 DEF tinyMalloc, poolMalloc, heapVars, flushVars
    <3>3. CASE heapEnter(t, n)
      <4>1. Quiet
        BY <2>2, <3>1, <3>3 DEF heapEnter
      <4> QED
        BY <3>1, <3>3, <4>1, CounterEnter
    <3> QED
      BY <3>1, <3>2, <3>3
  <2>5. CASE heapMalloc(t)
    BY <2>5, CounterMalloc
  <2>6. CASE heapFails(t)
    <3>1. /\ UNCHANGED <<size, bytesAllocated, want, sum>>
          /\ pc' = [pc EXCEPT ![t] = "flush"] \/ pc' = [pc EXCEPT ![t] = "crash"]
      BY <2>6 DEF heapFails
    <3>2. /\ \A u \in Threads : pc'[u] = "idle" => pc[u] = "idle"
          /\ \A u \in Threads : pc'[u] = "release" => sum'[u] = bytesAllocated
      BY <3>1 DEF IInv, TypeOK, CInv
    <3> QED
      BY <3>1, <3>2, CounterStays
  <2>7. CASE flush(t)
    <3>1. CASE flushRead(t)
      <4>1. /\ UNCHANGED <<size, bytesAllocated, want>> /\ pc[t] = "flush"
            /\ sum' = [sum EXCEPT ![t] = bytesAllocated] /\ pc' = [pc EXCEPT ![t] = "release"]
        BY <3>1 DEF flushRead, heapVars
      <4>2. \A u \in Threads : u # t => pc[u] # "release"
        BY <4>1, FlushFacts DEF InFlush
      <4>3. /\ \A u \in Threads : pc'[u] = "idle" => pc[u] = "idle"
            /\ \A u \in Threads : pc'[u] = "release" => sum'[u] = bytesAllocated
        BY <4>1, <4>2 DEF IInv, TypeOK
      <4> QED
        BY <4>1, <4>3, CounterStays
    <3>2. CASE flushRelease(t)
      BY <3>2, CounterRelease
    <3>3. CASE flushEnd(t) \/ flushZero(t)
      <4>1. UNCHANGED <<size, bytesAllocated, want>> /\ pc[t] \in {"flush", "zero"}
        BY <3>3 DEF flushEnd, flushZero, heapVars
      <4>2. \/ pc' = [pc EXCEPT ![t] = "zero"] \/ pc' = [pc EXCEPT ![t] = "flush"]
            \/ pc' = [pc EXCEPT ![t] = "again"]
        BY <3>3 DEF flushEnd, flushZero, flushNext
      <4>3. \A u \in Threads : u # t => pc[u] # "release"
        BY <4>1, FlushFacts DEF InFlush
      <4>4. \A u \in Threads : pc'[u] # "release" /\ (pc'[u] = "idle" => pc[u] = "idle")
        BY <4>2, <4>3 DEF IInv, TypeOK
      <4> QED
        BY <4>1, <4>4, CounterStays
    <3> QED
      BY <2>7, <3>1, <3>2, <3>3 DEF flush
  <2>8. CASE \E a \in held : free(t, a)
    <3>1. PICK a \in held : free(t, a)
      BY <2>8
    <3>2. pc[t] = "idle" /\ UNCHANGED <<want, pc, sum>>
      BY <3>1 DEF free, flushVars
    <3>3. CASE tinyFree(a) \/ poolFree(t, a, size[a])
      BY <2>3, <3>2, <3>3 DEF tinyFree, poolFree
    <3>4. CASE a \in HeapAddrs /\ heapFree(t, a, size[a])
      <4>1. a \in OnHeap
        BY <3>4 DEF IInv, OneOwner
      <4>3. Quiet
        BY <2>2, <3>2, <3>4 DEF heapFree
      <4>2. /\ a \in HeapAddrs /\ size[a] # 0 /\ size' = [size EXCEPT ![a] = 0]
            /\ bytesAllocated' = bytesAllocated - Realsize(size[a])
        BY <3>4, <4>1 DEF heapFree, OnHeap
      <4> QED
        BY <3>2, <4>2, <4>3, CounterShrinks DEF Quiet, InFlush
    <3> QED
      BY <3>1, <3>3, <3>4, HeaderThere DEF free
  <2> QED
    BY <2>1, <2>4, <2>5, <2>6, <2>7, <2>8
<1> QED
  BY <1>1, <1>2

(* Once a race has begun it is not forgotten.                                *)
LEMMA RaceStays ==
  ASSUME raced, [Next]_vars
  PROVE  raced'
BY DEF Next, vars, malloc, tinyMalloc, poolMalloc, heapEnter, heapMalloc, heapFails, flush,
       flushRead, flushRelease, flushEnd, flushZero, free, tinyFree, poolFree, heapFree, Section

(* Whatever the threads interleave, however often the heap fails and whatever *)
(* the sizes of the lists are, the invariant holds up to the first section   *)
(* that overlaps the flush of another thread (lines 90-224, 325-334).        *)
THEOREM Invariance == Spec => []Inv
<1>1. Init => Inv
  BY InitInv, CounterInit DEF Inv
<1>2. Inv /\ [Next]_vars => Inv'
  BY NextInv, CounterNext, RaceStays DEF Inv
<1> QED
  BY <1>1, <1>2, PTL DEF Spec

(* Up to then no list grows beyond its array: the assertion of tinyFree (line *)
(* 306) and the bounds of poolFree (lines 204, 211) hold.                     *)
THEOREM TypeCorrect == Spec => [](raced \/ TypeOK)
<1>1. Inv => raced \/ TypeOK
  BY DEF Inv, IInv
<1> QED
  BY <1>1, Invariance, PTL

(* Up to then every block is in the hands of the program or in one place of   *)
(* one list, also while a flush is halfway (lines 90-224, 325-334).           *)
THEOREM BlocksHaveOneOwner == Spec => []OneOwnerUntilRace
<1>1. Inv => OneOwnerUntilRace
  BY DEF Inv, IInv, OneOwnerUntilRace
<1> QED
  BY <1>1, Invariance, PTL

(* Up to then a block is as large as what was asked for when it was handed    *)
(* out (lines 177, 198, 205, 344).                                           *)
THEOREM BlocksAreBigEnough == Spec => []BigEnoughUntilRace
<1>1. Inv => BigEnoughUntilRace
  BY DEF Inv, IInv, BigEnoughUntilRace
<1> QED
  BY <1>1, Invariance, PTL

(* Up to then the counter of bytes is exact: what the heap has given out and  *)
(* what malloc is about to ask for, also while one thread is between reading *)
(* and writing it in its flush and others are in ::malloc (lines 136-150,     *)
(* 218, 328).                                                                *)
THEOREM CounterExact == Spec => []CountedUntilRace
<1>1. Inv => CountedUntilRace
  BY DEF Inv, CInv, CountedUntilRace
<1> QED
  BY <1>1, Invariance, PTL

(* Up to then the pool implements the allocator: what malloc returns is in    *)
(* nobody's hands (lines 90-224, 325-334).                                   *)
THEOREM ImplementsAllocator == Spec => GivesFreeBlocks
<1>1. Init => User!Init
  BY DEF Init, User!Init
<1>2. Inv /\ [Next]_vars => [raced' \/ User!Next]_<<held, asked>>
  BY NextInv, RaceStays DEF Inv
<1> QED
  BY <1>1, <1>2, Invariance, PTL DEF Spec, GivesFreeBlocks
=============================================================================
