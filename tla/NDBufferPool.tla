----------------------------- MODULE NDBufferPool -----------------------------
(***************************************************************************)
(* The memory pool all threads share.  Small requests come from a          *)
(* preallocated array of tiny buffers, larger ones from the heap; blocks   *)
(* that are freed go to one of two lists, by size, and are handed out      *)
(* again to a request they are large enough for.  The lists are used under *)
(* one lock, the heap outside it - and so is the flush of the lists when   *)
(* the heap has no memory left.                                            *)
(*                                                                         *)
(* A list is the sequence of its first poolSize entries.  Sizes stand for  *)
(* bytes, an address for a block.  The counters of malloc calls are        *)
(* statistics and left out; realloc has no caller in the program.          *)
(*                                                                         *)
(* Nothing keeps the other threads from the lists and the counter during a *)
(* flush.  A section that overlaps a flush takes place here at one moment  *)
(* of the flush, and raced records that there was one: what comes after is *)
(* one of the outcomes of the data race, at the grain of these actions.    *)
(***************************************************************************)
EXTENDS Integers, Sequences, FiniteSets, Functions

CONSTANTS
  Threads,
  TinyAddrs,      \* the tiny buffers (maxTinyBuffers of them)
  HeapAddrs,      \* where the heap may put a block, bound of its size
  NULL,
  Sizes,          \* what the program asks for
  TinySize, SmallSize, MedSize,  \* tinyBufferSize, smallBufferSize, medBufferSize
  MaxSmall, MaxMed,              \* maxSmallBuffers, maxMedBuffers
  Header,         \* sizeof(unsigned int)
  MaxOoms         \* bound: how often ::malloc returns NULL

ASSUME PoolAssumption ==
  /\ IsFiniteSet(TinyAddrs)
  /\ Sizes \subseteq Nat \ {0}
  /\ {TinySize, SmallSize, MedSize, MaxSmall, MaxMed, Header, MaxOoms} \subseteq Nat
  /\ TinySize <= SmallSize /\ SmallSize <= MedSize
  /\ TinyAddrs \cap HeapAddrs = {} /\ NULL \notin TinyAddrs \cup HeapAddrs

Addrs   == TinyAddrs \cup HeapAddrs
Classes == {"small", "med"}
Entry   == [ptr : HeapAddrs \cup {NULL}, bytes : Nat]
NoEntry == [ptr |-> NULL, bytes |-> 0]

VARIABLES
  tinyPool,        \* free tiny buffers
  pool,            \* smallPool and medPool
  size,            \* the size in front of each heap block, 0: not allocated
  bytesAllocated,
  held,            \* blocks in the hands of the program
  asked,           \* history: what was asked of a block by all who got it, 0: free
  ooms,
  pc,              \* where each thread is in malloc
  want,            \* the argument of malloc, 0 outside of it
  which,           \* the list being flushed
  pos,             \* the loop variable of flushPool
  victim,          \* pool[i] as flushPool read it
  sum,             \* bytesAllocated as flushPool read it
  raced            \* history: a section has overlapped another thread's flush

listVars  == <<tinyPool, pool>>
heapVars  == <<size, bytesAllocated, ooms>>
userVars  == <<held, asked>>
flushVars == <<which, pos, victim, sum>>
vars      == <<listVars, heapVars, userVars, flushVars, pc, want, raced>>

(* The constructor; the tiny buffers are listed in some order, each once.     *)
Init ==
  /\ tinyPool \in Bijection(1..Cardinality(TinyAddrs), TinyAddrs)
  /\ pool = [c \in Classes |-> <<>>]
  /\ size = [a \in HeapAddrs |-> 0] /\ bytesAllocated = 0 /\ ooms = 0
  /\ held = {} /\ asked = [a \in Addrs |-> 0]
  /\ pc = [t \in Threads |-> "idle"] /\ want = [t \in Threads |-> 0]
  /\ which = [t \in Threads |-> "small"] /\ pos = [t \in Threads |-> 0]
  /\ victim = [t \in Threads |-> NoEntry] /\ sum = [t \in Threads |-> 0]
  /\ raced = FALSE

SmallOrMed(n) == IF n <= SmallSize THEN {"small"}
                 ELSE IF n <= MedSize THEN {"med"} ELSE {}
MaxBuffers(c) == IF c = "small" THEN MaxSmall ELSE MaxMed
Realsize(n)   == n + Header

InFlush(t) == pc[t] \in {"flush", "release", "zero"}

(* A section of thread t on the lists and the counter, which a flush uses too. *)
Section(t) == raced' = (raced \/ \E u \in Threads \ {t} : InFlush(u))

Handout(a, n) ==
  /\ held' = held \cup {a}
  /\ asked' = [asked EXCEPT ![a] = @ + n]

-----------------------------------------------------------------------------
(* malloc(bytes), the part under the lock.                                   *)

Tiny(n) == n <= TinySize /\ tinyPool # <<>>

tinyMalloc(n) ==
  /\ Tiny(n)
  /\ Handout(tinyPool[Len(tinyPool)], n)
  /\ tinyPool' = SubSeq(tinyPool, 1, Len(tinyPool) - 1)
  /\ UNCHANGED <<pool, heapVars, flushVars, pc, want, raced>>

Bug_Fitting(c, n) == DOMAIN pool[c]

Fitting(c, n) == {k \in DOMAIN pool[c] : pool[c][k].bytes >= n}

Bug_Without(p, k) == SubSeq(p, 1, Len(p) - 1)

(* The last entry takes the place of the one removed.                        *)
Without(p, k) == SubSeq([p EXCEPT ![k] = p[Len(p)]], 1, Len(p) - 1)

(* The search runs from the end of the list.                                 *)
poolMalloc(t, n) ==
  /\ ~Tiny(n)
  /\ \E c \in SmallOrMed(n) : \E k \in Fitting(c, n) :
       /\ \A l \in Fitting(c, n) : l <= k
       /\ Handout(pool[c][k].ptr, n)
       /\ pool' = [pool EXCEPT ![c] = Without(@, k)]
  /\ Section(t)
  /\ UNCHANGED <<tinyPool, heapVars, flushVars, pc, want>>

heapEnter(t, n) ==
  /\ ~Tiny(n)
  /\ \A c \in SmallOrMed(n) : Fitting(c, n) = {}
  /\ bytesAllocated' = bytesAllocated + Realsize(n)
  /\ want' = [want EXCEPT ![t] = n]
  /\ pc' = [pc EXCEPT ![t] = "heap"]
  /\ Section(t)
  /\ UNCHANGED <<listVars, size, ooms, userVars, flushVars>>

malloc(t, n) ==
  /\ pc[t] = "idle"
  /\ tinyMalloc(n) \/ poolMalloc(t, n) \/ heapEnter(t, n)

-----------------------------------------------------------------------------
(* malloc(bytes), after the lock is released: ::malloc, up to twice.         *)

heapMalloc(t) ==
  /\ pc[t] \in {"heap", "again"}
  /\ \E a \in HeapAddrs :
       /\ size[a] = 0
       /\ size' = [size EXCEPT ![a] = want[t]]
       /\ Handout(a, want[t])
  /\ want' = [want EXCEPT ![t] = 0]
  /\ pc' = [pc EXCEPT ![t] = "idle"]
  /\ UNCHANGED <<listVars, bytesAllocated, ooms, flushVars, raced>>

(* The second NULL is written through (line 177): the program ends.          *)
heapFails(t) ==
  /\ pc[t] \in {"heap", "again"}
  /\ ooms < MaxOoms
  /\ ooms' = ooms + 1
  /\ IF pc[t] = "heap"
     THEN /\ pc' = [pc EXCEPT ![t] = "flush"]
          /\ which' = [which EXCEPT ![t] = "small"]
          /\ pos' = [pos EXCEPT ![t] = 1]
          /\ Section(t)
     ELSE pc' = [pc EXCEPT ![t] = "crash"] /\ UNCHANGED <<which, pos, raced>>
  /\ UNCHANGED <<listVars, size, bytesAllocated, userVars, victim, sum, want>>

flushNext(t) ==
  IF which[t] = "small"
  THEN /\ which' = [which EXCEPT ![t] = "med"]
       /\ pos' = [pos EXCEPT ![t] = 1]
       /\ pc' = [pc EXCEPT ![t] = "flush"]
  ELSE /\ pos' = [pos EXCEPT ![t] = 0]
       /\ pc' = [pc EXCEPT ![t] = "again"]
       /\ UNCHANGED which

(* flushPool, without the lock.  Reading the entry and the counter, and       *)
(* acting on what was read, are two steps.                                   *)
flushRead(t) ==
  /\ pc[t] = "flush"
  /\ pos[t] <= Len(pool[which[t]])
  /\ victim' = [victim EXCEPT ![t] = pool[which[t]][pos[t]]]
  /\ sum' = [sum EXCEPT ![t] = bytesAllocated]
  /\ pc' = [pc EXCEPT ![t] = "release"]
  /\ UNCHANGED <<listVars, heapVars, userVars, which, pos, want, raced>>

Bug_flushRelease(t) ==
  LET ptr == victim[t].ptr IN
  /\ pc[t] = "release"
  /\ bytesAllocated' = sum[t] - victim[t].bytes
  /\ size' = [a \in HeapAddrs |-> IF a = ptr THEN 0 ELSE size[a]]
  /\ pool' = [pool EXCEPT ![which[t]] =
                [k \in DOMAIN @ |-> IF k = pos[t] THEN NoEntry ELSE @[k]]]
  /\ pos' = [pos EXCEPT ![t] = @ + 1]
  /\ victim' = [victim EXCEPT ![t] = NoEntry]
  /\ sum' = [sum EXCEPT ![t] = 0]
  /\ pc' = [pc EXCEPT ![t] = "flush"]
  /\ UNCHANGED <<tinyPool, ooms, userVars, which, want, raced>>

flushRelease(t) ==
  LET ptr == victim[t].ptr IN
  /\ pc[t] = "release"
  /\ bytesAllocated' = sum[t] - Realsize(victim[t].bytes)
  /\ size' = [a \in HeapAddrs |-> IF a = ptr THEN 0 ELSE size[a]]
  /\ pool' = [pool EXCEPT ![which[t]] =
                [k \in DOMAIN @ |-> IF k = pos[t] THEN NoEntry ELSE @[k]]]
  /\ pos' = [pos EXCEPT ![t] = @ + 1]
  /\ victim' = [victim EXCEPT ![t] = NoEntry]
  /\ sum' = [sum EXCEPT ![t] = 0]
  /\ pc' = [pc EXCEPT ![t] = "flush"]
  /\ UNCHANGED <<tinyPool, ooms, userVars, which, want, raced>>

Bug_flushEnd(t) ==
  /\ pc[t] = "flush"
  /\ pos[t] >= Len(pool[which[t]])
  /\ pc' = [pc EXCEPT ![t] = "zero"]
  /\ UNCHANGED <<listVars, heapVars, userVars, flushVars, want, raced>>

flushEnd(t) ==
  /\ pc[t] = "flush"
  /\ pos[t] > Len(pool[which[t]])
  /\ pc' = [pc EXCEPT ![t] = "zero"]
  /\ UNCHANGED <<listVars, heapVars, userVars, flushVars, want, raced>>

(* poolSize = 0; first for smallPool, then for medPool.                      *)
flushZero(t) ==
  /\ pc[t] = "zero"
  /\ pool' = [pool EXCEPT ![which[t]] = <<>>]
  /\ flushNext(t)
  /\ UNCHANGED <<tinyPool, heapVars, userVars, victim, sum, want, raced>>

-----------------------------------------------------------------------------
(* free(ptr), of a block the program holds, by any thread.                   *)

(* The size free finds in front of a block; after a race the heap may have    *)
(* taken the block back already, and the size may be any.                    *)
BytesOf(a) == IF size[a] # 0 THEN {size[a]} ELSE Sizes \cup {0}

tinyFree(a) ==
  /\ a \in TinyAddrs
  /\ tinyPool' = Append(tinyPool, a)
  /\ UNCHANGED <<pool, size, bytesAllocated, raced>>

poolFree(t, a, bytes) ==
  /\ \E c \in SmallOrMed(bytes) :
       /\ Len(pool[c]) < MaxBuffers(c)
       /\ pool' = [pool EXCEPT ![c] = Append(@, [ptr |-> a, bytes |-> bytes])]
  /\ Section(t)
  /\ UNCHANGED <<tinyPool, size, bytesAllocated>>

(* The lists are full, or the block is too large to keep.  ::free comes after *)
(* the lock is released; nobody else can name the block by then.             *)
heapFree(t, a, bytes) ==
  /\ \A c \in SmallOrMed(bytes) : Len(pool[c]) >= MaxBuffers(c)
  /\ bytesAllocated' = bytesAllocated - Realsize(bytes)
  /\ size' = [size EXCEPT ![a] = 0]
  /\ Section(t)
  /\ UNCHANGED listVars

free(t, a) ==
  /\ pc[t] = "idle" /\ a \in held
  /\ \/ tinyFree(a)
     \/ /\ a \in HeapAddrs
        /\ \E bytes \in BytesOf(a) : poolFree(t, a, bytes) \/ heapFree(t, a, bytes)
  /\ held' = held \ {a}
  /\ asked' = [asked EXCEPT ![a] = 0]
  /\ UNCHANGED <<ooms, flushVars, pc, want>>

-----------------------------------------------------------------------------
flush(t) == flushRead(t) \/ flushRelease(t) \/ flushEnd(t) \/ flushZero(t)

Next ==
  /\ \A t \in Threads : pc[t] # "crash"
  /\ \E t \in Threads :
       \/ \E n \in Sizes : malloc(t, n)
       \/ heapMalloc(t) \/ heapFails(t) \/ flush(t)
       \/ \E a \in held : free(t, a)

Spec == Init /\ [][Next]_vars

-----------------------------------------------------------------------------
(* Properties                                                                *)

(* Every variable has its type; in particular no list grows beyond its array *)
(* (NDBufferPool.h:41-47, 82-92).                                            *)
TypeOK ==
  /\ tinyPool \in Seq(TinyAddrs) /\ Len(tinyPool) <= Cardinality(TinyAddrs)
  /\ pool \in [Classes -> Seq(Entry)]
  /\ \A c \in Classes : Len(pool[c]) <= MaxBuffers(c)
  /\ size \in [HeapAddrs -> Nat] /\ bytesAllocated \in Int /\ ooms \in 0..MaxOoms
  /\ held \subseteq Addrs /\ asked \in [Addrs -> Nat]
  /\ pc \in [Threads -> {"idle", "heap", "flush", "release", "zero", "again", "crash"}]
  /\ want \in [Threads -> Sizes \cup {0}] /\ which \in [Threads -> Classes]
  /\ pos \in [Threads -> Nat] /\ victim \in [Threads -> Entry] /\ sum \in [Threads -> Int]

FreeTiny   == {tinyPool[k] : k \in DOMAIN tinyPool}
Pooled(c)  == {pool[c][k].ptr : k \in DOMAIN pool[c]} \ {NULL}
OnHeap     == {a \in HeapAddrs : size[a] # 0}
Distinct(s) == \A k, l \in DOMAIN s : s[k] = s[l] /\ s[k] # NULL => k = l
Pointers(c) == [k \in DOMAIN pool[c] |-> pool[c][k].ptr]

(* Every block has exactly one owner - the program, or one place in one list: *)
(* none is handed out while it is in use, none is in two lists or in a list   *)
(* after ::free, none is forgotten (lines 99-134, 191-220, 268-359).  The     *)
(* lock is there to "provide synchronization between threads"                *)
(* (NDBufferPool.h:132); the flush does without it (lines 147-151), and a     *)
(* thread that takes a block from a list just then loses it to the heap.     *)
OneOwner ==
  /\ Distinct(tinyPool) /\ \A c \in Classes : Distinct(Pointers(c))
  /\ Pooled("small") \cap Pooled("med") = {}
  /\ held \cap (FreeTiny \cup Pooled("small") \cup Pooled("med")) = {}
  /\ TinyAddrs \subseteq held \cup FreeTiny
  /\ OnHeap = (held \cap HeapAddrs) \cup Pooled("small") \cup Pooled("med")

(* The program gets at least what it asked for, also from a block that was    *)
(* made for another request: a list entry and the header of its block agree   *)
(* (lines 177, 198, 205, 344).                                               *)
BigEnough ==
  /\ \A a \in held \cap HeapAddrs : asked[a] <= size[a]
  /\ \A a \in held \cap TinyAddrs : asked[a] <= TinySize
  /\ \A c \in Classes : \A k \in DOMAIN pool[c] :
       pool[c][k].ptr # NULL => pool[c][k].bytes = size[pool[c][k].ptr]

(* bytesAllocated is what the heap has given out and malloc is about to ask   *)
(* for, list entries included, through every path of malloc and free (lines  *)
(* 136, 218, 328).                                                           *)
NonZero(D, f) == {x \in D : f[x] # 0}
Total(D, f)   == SumFunctionOnSet([x \in D |-> Realsize(f[x])], NonZero(D, f))
Counted == bytesAllocated = Total(HeapAddrs, size) + Total(Threads, want)

(* Of every interleaving the three hold up to the first section that overlaps *)
(* another thread's flush: the flush itself, its tiny requests and heap calls *)
(* of other threads in the middle of it, and all that is before and after     *)
(* leave the pool whole; only such an overlap can do harm (lines 147-151).    *)
OneOwnerUntilRace  == raced \/ OneOwner
BigEnoughUntilRace == raced \/ BigEnough
CountedUntilRace   == raced \/ Counted

(* Whatever the lists do, up to then the program sees an allocator that never *)
(* gives out a block that is in use (the purpose of the locked sections,      *)
(* 94-137, 192-219); a second use would show in asked.                       *)
User == INSTANCE Allocator WITH Blocks <- Addrs
GivesFreeBlocks == User!Init /\ [][raced' \/ User!Next]_<<held, asked>>

(* What every step preserves up to a race.  Somebody waiting for the heap has  *)
(* asked for something; at most one thread flushes, and the list it is at has *)
(* holes exactly where it has been; other lists have none.                   *)
Quiet      == \A t \in Threads : ~InFlush(t)
Full(c)    == \A k \in DOMAIN pool[c] : pool[c][k].ptr # NULL

Unasked == \A a \in Addrs \ held : asked[a] = 0
Asking  == \A t \in Threads : pc[t] \notin {"idle", "crash"} => want[t] \in Sizes
FlushedSoFar(t) ==
  LET list == pool[which[t]] IN
  /\ pos[t] # 0 /\ \A k \in DOMAIN list : list[k].ptr = NULL <=> k < pos[t]
  /\ pc[t] = "release" => pos[t] \in DOMAIN list /\ victim[t] = list[pos[t]]
  /\ pc[t] = "zero" => pos[t] > Len(list)
  /\ \A c \in Classes \ {which[t]} : Full(c)
FlushInv ==
  /\ \A t \in Threads : InFlush(t) => FlushedSoFar(t)
  /\ \A t, u \in Threads : InFlush(t) /\ InFlush(u) => t = u
  /\ Quiet => \A c \in Classes : Full(c)
IInv == TypeOK /\ Unasked /\ Asking /\ FlushInv /\ OneOwner /\ BigEnough

(* And with it, what keeps the counter right: the sums are of finitely many,   *)
(* the counter does not change between flushRead and flushRelease.           *)
CInv ==
  /\ Counted
  /\ IsFiniteSet(NonZero(HeapAddrs, size)) /\ IsFiniteSet(NonZero(Threads, want))
  /\ \A t \in Threads : pc[t] = "idle" => want[t] = 0
  /\ \A t \in Threads : pc[t] = "release" => sum[t] = bytesAllocated

Inv == raced \/ (IInv /\ CInv)
=============================================================================
