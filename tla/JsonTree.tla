------------------------------- MODULE JsonTree -------------------------------
(***************************************************************************)
(* What the list operations of cJSON promise: an array or an object is a    *)
(* sequence of items, and each call changes one sequence in one place.  The *)
(* variable call names the last call and its arguments.                     *)
(***************************************************************************)
EXTENDS Integers, FiniteSets, SequencesExt, Forest

CONSTANTS
  Nodes,     \* items
  Objects,   \* those that are created as objects, the others are arrays
  Keys,
  Rank,      \* the place of a key in the order of strcmp
  Fold,      \* and in the order that ignores case: equal for "a" and "A"
  Indexes,   \* bound: the indexes that are passed
  MaxCount,  \* bound: items of an array that one call creates
  NULL

VARIABLES live, children, key, call

Init ==
  /\ live = {}
  /\ children = [n \in Nodes |-> <<>>]
  /\ key = [n \in Nodes |-> NULL]
  /\ call = <<"none">>

Arrays == Nodes \ Objects
Detached(n) == n \in live /\ \A m \in live : ~Contains(children[m], n)

(* The item, its children, their children, and so on.                         *)
Subtree(n) == Below([m \in Nodes |-> ToSet(children[m])], n)

(* The first member with a key, 0 if there is none.                           *)
Member(o, k, order) ==
  SelectInSeq(children[o], LAMBDA n : order[key[n]] = order[k])

Create(n) ==
  /\ n \notin live
  /\ live' = live \cup {n}
  /\ UNCHANGED <<children, key>>

CreateArrayOf(a, items) ==
  /\ ({a} \cup ToSet(items)) \cap live = {} /\ a \notin ToSet(items) /\ IsInjective(items)
  /\ live' = live \cup {a} \cup ToSet(items)
  /\ children' = [children EXCEPT ![a] = items]
  /\ UNCHANGED key

(* copy maps the item, and unless it was copied alone all below it, to items   *)
(* of the same kind that are free.                                           *)
Duplicate(n, copy) ==
  LET original(m) == CHOOSE i \in DOMAIN copy : copy[i] = m IN
  /\ n \in live /\ DOMAIN copy \in {{n}, Subtree(n)}
  /\ IsInjective(copy) /\ Range(copy) \subseteq Nodes \ live
  /\ live' = live \cup Range(copy)
  /\ key' = [m \in Nodes |-> IF m \in Range(copy) THEN key[original(m)] ELSE key[m]]
  /\ children' = [m \in Nodes |->
       IF m \notin Range(copy) THEN children[m]
       ELSE IF DOMAIN copy # Subtree(n) THEN <<>>
       ELSE [i \in DOMAIN children[original(m)] |-> copy[children[original(m)][i]]]]

(* The caller owns n, and a is no part of it.                                 *)
Insert(a, i, n) ==
  /\ Detached(n) /\ a \in live \ Subtree(n)
  /\ children' = [children EXCEPT ![a] = InsertAt(@, i, n)]
  /\ UNCHANGED live

Detach(a, i) ==
  /\ a \in live
  /\ children' = IF i \in DOMAIN children[a]
                 THEN [children EXCEPT ![a] = RemoveAt(@, i)] ELSE children
  /\ UNCHANGED <<live, key>>

Free(S) == [n \in Nodes |-> IF n \in S THEN <<>> ELSE children[n]]
FreeKeys(S) == [n \in Nodes |-> IF n \in S THEN NULL ELSE key[n]]

(* The replaced item is deleted with all it contains.                         *)
Replace(a, i, n, keys) ==
  /\ Detached(n) /\ a \in live \ Subtree(n)
  /\ LET gone == IF i \in DOMAIN children[a] THEN Subtree(children[a][i]) ELSE {} IN
     /\ live' = live \ gone
     /\ children' = [m \in Nodes |->
          IF m \in gone THEN <<>>
          ELSE IF m = a /\ gone # {} THEN ReplaceAt(children[a], i, n) ELSE children[m]]
     /\ key' = [m \in Nodes |-> IF m \in gone THEN NULL ELSE keys[m]]

Delete(n) ==
  /\ Detached(n)
  /\ live' = live \ Subtree(n)
  /\ children' = Free(Subtree(n)) /\ key' = FreeKeys(Subtree(n))

(* Equal keys may end in any order.                                           *)
Sort(o, order) ==
  /\ o \in live
  /\ children'[o] \in [1 .. Len(children[o]) -> ToSet(children[o])]
  /\ ToSet(children'[o]) = ToSet(children[o])
  /\ \A i \in 1 .. Len(children[o]) - 1 :
       order[key[children'[o][i]]] <= order[key[children'[o][i + 1]]]
  /\ \A n \in Nodes \ {o} : children'[n] = children[n]
  /\ UNCHANGED <<live, key>>

Least(i, j) == IF i < j THEN i ELSE j
Renamed(n, k) == [key EXCEPT ![n] = k]

Next ==
  \/ \E n \in Nodes :
       \/ call' = <<"Create", n>> /\ Create(n)
       \/ call' = <<"Delete", n>> /\ Delete(n)
  \/ \E a \in Arrays, items \in BoundedSeq(Nodes, MaxCount) :
       call' = <<"CreateArray", a, items>> /\ CreateArrayOf(a, items)
  \/ \E n \in Nodes : \E copy \in [{n} -> Nodes \ live] \cup [Subtree(n) -> Nodes \ live] :
       call' = <<"Duplicate", n, copy>> /\ Duplicate(n, copy)
  \/ \E a \in Arrays, n \in Nodes :
       /\ call' = <<"AddItemToArray", a, n>>
       /\ Insert(a, Len(children[a]) + 1, n) /\ UNCHANGED key
  \/ \E a \in Arrays, i \in Indexes, n \in Nodes :
       \/ call' = <<"InsertItemInArray", a, i, n>> /\ i >= 0 /\ UNCHANGED key
          /\ Insert(a, Least(i, Len(children[a])) + 1, n)
       \/ call' = <<"insert_item_in_array", a, i, n>> /\ i \in 0 .. Len(children[a])
          /\ Insert(a, i + 1, n) /\ UNCHANGED key
       \/ call' = <<"ReplaceItemInArray", a, i, n>> /\ Replace(a, i + 1, n, key)
  \/ \E a \in Arrays, i \in Indexes :
       call' = <<"DetachItemFromArray", a, i>> /\ Detach(a, i + 1)
  \/ \E o \in Objects, n \in Nodes, k \in Keys :
       \/ call' = <<"AddItemToObject", o, k, n>> /\ key' = Renamed(n, k)
          /\ Insert(o, Len(children[o]) + 1, n)
       \/ \E order \in {Rank, Fold} :
            call' = <<"ReplaceItemInObject", o, k, n, order>>
            /\ Replace(o, Member(o, k, order), n, Renamed(n, k))
       \/ /\ call' = <<"AddNewToObject", o, k, n>>
          /\ n \notin live /\ o \in live
          /\ live' = live \cup {n} /\ key' = Renamed(n, k)
          /\ children' = [children EXCEPT ![o] = Append(@, n)]
  \/ \E o \in Objects, order \in {Rank, Fold} :
       \/ \E k \in Keys :
            call' = <<"DetachItemFromObject", o, k, order>> /\ Detach(o, Member(o, k, order))
       \/ call' = <<"SortObject", o, order>> /\ Sort(o, order)

vars == <<live, children, key, call>>

Spec == Init /\ [][Next]_vars
=============================================================================
