--------------------------------- MODULE cJSON ---------------------------------
(***************************************************************************)
(* The items of cJSON and the operations on their lists, with those of      *)
(* cJSON_Utils.  An item is a struct: child leads to its first child, next  *)
(* and prev to its neighbours, and the first of a list has prev NULL.  An   *)
(* operation is a function from heap to heap, one binding per assignment.   *)
(***************************************************************************)
EXTENDS Integers, FiniteSets, SequencesExt, Forest

CONSTANTS Nodes, Objects, Keys, Rank, Fold, Indexes, NULL,
          MaxCount   \* bound: items of an array that one call creates

Pointers == Nodes \cup {NULL}
Items == [child : Pointers, next : Pointers, prev : Pointers, string : Keys \cup {NULL}]
Heaps == [Nodes -> Items]

ASSUME ItemAssumption ==
  /\ IsFiniteSet(Nodes) /\ Objects \subseteq Nodes /\ NULL \notin Nodes \cup Keys
  /\ Rank \in [Keys -> Nat] /\ Fold \in [Keys -> Nat]
  /\ Indexes \subseteq Int /\ MaxCount \in Nat

VARIABLES
  heap,   \* what is in the memory of each item
  live,   \* the items that are allocated
  call    \* the last call and its arguments

Arrays == Nodes \ Objects
Zeroed == [child |-> NULL, next |-> NULL, prev |-> NULL, string |-> NULL]

(* p->f = v, where the code tests p for NULL first.                           *)
Set(h, p, f, v) == IF p = NULL THEN h ELSE [h EXCEPT ![p][f] = v]

(* The list that starts at p: the walk over next that every operation makes.  *)
(* No list of distinct items is longer than the bound on steps, here and in   *)
(* the loops of sort_list below, which end by themselves.                     *)
List(h, p) ==
  LET walk[steps \in Nat] ==
        [q \in Pointers |-> IF q = NULL \/ steps = 0 THEN <<>>
                           ELSE <<q>> \o walk[steps - 1][h[q].next]]
  IN walk[Cardinality(Nodes)][p]

ChildrenOf(h, n) == List(h, h[n].child)

get_array_item(h, a, i) ==
  IF i \in 0 .. Len(ChildrenOf(h, a)) - 1 THEN ChildrenOf(h, a)[i + 1] ELSE NULL

Bug_get_object_item(h, o, k, order) ==
  LET i == SelectInSeq(ChildrenOf(h, o), LAMBDA n : Fold[h[n].string] = Fold[k])
  IN IF i = 0 THEN NULL ELSE ChildrenOf(h, o)[i]

get_object_item(h, o, k, order) ==
  LET i == SelectInSeq(ChildrenOf(h, o), LAMBDA n : order[h[n].string] = order[k])
  IN IF i = 0 THEN NULL ELSE ChildrenOf(h, o)[i]

suffix_object(h, prev, item) == Set(Set(h, prev, "next", item), item, "prev", prev)

add_item_to_array(h, a, item) ==
  IF h[a].child = NULL THEN Set(h, a, "child", item)
  ELSE suffix_object(h, Last(ChildrenOf(h, a)), item)

(* item->string = the new key, the old one is freed.                          *)
add_item_to_object(h, o, k, item) == add_item_to_array(Set(h, item, "string", k), o, item)

DetachItemViaPointer(h, parent, item) ==
  LET h1 == Set(h, h[item].prev, "next", h[item].next)
      h2 == Set(h1, h1[item].next, "prev", h1[item].prev)
      h3 == IF h2[parent].child = item THEN Set(h2, parent, "child", h2[item].next) ELSE h2
  IN Set(Set(h3, item, "prev", NULL), item, "next", NULL)

(* The end of InsertItemInArray and of insert_item_in_array.                  *)
InsertBefore(h, a, after, new) ==
  LET h1 == Set(h, new, "next", after)
      h2 == Set(h1, new, "prev", h1[after].prev)
      h3 == Set(h2, after, "prev", new)
  IN IF h3[a].child = after THEN Set(h3, a, "child", new)
     ELSE Set(h3, h3[new].prev, "next", new)

(* All that cJSON_Delete frees: the items after this one, too.                *)
Reached(h, item) == Below([n \in Nodes |-> {h[n].child, h[n].next} \ {NULL}], item)

Free(h, S) == [n \in Nodes |-> IF n \in S THEN Zeroed ELSE h[n]]

(* Without the last two assignments, which come before cJSON_Delete(item).    *)
ReplaceItemViaPointer(h, parent, item, new) ==
  LET h1 == Set(Set(h, new, "next", h[item].next), new, "prev", h[item].prev)
      h2 == Set(h1, h1[new].next, "prev", new)
      h3 == Set(h2, h2[new].prev, "next", new)
  IN IF h3[parent].child = item THEN Set(h3, parent, "child", new) ELSE h3

Bug_Severed(h, item) == h

Severed(h, item) == Set(Set(h, item, "next", NULL), item, "prev", NULL)

-----------------------------------------------------------------------------
(* sort_list: mergesort by key, unstable where keys are equal.                *)

Less(h, p, q, order) == order[h[p].string] < order[h[q].string]

(* The loop that merges two lists, and what comes after it.                   *)
Merging == [heap : Heaps, first : Pointers, second : Pointers, tail : Pointers]

take_smaller(m, order) ==
  LET smaller == IF Less(m.heap, m.first, m.second, order) THEN m.first ELSE m.second
      h1 == IF m.tail = NULL THEN m.heap ELSE suffix_object(m.heap, m.tail, smaller)
  IN [heap   |-> h1,
      first  |-> IF smaller = m.first THEN h1[m.first].next ELSE m.first,
      second |-> IF smaller = m.first THEN m.second ELSE h1[m.second].next,
      tail   |-> smaller]

merge(h, list1, list2, order) ==
  LET loop[steps \in Nat] ==
        [m \in Merging |->
           IF NULL \in {m.first, m.second} \/ steps = 0
           THEN suffix_object(m.heap, m.tail, IF m.first = NULL THEN m.second ELSE m.first)
           ELSE loop[steps - 1][take_smaller(m, order)]]
  IN loop[Cardinality(Nodes)][[heap |-> h, first |-> list1, second |-> list2, tail |-> NULL]]

split(h, second) == Set(Set(h, h[second].prev, "next", NULL), second, "prev", NULL)

InOrder(h, items, order) ==
  \A i \in 1 .. Len(items) - 1 : Less(h, items[i], items[i + 1], order)

sort_list(heap0, list0, order) ==
  LET sort[depth \in Nat] ==
        [h \in Heaps |-> [list \in Pointers |->
          LET items == List(h, list) IN
          IF InOrder(h, items, order) \/ depth = 0
          THEN [heap |-> h, list |-> list]
          ELSE LET middle == items[(Len(items) + 1) \div 2 + 1]
                   first  == sort[depth - 1][split(h, middle)][list]
                   second == sort[depth - 1][first.heap][middle]
               IN [heap |-> merge(second.heap, first.list, second.list, order),
                   list |-> IF Less(second.heap, first.list, second.list, order)
                            THEN first.list ELSE second.list]]]
  IN sort[Cardinality(Nodes)][heap0][list0]

-----------------------------------------------------------------------------
(* The calls.  A new item belongs to the caller, is in no list, and is not    *)
(* put into a list below itself.                                             *)

Detached(n) == n \in live /\ \A m \in live : ~Contains(ChildrenOf(heap, m), n)
MayPut(a, n) == Detached(n) /\ a \in live \ Reached(heap, n)

Init ==
  /\ heap = [n \in Nodes |-> Zeroed]
  /\ live = {}
  /\ call = <<"none">>

(* cJSON_New_Item zeroes the memory it finds.  If it finds none, the call that *)
(* wanted it fails and leaves all as it was.                                 *)
New_Item(n) ==
  /\ n \notin live
  /\ live' = live \cup {n} /\ heap' = [heap EXCEPT ![n] = Zeroed]

Create(n) == New_Item(n) /\ call' = <<"Create", n>>

(* cJSON_CreateIntArray and its like: count new items in a new array.         *)
CreateArrayOf(a, items) ==
  LET new == {a} \cup ToSet(items)
      h == [n \in Nodes |-> IF n \in new THEN Zeroed ELSE heap[n]]
      linked[i \in 0 .. Len(items)] ==
        IF i = 0 THEN h
        ELSE IF i = 1 THEN Set(linked[0], a, "child", items[1])
             ELSE suffix_object(linked[i - 1], items[i - 1], items[i])
  IN
  /\ new \cap live = {} /\ a \notin ToSet(items) /\ IsInjective(items)
  /\ live' = live \cup new
  /\ heap' = linked[Len(items)]
  /\ call' = <<"CreateArray", a, items>>

(* Each item of the copy is linked to the copies of its neighbours, the first *)
(* to none; without recurse the first is all there is.                       *)
Duplicate(item, recurse) ==
  LET items == IF recurse /\ heap[item].child # NULL
               THEN {item} \cup Reached(heap, heap[item].child) ELSE {item} IN
  /\ item \in live
  /\ \E copy \in [items -> Nodes \ live] :
       LET of(p) == IF p \in items THEN copy[p] ELSE NULL
           duplicate(n) ==
             [child |-> of(heap[n].child), string |-> heap[n].string,
              next |-> IF n = item THEN NULL ELSE of(heap[n].next),
              prev |-> IF n = item THEN NULL ELSE of(heap[n].prev)] IN
       /\ IsInjective(copy)
       /\ \A n \in items : n \in Objects <=> copy[n] \in Objects
       /\ live' = live \cup Range(copy)
       /\ heap' = [m \in Nodes |-> IF \E n \in items : copy[n] = m
                    THEN duplicate(CHOOSE n \in items : copy[n] = m) ELSE heap[m]]
       /\ call' = <<"Duplicate", item, copy>>

Delete(n) ==
  /\ Detached(n)
  /\ live' = live \ Reached(heap, n) /\ heap' = Free(heap, Reached(heap, n))
  /\ call' = <<"Delete", n>>

AddItemToArray(a, n) ==
  /\ MayPut(a, n)
  /\ heap' = add_item_to_array(heap, a, n)
  /\ call' = <<"AddItemToArray", a, n>>
  /\ UNCHANGED live

InsertItemInArray(a, i, n) ==
  LET after == get_array_item(heap, a, i) IN
  /\ MayPut(a, n) /\ i >= 0
  /\ heap' = IF after = NULL THEN add_item_to_array(heap, a, n)
             ELSE InsertBefore(heap, a, after, n)
  /\ call' = <<"InsertItemInArray", a, i, n>>
  /\ UNCHANGED live

(* As above, but an index past the end is refused.                            *)
insert_item_in_array(a, i, n) ==
  LET child == get_array_item(heap, a, i) IN
  /\ MayPut(a, n) /\ i \in 0 .. Len(ChildrenOf(heap, a))
  /\ heap' = IF child = NULL THEN add_item_to_array(heap, a, n)
             ELSE InsertBefore(heap, a, child, n)
  /\ call' = <<"insert_item_in_array", a, i, n>>
  /\ UNCHANGED live

DetachItemFromArray(a, i) ==
  LET item == get_array_item(heap, a, i) IN
  /\ a \in live
  /\ heap' = IF item = NULL THEN heap ELSE DetachItemViaPointer(heap, a, item)
  /\ call' = <<"DetachItemFromArray", a, i>>
  /\ UNCHANGED live

replace(h, parent, item, new) ==
  IF item = NULL THEN heap' = h /\ UNCHANGED live
  ELSE LET h1 == Severed(ReplaceItemViaPointer(h, parent, item, new), item)
       IN live' = live \ Reached(h1, item) /\ heap' = Free(h1, Reached(h1, item))

ReplaceItemInArray(a, i, n) ==
  /\ MayPut(a, n)
  /\ replace(heap, a, get_array_item(heap, a, i), n)
  /\ call' = <<"ReplaceItemInArray", a, i, n>>

AddItemToObject(o, k, n) ==
  /\ MayPut(o, n)
  /\ heap' = add_item_to_object(heap, o, k, n)
  /\ call' = <<"AddItemToObject", o, k, n>>
  /\ UNCHANGED live

(* cJSON_AddNullToObject and its like: a new item; if the object is missing it *)
(* is deleted again.                                                         *)
AddNewToObject(o, k, n) ==
  /\ n \notin live /\ o \in live
  /\ live' = live \cup {n}
  /\ heap' = add_item_to_object([heap EXCEPT ![n] = Zeroed], o, k, n)
  /\ call' = <<"AddNewToObject", o, k, n>>

(* The order tells the variant that ignores case from the other.              *)
DetachItemFromObject(o, k, order) ==
  LET item == get_object_item(heap, o, k, order) IN
  /\ o \in live
  /\ heap' = IF item = NULL THEN heap ELSE DetachItemViaPointer(heap, o, item)
  /\ call' = <<"DetachItemFromObject", o, k, order>>
  /\ UNCHANGED live

(* The new item gets the key even if no member has it, and then stays outside. *)
replace_item_in_object(o, k, n, order) ==
  /\ MayPut(o, n)
  /\ replace(Set(heap, n, "string", k), o, get_object_item(heap, o, k, order), n)
  /\ call' = <<"ReplaceItemInObject", o, k, n, order>>

sort_object(o, order) ==
  LET sorted == sort_list(heap, heap[o].child, order) IN
  /\ o \in live
  /\ heap' = Set(sorted.heap, o, "child", sorted.list)
  /\ call' = <<"SortObject", o, order>>
  /\ UNCHANGED live

Next ==
  \/ \E n \in Nodes : Create(n) \/ Delete(n)
  \/ \E n \in Nodes, recurse \in BOOLEAN : Duplicate(n, recurse)
  \/ \E a \in Arrays, items \in BoundedSeq(Nodes, MaxCount) : CreateArrayOf(a, items)
  \/ \E a \in Arrays, n \in Nodes : AddItemToArray(a, n)
  \/ \E a \in Arrays, i \in Indexes, n \in Nodes :
       InsertItemInArray(a, i, n) \/ insert_item_in_array(a, i, n) \/ ReplaceItemInArray(a, i, n)
  \/ \E a \in Arrays, i \in Indexes : DetachItemFromArray(a, i)
  \/ \E o \in Objects, n \in Nodes, k \in Keys :
       AddItemToObject(o, k, n) \/ AddNewToObject(o, k, n)
  \/ \E o \in Objects, k \in Keys, order \in {Rank, Fold} :
       \/ DetachItemFromObject(o, k, order)
       \/ \E n \in Nodes : replace_item_in_object(o, k, n, order)
  \/ \E o \in Objects, order \in {Rank, Fold} : sort_object(o, order)

vars == <<heap, live, call>>

Spec == Init /\ [][Next]_vars

-----------------------------------------------------------------------------
(* Properties                                                                *)

(* Every list is well formed (cJSON.c:1820-2207, cJSON_Utils.c:373-569): prev *)
(* is the inverse of next, the first item has none, no item is in two lists  *)
(* and no pointer leads to memory that was freed.                            *)
ListsOK ==
  /\ heap \in Heaps
  /\ \A n \in live :
       /\ {heap[n].child, heap[n].next, heap[n].prev} \subseteq live \cup {NULL}
       /\ heap[n].next # NULL => heap[heap[n].next].prev = n
       /\ heap[n].prev # NULL => heap[heap[n].prev].next = n
       /\ heap[n].child # NULL => heap[heap[n].child].prev = NULL
  /\ \A m, n \in live : m # n /\ heap[m].child # NULL => heap[m].child # heap[n].child

(* Each call does to the sequence of children what it promises, and to no      *)
(* other list anything.                                                      *)
Tree == INSTANCE JsonTree WITH
          children <- [n \in Nodes |-> ChildrenOf(heap, n)],
          key      <- [n \in Nodes |-> heap[n].string]

ImplementsTree == Tree!Spec
=============================================================================
