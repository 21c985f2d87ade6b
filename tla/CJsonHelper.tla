------------------------------ MODULE CJsonHelper ------------------------------
(***************************************************************************)
(* CJsonHelper: an object that owns a JSON document, or wraps an item of    *)
(* one.  operator[] creates a wrapper the first time and caches it in a map *)
(* of the object it was called on, which deletes it in the end.  The maps   *)
(* and the document are two structures that each call must keep in step.    *)
(*                                                                         *)
(* The document is kept as JsonTree keeps it, and a call of several calls   *)
(* of cJSON is one step: the program is single threaded here.  set and      *)
(* append of another helper copy its document through print and parse.      *)
(***************************************************************************)
EXTENDS Integers, FiniteSets, SequencesExt, Forest

CONSTANTS
  Nodes,        \* cJSON items
  Objects,      \* those of type cJSON_Object
  Values,       \* those of a type that has no children; the rest are arrays
  Helpers,      \* CJsonHelper objects
  Keys, Fold,   \* Fold[k]: k in lower case
  Indexes,
  NULL,
  Obligations   \* of the callers: see Obliged

ASSUME HelperAssumption ==
  /\ Objects \subseteq Nodes /\ Values \subseteq Nodes \ Objects
  /\ NULL \notin Nodes \cup Helpers \cup Keys
  /\ Indexes \subseteq Int

VARIABLES
  tree,     \* the cJSON items: children, key and, for a value, type
  live,     \* the items that are allocated
  helper,   \* the objects: m_bRoot, m_pJsonData and the two maps
  used,     \* the objects that exist
  call      \* the last call and its arguments

Pointers == Nodes \cup {NULL}

(* The overloads of set and append, and the type of the item they create:     *)
(* 64-bit integers become strings.                                           *)
CppTypes == {"char*", "bool", "int", "float", "double", "int64_t", "uint64_t"}

Bug_typeOf(T) ==
  CASE T = "bool" -> "bool"
    [] T \in {"int", "float", "double", "int64_t", "uint64_t"} -> "number"
    [] T = "char*" -> "string"

typeOf(T) ==
  CASE T = "bool" -> "bool"
    [] T \in {"int", "float", "double"} -> "number"
    [] T \in {"char*", "int64_t", "uint64_t"} -> "string"

(* cJSON_IsBool, cJSON_IsNumber and the others.                               *)
cJSON_Is(type, n) ==
  /\ n # NULL
  /\ type = IF n \in Objects THEN "object" ELSE IF n \in Values THEN tree[n].type ELSE "array"

(* Whether get of an item to a variable of type T returns true.               *)
getItem(n, T) ==
  \/ T = "bool" /\ cJSON_Is("bool", n)
  \/ T \in {"int", "float", "double"} /\ cJSON_Is("number", n)
  \/ T \in {"int64_t", "uint64_t"} /\ cJSON_Is("string", n)

(* operator(): the text shows the value of these types, and nothing otherwise. *)
Shown(n) == {type \in {"string", "bool", "number"} : cJSON_Is(type, n)}

NewItem == [children |-> <<>>, key |-> NULL, type |-> "none"]
NewHelper(root, data) ==
  [m_bRoot |-> root, m_pJsonData |-> data, obj |-> [k \in Keys |-> NULL],
   arr |-> [i \in Indexes |-> NULL]]

data(w) == helper[w].m_pJsonData
isObject(w) == cJSON_Is("object", data(w))
isArray(w) == cJSON_Is("array", data(w))
getArraySize(w) == IF isArray(w) THEN Len(tree[data(w)].children) ELSE 0
isArrayItem(w, i) == i >= 0 /\ getArraySize(w) > i

-----------------------------------------------------------------------------
(* The document                                                              *)

Children(t) == [n \in Nodes |-> ToSet(t[n].children)]
Subtree(t, n) == Below(Children(t), n)

Member(t, o, k) ==
  SelectInSeq(t[o].children, LAMBDA n : t[n].key # NULL /\ Fold[t[n].key] = Fold[k])

ItemAt(t, a, i) == IF i \in DOMAIN t[a].children THEN t[a].children[i] ELSE NULL

(* get with a key or an index: the overloads for text return true even if     *)
(* there is no such item, or it has no text.                                 *)
KeyItem(w, k) == ItemAt(tree, data(w), Member(tree, data(w), k))
IndexItem(w, i) == ItemAt(tree, data(w), i + 1)
get(w, k, T) == isObject(w) /\ (T = "char*" \/ getItem(KeyItem(w, k), T))
getIndex(w, i, T) == isArrayItem(w, i) /\ (T = "char*" \/ getItem(IndexItem(w, i), T))
text(w, k) == IF isObject(w) THEN Shown(KeyItem(w, k)) ELSE {}
textIndex(w, i) == IF isArrayItem(w, i) THEN Shown(IndexItem(w, i)) ELSE {}

Freed(t, S) == [n \in Nodes |-> IF n \in S THEN NewItem ELSE t[n]]

Bug_Gone(t, a, i) == IF i \in DOMAIN t[a].children THEN {t[a].children[i]} ELSE {}

(* What deleting the i-th child frees: nothing if there is none.              *)
Gone(t, a, i) == IF i \in DOMAIN t[a].children THEN Subtree(t, t[a].children[i]) ELSE {}

(* A new item with key k in the place i, or at the end.                       *)
Put(t, a, i, n, k) ==
  [Freed(t, Gone(t, a, i)) EXCEPT
     ![a].children = IF i \in DOMAIN @ THEN ReplaceAt(@, i, n) ELSE Append(@, n),
     ![n].key = k]

Cut(t, a, i) ==
  IF i \in DOMAIN t[a].children
  THEN [Freed(t, Gone(t, a, i)) EXCEPT ![a].children = RemoveAt(@, i)] ELSE t

(* What may be put in: a new value of a type, an empty container, or a copy   *)
(* of the document of an object; as records of the tree that has the new     *)
(* items, them, their top and a name for the argument.                       *)
Fresh(n, type) == [tree |-> [tree EXCEPT ![n].type = type], new |-> {n}, top |-> n, of |-> type]
Copied(v, copy) ==
  LET from(m) == CHOOSE n \in DOMAIN copy : copy[n] = m IN
  [tree |-> [m \in Nodes |-> IF m \notin Range(copy) THEN tree[m]
      ELSE [children |-> [i \in DOMAIN tree[from(m)].children |-> copy[tree[from(m)].children[i]]],
            key |-> IF from(m) = data(v) THEN NULL ELSE tree[from(m)].key,
            type |-> tree[from(m)].type]],
   new |-> Range(copy), top |-> copy[data(v)], of |-> "helper"]
Copies(v) ==
  IF data(v) = NULL THEN {}
  ELSE {Copied(v, copy) : copy \in
          {c \in [Subtree(tree, data(v)) -> Nodes \ live] :
             IsInjective(c) /\
             \A S \in {Objects, Values} : \A n \in DOMAIN c : n \in S <=> c[n] \in S}}
Arguments ==
  {Fresh(n, typeOf(T)) : n \in Values \ live, T \in CppTypes}
  \cup {Fresh(n, "none") : n \in Nodes \ (live \cup Values)}
  \cup UNION {Copies(v) : v \in used}

-----------------------------------------------------------------------------
(* The objects                                                               *)

Cached(h, w) == (Range(h[w].obj) \cup Range(h[w].arr)) \ {NULL}

(* An object and the wrappers its maps lead to: all that delete destroys.     *)
Wrapped(h) == [w \in Helpers |-> Cached(h, w)]
Family(w) == Below(Wrapped(helper), w)

Forget(h, S) == [v \in Helpers |-> IF v \in S THEN NewHelper(TRUE, NULL) ELSE h[v]]

(* m_pJsonData of a cached wrapper follows the item that replaces the old.    *)
Point(h, v, n) == IF v = NULL THEN h ELSE [h EXCEPT ![v].m_pJsonData = n]

(* What the callers must do without, each because a map would go stale:       *)
(* "reference": write through the wrapper of a missing item, or parse into a *)
(* wrapper; "nested": replace an item while wrappers of items in it exist;   *)
(* "shift": delete from an array with wrappers of later items; "twice": add  *)
(* an empty object or array under a key that was looked up.                  *)
Obliged(name, condition) == name \in Obligations => condition
MayWrite(w) == w \in used /\ Obliged("reference", helper[w].m_bRoot \/ data(w) # NULL)

Init ==
  /\ tree = [n \in Nodes |-> NewItem]
  /\ live = {}
  /\ helper = [w \in Helpers |-> NewHelper(TRUE, NULL)]
  /\ used = {}
  /\ call = <<"none">>

construct(w) ==
  /\ w \notin used /\ used' = used \cup {w}
  /\ call' = <<"construct", w>>
  /\ UNCHANGED <<tree, live, helper>>

(* clear, with what the object holds afterwards: the destructor and parse.    *)
OwnItems(w) == IF helper[w].m_bRoot /\ data(w) # NULL THEN Subtree(tree, data(w)) ELSE {}

clear(w) ==
  /\ MayWrite(w) /\ Obliged("reference", helper[w].m_bRoot)
  /\ tree' = Freed(tree, OwnItems(w)) /\ live' = live \ OwnItems(w)
  /\ used' = used \ (Family(w) \ {w})
  /\ helper' = [Forget(helper, Family(w)) EXCEPT
       ![w] = NewHelper(helper[w].m_bRoot, IF helper[w].m_bRoot THEN NULL ELSE data(w))]
  /\ call' = <<"clear", w>>

destroy(w) ==
  /\ w \in used /\ helper[w].m_bRoot
  /\ tree' = Freed(tree, OwnItems(w)) /\ live' = live \ OwnItems(w)
  /\ used' = used \ Family(w)
  /\ helper' = Forget(helper, Family(w))
  /\ call' = <<"destroy", w>>

(* parse of a text, or operator= with another object; a failed parse clears.  *)
parse(w, argument) ==
  /\ MayWrite(w) /\ Obliged("reference", helper[w].m_bRoot)
  /\ tree' = Freed(argument.tree, OwnItems(w))
  /\ live' = (live \ OwnItems(w)) \cup argument.new
  /\ used' = used \ (Family(w) \ {w})
  /\ helper' = [Forget(helper, Family(w)) EXCEPT
                  ![w] = NewHelper(helper[w].m_bRoot, argument.top)]
  /\ call' = <<"parse", w, argument.of>>

(* A call on an object without data creates it: o is data(w) or a new item.   *)
Base(w, kinds) == IF data(w) = NULL THEN kinds \ live ELSE {data(w)}

Bug_setCommon(w, k, argument, o) ==
  LET i == Member(tree, o, k) IN
  /\ o \in Objects \ argument.new
  /\ tree' = Put(argument.tree, o, i, argument.top, k)
  /\ live' = (live \ Gone(tree, o, i)) \cup {o} \cup argument.new
  /\ helper' = [helper EXCEPT ![w].m_pJsonData = o]
  /\ UNCHANGED used

(* setCommon for a key.                                                      *)
setCommon(w, k, argument, o) ==
  LET i == Member(tree, o, k) IN
  /\ o \in Objects \ argument.new
  /\ tree' = Put(argument.tree, o, i, argument.top, k)
  /\ live' = (live \ Gone(tree, o, i)) \cup {o} \cup argument.new
  /\ helper' = Point([helper EXCEPT ![w].m_pJsonData = o], helper[w].obj[k], argument.top)
  /\ UNCHANGED used

NoNested(v) == v # NULL => Cached(helper, v) = {}

set(w, k, argument) ==
  /\ MayWrite(w) /\ Obliged("nested", NoNested(helper[w].obj[k]))
  /\ \E o \in Base(w, Objects) : setCommon(w, k, argument, o)
  /\ call' = <<"set", w, k, argument.of>>

(* addEmptySubObject and addEmptySubArray: no look whether the key is there.  *)
addEmptySub(w, k, n) ==
  /\ MayWrite(w) /\ Obliged("twice", helper[w].obj[k] = NULL)
  /\ n \in Nodes \ (Values \cup live)
  /\ \E o \in Base(w, Objects) \ {n} :
       /\ o \in Objects
       /\ tree' = Put(tree, o, 0, n, k)
       /\ live' = live \cup {o, n}
       /\ helper' = [helper EXCEPT ![w].m_pJsonData = o]
  /\ call' = <<"addEmptySub", w, k>>
  /\ UNCHANGED used

(* operator[] with a key that is not in the map, v the new wrapper.  On an    *)
(* object without data the key is added first, with an empty object.         *)
lookupKey(w, k, v) ==
  /\ w \in used /\ helper[w].obj[k] = NULL /\ v \notin used
  /\ used' = used \cup {v}
  /\ IF data(w) = NULL
     THEN /\ MayWrite(w)
          /\ \E o, n \in Objects \ live :
               /\ o # n
               /\ tree' = Put(tree, o, 0, n, k) /\ live' = live \cup {o, n}
               /\ helper' = [helper EXCEPT ![w].m_pJsonData = o, ![w].obj[k] = v,
                                           ![v] = NewHelper(FALSE, n)]
     ELSE /\ isObject(w)
          /\ helper' = [helper EXCEPT ![w].obj[k] = v,
               ![v] = NewHelper(FALSE, KeyItem(w, k))]
          /\ UNCHANGED <<tree, live>>
  /\ call' = <<"lookup", w, k>>

del(w, k) ==
  LET i == Member(tree, data(w), k)
      wrappers == IF helper[w].obj[k] = NULL THEN {} ELSE Family(helper[w].obj[k]) IN
  /\ MayWrite(w) /\ isObject(w)
  /\ tree' = Cut(tree, data(w), i) /\ live' = live \ Gone(tree, data(w), i)
  /\ helper' = [Forget(helper, wrappers) EXCEPT ![w].obj[k] = NULL]
  /\ used' = used \ wrappers
  /\ call' = <<"del", w, k>>

(* operator[] with an index that is not in the map; without data an empty     *)
(* array is created, and has no such item.                                   *)
lookupIndex(w, i, v) ==
  /\ w \in used /\ helper[w].arr[i] = NULL
  /\ IF data(w) = NULL
     THEN /\ MayWrite(w)
          /\ \E a \in Nodes \ (Objects \cup Values \cup live) :
               live' = live \cup {a} /\ helper' = [helper EXCEPT ![w].m_pJsonData = a]
          /\ UNCHANGED used
     ELSE /\ isArrayItem(w, i) /\ v \notin used
          /\ used' = used \cup {v}
          /\ helper' = [helper EXCEPT ![w].arr[i] = v,
                           ![v] = NewHelper(FALSE, IndexItem(w, i))]
          /\ UNCHANGED live
  /\ call' = <<"lookupIndex", w, i>>
  /\ UNCHANGED tree

(* setCommon for an index, which leads to an item.                            *)
setCommonIndex(w, i, argument) ==
  /\ tree' = Put(argument.tree, data(w), i + 1, argument.top, NULL)
  /\ live' = (live \ Gone(tree, data(w), i + 1)) \cup argument.new
  /\ helper' = Point(helper, helper[w].arr[i], argument.top)
  /\ UNCHANGED used

setIndex(w, i, argument) ==
  /\ MayWrite(w) /\ isArrayItem(w, i) /\ Obliged("nested", NoNested(helper[w].arr[i]))
  /\ setCommonIndex(w, i, argument)
  /\ call' = <<"setIndex", w, i, argument.of>>

delIndex(w, i) ==
  LET wrappers == IF helper[w].arr[i] = NULL THEN {} ELSE Family(helper[w].arr[i]) IN
  /\ MayWrite(w) /\ isArrayItem(w, i)
  /\ Obliged("shift", \A j \in Indexes : j > i => helper[w].arr[j] = NULL)
  /\ tree' = Cut(tree, data(w), i + 1) /\ live' = live \ Gone(tree, data(w), i + 1)
  /\ helper' = [Forget(helper, wrappers) EXCEPT ![w].arr[i] = NULL]
  /\ used' = used \ wrappers
  /\ call' = <<"delIndex", w, i>>

appendCommon(w, argument) ==
  /\ isArray(w)
  /\ tree' = Put(argument.tree, data(w), 0, argument.top, NULL)
  /\ live' = live \cup argument.new
  /\ UNCHANGED <<helper, used>>

append(w, argument) ==
  /\ MayWrite(w) /\ getArraySize(w) < Cardinality(Indexes)
  /\ appendCommon(w, argument)
  /\ call' = <<"append", w, argument.of>>

Failed == [tree |-> tree, new |-> {}, top |-> NULL, of |-> "none"]

Next ==
  \/ \E w \in Helpers :
       \/ construct(w) \/ destroy(w) \/ clear(w)
       \/ parse(w, Failed)
       \/ \E argument \in Arguments : parse(w, argument) \/ append(w, argument)
  \/ \E w \in Helpers, k \in Keys :
       \/ \E argument \in Arguments : set(w, k, argument)
       \/ \E n \in Nodes : addEmptySub(w, k, n)
       \/ \E v \in Helpers : lookupKey(w, k, v)
       \/ del(w, k)
  \/ \E w \in Helpers, i \in Indexes :
       \/ \E argument \in Arguments : setIndex(w, i, argument)
       \/ \E v \in Helpers : lookupIndex(w, i, v)
       \/ delIndex(w, i)

vars == <<tree, live, helper, used, call>>

Spec == Init /\ [][Next]_vars

-----------------------------------------------------------------------------
(* Properties                                                                *)

(* No wrapper leads to freed memory, and the wrapper a map has for a key or    *)
(* an index wraps the item that is there now (CJsonHelper.cpp:206-224,       *)
(* 402-421, 433-449, 626-644, 738-770, 848-863).                             *)
WrappersCurrent ==
  \A w \in used :
    /\ data(w) \in live \cup {NULL}
    /\ \A k \in Keys : helper[w].obj[k] # NULL => /\ isObject(w)
         /\ data(helper[w].obj[k]) = KeyItem(w, k)
    /\ \A i \in Indexes : helper[w].arr[i] # NULL => /\ isArrayItem(w, i)
         /\ data(helper[w].arr[i]) = IndexItem(w, i)

(* Every item and every wrapper belongs to exactly one object that the caller *)
(* owns and destroys: nothing leaks, is shared between documents or deleted  *)
(* twice.                                                                    *)
Owners == {w \in used : helper[w].m_bRoot}
Owning(n) == {w \in Owners : data(w) # NULL /\ n \in Subtree(tree, data(w))}
OneOwner ==
  /\ \A n \in live : \E w \in Owners : Owning(n) = {w}
  /\ \A v \in used : \E w \in Owners : {u \in Owners : v \in Family(u)} = {w}

(* What was set or appended with an overload can be read at once with the    *)
(* same overload, from the same object, whatever was there before; and as a   *)
(* text (CJsonHelper.cpp:226-323, 450-547).                                  *)
GetReadsSet ==
  [][\A w \in Helpers, T \in CppTypes :
       /\ \A k \in Keys : call' = <<"set", w, k, typeOf(T)>> =>
            get(w, k, T)' /\ text(w, k)' = {typeOf(T)}
       /\ \A i \in Indexes :
            \/ call' = <<"setIndex", w, i, typeOf(T)>>
            \/ call' = <<"append", w, typeOf(T)>> /\ i = getArraySize(w)
            => getIndex(w, i, T)' /\ textIndex(w, i)' = {typeOf(T)}]_vars
=============================================================================
