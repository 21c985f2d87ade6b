------------------------------ MODULE cJSON_Utils ------------------------------
(***************************************************************************)
(* JSON pointers, JSON Patch and JSON Merge Patch of cJSON_Utils, and a     *)
(* program that patches a document.  A pointer is the sequence of what      *)
(* stands between its slashes; one that does not start with a slash is left *)
(* out.  A patch is the record of its members, NULL where one is missing.   *)
(* The generators read sorted copies: that they sort their arguments in     *)
(* place is in cJSON.tla (sort_object).  The heap does not fail.            *)
(***************************************************************************)
EXTENDS cJSON_Text, FiniteSets, FiniteSetsExt

CONSTANTS
  Values,         \* the documents that are given
  Patches,        \* the lists of patches that are given
  MergePatches,   \* the merge patches
  CodeUnits,      \* the UTF-16 codes of escapes
  Edits,          \* what a token of a text is changed to
  MaxItems        \* bound: items of a document that was patched twice

VARIABLE value

Codes == "-" :> 45 @@ "/" :> 47 @@ "0" :> 48 @@ "1" :> 49 @@ "2" :> 50 @@ "3" :> 51
           @@ "4" :> 52 @@ "K" :> 75 @@ "j" :> 106 @@ "k" :> 107 @@ "~" :> 126

(* The sign of what strcmp returns.                                           *)
strcmp(a, b) ==
  LET i == CHOOSE k \in DOMAIN a : a[k] # b[k] /\ SubSeq(a, 1, k - 1) = SubSeq(b, 1, k - 1)
  IN CASE a = b -> 0
       [] IsStrictPrefix(a, b) -> -1
       [] IsStrictPrefix(b, a) -> 1
       [] OTHER -> IF Codes[a[i]] < Codes[b[i]] THEN -1 ELSE 1

compare_strings(a, b, case_sensitive) ==
  IF case_sensitive THEN strcmp(a, b) ELSE strcmp(tolower(a), tolower(b))

sorted(children, case_sensitive) ==
  SortSeq(children, LAMBDA m, n : compare_strings(m.name, n.name, case_sensitive) < 0)

-----------------------------------------------------------------------------
(* Pointers.                                                                  *)

(* '~' becomes "~1", and '/' "1" behind a byte that is never written.         *)
encode_string_as_pointer(name) ==
  LET encoded(c) == CASE c = "/" -> <<"unwritten", "1">> [] c = "~" -> <<"~", "1">>
                      [] OTHER -> <<c>>
  IN FlattenSeq([i \in DOMAIN name |-> encoded(name[i])])

(* Does a segment of a pointer mean name?                                     *)
RECURSIVE compare_pointers(_, _, _)
compare_pointers(name, segment, case_sensitive) ==
  CASE name = <<>> \/ segment = <<>> -> name = segment
    [] name # <<>> /\ segment # <<>> /\ segment[1] = "~" ->
         /\ Len(segment) > 1
         /\ <<segment[2], name[1]>> \in {<<"0", "~">>, <<"1", "/">>}
         /\ compare_pointers(Tail(name), SubSeq(segment, 3, Len(segment)), case_sensitive)
    [] OTHER -> /\ SameName(<<name[1]>>, <<segment[1]>>, case_sensitive)
                /\ compare_pointers(Tail(name), Tail(segment), case_sensitive)

(* In place: only "~0" and "~1" write, the latter one byte too far; the other *)
(* characters stay where they are, and the end moves forward.  A wrong escape *)
(* ends it.                                                                   *)
RECURSIVE decoded(_, _, _)
decoded(s, from, to) ==
  CASE from > Len(s) -> SubSeq(s, 1, to - 1)
    [] from <= Len(s) /\ s[from] = "~" ->
         CASE from < Len(s) /\ s[from + 1] = "0" ->
                decoded([s EXCEPT ![to] = "~"], from + 2, to + 1)
           [] from < Len(s) /\ s[from + 1] = "1" ->
                decoded([s EXCEPT ![to + 1] = "/"], from + 2, to + 1)
           [] OTHER -> s
    [] OTHER -> decoded(s, from + 1, to + 1)

decode_pointer_inplace(segment) == decoded(segment, 1, 1)

(* The position in an array, from 0; -1 for what is no number.  Every number  *)
(* of two digits is beyond the arrays here.                                   *)
decode_array_index_from_pointer(segment) ==
  CASE segment = <<>> -> 0
    [] segment # <<>> /\ segment[1] \notin Digits -> -1
    [] segment # <<>> /\ segment[1] \in Digits /\ Len(segment) > 1 ->
         IF segment[1] = "0" THEN -1 ELSE MaxItems + 1
    [] OTHER -> Codes[segment[1]] - Codes["0"]

(* Where a pointer leads, as the positions to go through; NULL for nowhere.   *)
RECURSIVE get_item_from_pointer(_, _, _)
get_item_from_pointer(v, pointer, case_sensitive) ==
  LET segment == Head(pointer)
      i == CASE v.type = "Array" -> decode_array_index_from_pointer(segment) + 1
             [] v.type = "Object" ->
                  SelectInSeq(v.child, LAMBDA m : compare_pointers(m.name, segment, case_sensitive))
             [] OTHER -> 0
      rest == get_item_from_pointer(v.child[i].item, Tail(pointer), case_sensitive)
  IN CASE pointer = <<>> -> <<>>
       [] pointer # <<>> /\ i \notin DOMAIN v.child -> NULL
       [] OTHER -> IF rest = NULL THEN NULL ELSE <<i>> \o rest

RECURSIVE ItemAt(_, _)
ItemAt(v, at) == IF at = <<>> THEN v ELSE ItemAt(v.child[Head(at)].item, Tail(at))

(* v with w at that place.                                                    *)
RECURSIVE Replaced(_, _, _)
Replaced(v, at, w) ==
  IF at = <<>> THEN w
  ELSE [v EXCEPT !.child[Head(at)].item = Replaced(@, Tail(at), w)]

-----------------------------------------------------------------------------
(* JSON Patch.                                                                *)

RECURSIVE compare_json(_, _, _)
compare_json(a, b, case_sensitive) ==
  LET children(v) == IF v.type = "Object" THEN sorted(v.child, case_sensitive) ELSE v.child
  IN /\ a.type = b.type
     /\ a.text = b.text
     /\ Len(a.child) = Len(b.child)
     /\ \A i \in DOMAIN a.child :
          /\ compare_strings(children(a)[i].name, children(b)[i].name, case_sensitive) = 0
          /\ compare_json(children(a)[i].item, children(b)[i].item, case_sensitive)

(* The place of the item to detach; the last name never minds the case.       *)
detach_path(v, pointer, case_sensitive) ==
  LET parent == get_item_from_pointer(v, Front(pointer), case_sensitive)
      last == decode_pointer_inplace(Last(pointer))
      p == ItemAt(v, parent)
      i == CASE p.type = "Array" -> decode_array_index_from_pointer(last) + 1
             [] p.type = "Object" -> get_object_item(p, last, FALSE)
             [] OTHER -> 0
  IN IF pointer = <<>> THEN NULL
     ELSE IF parent = NULL THEN NULL
     ELSE IF i \in DOMAIN p.child THEN Append(parent, i) ELSE NULL

Without(v, at) ==
  LET p == ItemAt(v, Front(at))
  IN Replaced(v, Front(at), [p EXCEPT !.child = RemoveAt(@, Last(at))])

(* cJSON_DeleteItemFromObject, which does nothing without such a member.      *)
Deleted(v, name, case_sensitive) ==
  LET i == get_object_item(v, name, case_sensitive)
  IN IF i = 0 THEN v ELSE [v EXCEPT !.child = RemoveAt(@, i)]

Added(v, name, w) == [v EXCEPT !.child = Append(@, Member(name, w))]

Assigned(v, name, w, case_sensitive) == Added(Deleted(v, name, case_sensitive), name, w)

Result(status, w) == [status |-> status, value |-> w]

(* The end of apply_patch: w is added at the pointer, or the status says why  *)
(* it is not; then w is deleted.                                              *)
put(v, pointer, w, case_sensitive) ==
  LET parent == get_item_from_pointer(v, Front(pointer), case_sensitive)
      p == ItemAt(v, parent)
      last == decode_pointer_inplace(Last(pointer))
      i == decode_array_index_from_pointer(last)
      status == CASE p.type = "Array" /\ last # <<"-">> ->
                       IF i = -1 THEN 11 ELSE IF i > Len(p.child) THEN 10 ELSE 0
                  [] p.type \in {"Array", "Object"} -> 0
                  [] OTHER -> 9
      filled == IF p.type = "Array"
                THEN [p EXCEPT !.child = IF last = <<"-">> THEN Append(@, Member(<<>>, w))
                                         ELSE InsertAt(@, i + 1, Member(<<>>, w))]
                ELSE Assigned(p, last, w, case_sensitive)
  IN IF pointer = <<>> THEN Result(9, v)
     ELSE IF parent = NULL THEN Result(9, v)
     ELSE Result(status, IF status = 0 THEN Replaced(v, parent, filled) ELSE v)

Operations == {"add", "remove", "replace", "move", "copy", "test"}

decode_patch_operation(patch) == IF patch.op \in Operations THEN patch.op ELSE "invalid"

(* "test" compares, at whatever place.                                        *)
tested(v, patch, case_sensitive) ==
  LET at == get_item_from_pointer(v, patch.path, case_sensitive)
      equal == /\ at # NULL /\ patch.value # NULL
               /\ compare_json(ItemAt(v, at), patch.value, case_sensitive)
  IN Result(IF equal THEN 0 ELSE 1, v)

(* The whole document is removed or overwritten.                              *)
apply_to_root(v, patch) ==
  IF patch.op = "remove" THEN Result(0, Invalid)
  ELSE IF patch.value = NULL THEN Result(7, v) ELSE Result(0, patch.value)

(* "remove" and "replace" get rid of the old item first.                      *)
removed(v, patch, case_sensitive) ==
  LET old == detach_path(v, patch.path, case_sensitive)
  IN CASE patch.op \notin {"remove", "replace"} -> Result(0, v)
       [] patch.op \in {"remove", "replace"} /\ old = NULL -> Result(13, v)
       [] OTHER -> Result(0, Without(v, old))

(* What is to be put, and the document after "move" took it from there.       *)
operand(v, patch, case_sensitive) ==
  LET from == IF patch.op = "move" THEN detach_path(v, patch.from, case_sensitive)
              ELSE get_item_from_pointer(v, patch.from, case_sensitive)
      rest == IF patch.op = "move" THEN Without(v, from) ELSE v
      given(status, w, item) == [status |-> status, value |-> w, item |-> item]
  IN CASE patch.op \in {"add", "replace"} ->
            given(IF patch.value = NULL THEN 7 ELSE 0, v, patch.value)
       [] patch.op \in {"move", "copy"} /\ patch.from = NULL -> given(4, v, NULL)
       [] OTHER -> IF from = NULL THEN given(5, v, NULL) ELSE given(0, rest, ItemAt(v, from))

(* What follows on the result r, unless r is a failure.                       *)
Then(r, next(_)) ==
  CHOOSE end \in {IF s.status # 0 THEN s ELSE next(s) : s \in {r}} : TRUE

apply_patch(v, patch, case_sensitive) ==
  LET operation == decode_patch_operation(patch)
      add(new) == put(new.value, patch.path, new.item, case_sensitive)
      proceed(old) == IF operation = "remove" THEN old
                      ELSE Then(operand(old.value, patch, case_sensitive), add)
  IN CASE patch.path = NULL -> Result(2, v)
       [] patch.path # NULL /\ operation = "invalid" -> Result(3, v)
       [] patch.path # NULL /\ operation = "test" -> tested(v, patch, case_sensitive)
       [] patch.path = <<>> /\ operation \in {"remove", "replace", "add"} ->
            apply_to_root(v, patch)
       [] OTHER -> Then(removed(v, patch, case_sensitive), proceed)

(* One patch after the other, until one fails; what was done stays done.      *)
cJSONUtils_ApplyPatches(v, patches, case_sensitive) ==
  FoldLeft(LAMBDA r, patch : IF r.status # 0 THEN r
                             ELSE apply_patch(r.value, patch, case_sensitive),
           Result(0, v), patches)

compose_patch(operation, path, w) ==
  <<[op |-> operation, path |-> path, from |-> NULL, value |-> w]>>

(* The walk through two sorted lists that both generators make: pairs of      *)
(* members, NULL where one list has none of that name.                        *)
RECURSIVE Pairs(_, _, _)
Pairs(f, t, case_sensitive) ==
  LET diff == CASE f = <<>> -> 1
                [] f # <<>> /\ t = <<>> -> -1
                [] OTHER -> compare_strings(Head(f).name, Head(t).name, case_sensitive)
  IN CASE f = <<>> /\ t = <<>> -> <<>>
       [] (f # <<>> \/ t # <<>>) /\ diff = 0 ->
            <<[from |-> Head(f), to |-> Head(t)]>> \o Pairs(Tail(f), Tail(t), case_sensitive)
       [] (f # <<>> \/ t # <<>>) /\ diff < 0 ->
            <<[from |-> Head(f), to |-> NULL]>> \o Pairs(Tail(f), t, case_sensitive)
       [] OTHER -> <<[from |-> NULL, to |-> Head(t)]>> \o Pairs(f, Tail(t), case_sensitive)

RECURSIVE create_patches(_, _, _, _)

Bug_leftovers(index, n, last) ==
  FlattenSeq([i \in 1 .. last - n |-> compose_patch("remove", index[n + i], NULL)])

(* What is left over is removed at one and the same index.                    *)
leftovers(index, n, last) ==
  FlattenSeq([i \in 1 .. last - n |-> compose_patch("remove", index[n + 1], NULL)])

array_patches(path, f, t, case_sensitive) ==
  LET n == IF Len(f) < Len(t) THEN Len(f) ELSE Len(t)
      index == [i \in 1 .. Len(f) |-> Append(path, <<ToString(i - 1)>>)]
  IN FlattenSeq([i \in 1 .. n |-> create_patches(index[i], f[i].item, t[i].item, case_sensitive)])
       \o leftovers(index, n, Len(f))
       \o FlattenSeq([i \in 1 .. Len(t) - n |->
                        compose_patch("add", Append(path, <<"-">>), t[n + i].item)])

object_patches(path, f, t, case_sensitive) ==
  LET pairs == Pairs(sorted(f, case_sensitive), sorted(t, case_sensitive), case_sensitive)
      to(m) == Append(path, encode_string_as_pointer(m.name))
      patches(p) ==
        CASE p.to = NULL -> compose_patch("remove", to(p.from), NULL)
          [] p.to # NULL /\ p.from = NULL -> compose_patch("add", to(p.to), p.to.item)
          [] OTHER -> create_patches(to(p.from), p.from.item, p.to.item, case_sensitive)
  IN FlattenSeq([i \in DOMAIN pairs |-> patches(pairs[i])])

create_patches(path, from, to, case_sensitive) ==
  CASE from.type # to.type \/ from.text # to.text -> compose_patch("replace", path, to)
    [] from.type = to.type /\ from.type = "Array" ->
         array_patches(path, from.child, to.child, case_sensitive)
    [] from.type = to.type /\ from.type = "Object" ->
         object_patches(path, from.child, to.child, case_sensitive)
    [] OTHER -> <<>>

cJSONUtils_GeneratePatches(from, to, case_sensitive) ==
  create_patches(<<>>, from, to, case_sensitive)

-----------------------------------------------------------------------------
(* JSON Merge Patch.                                                          *)

Bug_isObject(v) == v # NULL

isObject(v) == v # NULL /\ v.type = "Object"

(* v is NULL for a member that was not there.                                 *)
RECURSIVE merge_patch(_, _, _)
merge_patch(v, patch, case_sensitive) ==
  LET old(w, name) == LET i == get_object_item(w, name, case_sensitive)
                      IN IF i = 0 THEN NULL ELSE w.child[i].item
      merged(w, m) ==
        IF m.item.type = "NULL" THEN Deleted(w, m.name, case_sensitive)
        ELSE Assigned(w, m.name, merge_patch(old(w, m.name), m.item, case_sensitive),
                      case_sensitive)
  IN IF patch.type # "Object" THEN patch
     ELSE FoldLeft(merged, IF isObject(v) THEN v ELSE Item("Object", <<>>, <<>>), patch.child)

(* NULL where there is nothing to change.  The walk orders by strcmp whatever *)
(* the lists were sorted by, and what is below never minds the case.          *)
RECURSIVE generate_merge_patch(_, _, _)
generate_merge_patch(from, to, case_sensitive) ==
  LET pairs == Pairs(sorted(from.child, case_sensitive), sorted(to.child, case_sensitive), TRUE)
      change(p) ==
        CASE p.to = NULL -> <<Member(p.from.name, Item("NULL", <<>>, <<>>))>>
          [] p.to # NULL /\ p.from = NULL -> <<p.to>>
          [] OTHER -> IF compare_json(p.from.item, p.to.item, case_sensitive) THEN <<>>
                      ELSE <<Member(p.to.name,
                                     generate_merge_patch(p.from.item, p.to.item, FALSE))>>
      changes == FlattenSeq([i \in DOMAIN pairs |-> change(pairs[i])])
  IN IF ~isObject(from) \/ ~isObject(to) THEN to
     ELSE IF changes = <<>> THEN NULL ELSE Item("Object", <<>>, changes)

-----------------------------------------------------------------------------
(* The program patches its document.                                          *)

RECURSIVE Places(_)
Places(v) ==
  {<<>>} \cup UNION {{<<i>> \o at : at \in Places(v.child[i].item)} : i \in DOMAIN v.child}

Init == value \in Values

Bounded == value \in Values \/ Cardinality(Places(value')) <= MaxItems

ApplyPatches(patches, case_sensitive) ==
  /\ value' = cJSONUtils_ApplyPatches(value, patches, case_sensitive).value
  /\ Bounded

MergePatch(patch, case_sensitive) ==
  /\ value' = merge_patch(value, patch, case_sensitive)
  /\ Bounded

Next == \E case_sensitive \in BOOLEAN :
          \/ \E patches \in Patches : ApplyPatches(patches, case_sensitive)
          \/ \E patch \in MergePatches : MergePatch(patch, case_sensitive)

Spec == Init /\ [][Next]_value

-----------------------------------------------------------------------------
(* What the properties ask of a document.                                     *)

Depth(v) == LET nested == {at \in Places(v) : ItemAt(v, at).type \in {"Array", "Object"}}
            IN FoldSet(LAMBDA at, d : IF Len(at) + 1 > d THEN Len(at) + 1 ELSE d, 0, nested)

(* The document without the order of members.                                 *)
RECURSIVE Meaning(_)
Meaning(v) ==
  [v EXCEPT !.child = IF v.type = "Object" THEN {[m EXCEPT !.item = Meaning(@)] : m \in Range(@)}
                      ELSE [i \in DOMAIN @ |-> Meaning(@[i].item)]]

Same(v, w) == Meaning(v) = Meaning(w)

(* How the printer spells what follows a backslash.  The first half of a pair *)
(* is spelled with the second; the wrong digits are those of a NUL, at which  *)
(* the string ends.                                                           *)
Spelling ==
  "/" :> <<"/">> @@ "u006b" :> <<"k">> @@ "ud83d" :> <<>> @@ "ude00" :> <<"U+1F600">>
    @@ "u00g0" :> <<>> @@ [c \in Range(Escapes) |-> <<"\\", c>>]

(* A text in the printer's spelling: escapes only for what needs one, and no  *)
(* control characters outside of strings.                                     *)
Respelled(text) ==
  LET written(a, t) == IF a.ended THEN a ELSE [a EXCEPT !.text = @ \o t]
      read(a, c) ==
        CASE a.escape -> [written(a, Spelling[c]) EXCEPT !.escape = FALSE,
                                                         !.ended = @ \/ c = "u00g0"]
          [] ~a.escape /\ c = "\\" -> [a EXCEPT !.escape = TRUE]
          [] ~a.escape /\ c = "\"" ->
               [written([a EXCEPT !.ended = FALSE], <<c>>) EXCEPT !.inside = ~@]
          [] ~a.escape /\ c \in DOMAIN Escapes \ {"\\", "\""} ->
               IF a.inside THEN written(a, <<"\\", Escapes[c]>>) ELSE a
          [] OTHER -> written(a, <<c>>)
      start == [text |-> <<>>, escape |-> FALSE, inside |-> FALSE, ended |-> FALSE]
  IN FoldLeft(read, start, text).text

(* A member whose value is null, other than in an array.                      *)
RECURSIVE NullMember(_)
NullMember(v) ==
  v.type = "Object" /\ \E m \in Range(v.child) : m.item.type = "NULL" \/ NullMember(m.item)

-----------------------------------------------------------------------------
(* Properties.                                                                *)

(* What was printed, with or without format or a byte order mark before it,   *)
(* is parsed to the same document, escapes and all, unless it nests deeper    *)
(* than the parser goes: then the parser refuses it.                          *)
RoundTrip ==
  value # Invalid =>
    \A format \in BOOLEAN :
      \A mark \in {<<>>, <<"BOM">>} :
        cJSON_ParseWithOpts(mark \o Text(value, format), TRUE) =
          IF Depth(value) <= CJSON_NESTING_LIMIT THEN [ok |-> TRUE, item |-> value] ELSE Fail

(* A \u escape, or the pair that stands for a larger code point, becomes the  *)
(* shortest UTF-8 form of that code point, and half a pair is refused.  Asked *)
(* where the document is a string.                                            *)
EscapesBecomeUtf8 ==
  LET digits(code) == [i \in 1 .. 4 |-> (code \div 16 ^ (4 - i)) % 16]
      isHigh(code) == code \in 55296 .. 56319
      isLow(code) == code # NULL /\ code \in 56320 .. 57343
      meant(first, second) ==
        IF isHigh(first) THEN 65536 + (first - 55296) * 1024 + (second - 56320) ELSE first
      data(bytes, i) == IF i > 1 THEN bytes[i] - 128
                        ELSE bytes[1] - <<0, 192, 224, 240>>[Len(bytes)]
      read(bytes) == FoldLeftDomain(LAMBDA n, i : n * 64 + data(bytes, i), 0, bytes)
  IN value.type = "String" => \A first \in CodeUnits, second \in CodeUnits \cup {NULL} :
       \A bytes \in {utf16_literal_to_utf8(digits(first), IF second = NULL THEN NULL
                                                          ELSE digits(second))} :
         IF isLow(first) \/ (isHigh(first) /\ ~isLow(second)) THEN bytes = <<>>
         ELSE /\ \A i \in DOMAIN bytes :
                   bytes[i] \in 0 .. 255 /\ (i > 1 => data(bytes, i) \in 0 .. 63)
              /\ read(bytes) = meant(first, second)
              /\ meant(first, second) >= <<0, 128, 2048, 65536>>[Len(bytes)]

(* cJSON_PrintPreallocated prints into a given buffer exactly if it is one    *)
(* byte longer than the string and its terminator, and never writes beyond    *)
(* it; cJSON_PrintBuffered prints the same text from whatever size it starts. *)
PrintFits ==
  value # Invalid =>
    \A format \in BOOLEAN :
      \A text \in {Text(value, format)} :
        \A length \in 0 .. Width(text) + 3 :
           LET given == cJSON_PrintPreallocated(value, length, format)
               grown == cJSON_PrintBuffered(value, length, format)
           IN /\ given.ok = (length >= Width(text) + 2)
              /\ grown.ok /\ grown.text = text
              /\ ~given.over /\ ~grown.over

(* Whatever text with one token changed, added or lost the parser accepts, it *)
(* read as what stands there, escapes of every kind included: the document    *)
(* prints as that text, minified and with the printer's own escapes.  Asked   *)
(* of the documents that are given.                                           *)
AcceptsWhatItReads ==
  value \in Values =>
    \A text \in {Text(value, FALSE)} :
      LET edited == {SubSeq(text, 1, i) \o edit \o SubSeq(text, i + lost + 1, Len(text)) :
                       i \in 0 .. Len(text), edit \in Edits, lost \in {0, 1}}
      IN \A t \in edited \cup {Text(value, TRUE)} :
           \A r \in {cJSON_ParseWithOpts(t, TRUE)} :
             r.ok => Text(r.item, FALSE) = Respelled(cJSON_Minify(t))

(* Documents compare as equal, for cJSON and for cJSON_Utils, exactly if they *)
(* are the same but for the order of members.                                 *)
CompareIsEquality ==
  value # Invalid =>
    \A v \in Values, case_sensitive \in BOOLEAN :
      /\ cJSON_Compare(value, v, case_sensitive) <=> Same(value, v)
      /\ compare_json(value, v, case_sensitive) <=> Same(value, v)

(* The patches generated from one document to another, applied to the first,  *)
(* all succeed and give the second.                                           *)
PatchesLeadThere ==
  value # Invalid =>
    \A to \in Values, case_sensitive \in BOOLEAN :
      \A patches \in {cJSONUtils_GeneratePatches(value, to, case_sensitive)} :
        \A r \in {cJSONUtils_ApplyPatches(value, patches, case_sensitive)} :
          r.status = 0 /\ Same(r.value, to)

(* The same of merge patches, to documents without null members, which a      *)
(* merge patch cannot say.                                                    *)
MergePatchLeadsThere ==
  value # Invalid =>
    \A to \in {v \in Values : ~NullMember(v)}, case_sensitive \in BOOLEAN :
      LET patch == generate_merge_patch(value, to, case_sensitive)
      IN Same(to, IF patch = NULL THEN value ELSE merge_patch(value, patch, case_sensitive))
=============================================================================
