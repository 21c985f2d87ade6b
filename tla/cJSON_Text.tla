------------------------------ MODULE cJSON_Text ------------------------------
(***************************************************************************)
(* Documents and their text: the printer, the parser, cJSON_Minify and      *)
(* cJSON_Compare.  A text is a sequence of tokens: single characters, and   *)
(* the words and what follows the backslash of a \u escape, whose width     *)
(* counts where a size does.  Of the control characters without an escape   *)
(* of their own "ctl" stands for all, "U+1F600" for what is four bytes of   *)
(* UTF-8.  A printer's buffer and a parser's position are values handed     *)
(* from call to call, as printbuffer and parse_buffer.                      *)
(***************************************************************************)
EXTENDS Integers, SequencesExt, TLC

CONSTANTS NULL, CJSON_NESTING_LIMIT

(* An item: its type, its valuestring or digits, and its children with their  *)
(* names.  An item of an array has the empty name.                            *)
Item(type, text, child) == [type |-> type, text |-> text, child |-> child]
Member(name, item) == [name |-> name, item |-> item]
Invalid == Item("Invalid", <<>>, <<>>)

Words == "NULL" :> "null" @@ "False" :> "false" @@ "True" :> "true"
Escapes == "\"" :> "\"" @@ "\\" :> "\\" @@ "backspace" :> "b" @@ "\f" :> "f"
             @@ "\n" :> "n" @@ "\r" :> "r" @@ "\t" :> "t" @@ "ctl" :> "u0001"
Digits == {"0", "1", "2", "3", "4"}
Blanks == {" ", "backspace", "\f", "\n", "\r", "\t", "ctl", "NUL"}

(* The \u escapes that texts have, by their digits (16 is none), and what the *)
(* bytes stand for that they become.                                          *)
Hex == "u0001" :> <<0, 0, 0, 1>> @@ "u006b" :> <<0, 0, 6, 11>> @@ "u00g0" :> <<0, 0, 16, 0>>
         @@ "ud83d" :> <<13, 8, 3, 13>> @@ "ude00" :> <<13, 14, 0, 0>>
Utf8 == <<0>> :> "NUL" @@ <<1>> :> "ctl" @@ <<107>> :> "k"
          @@ <<240, 159, 152, 128>> :> "U+1F600"

Wide == [c \in DOMAIN Hex |-> 5] @@ [c \in {"null", "true", "U+1F600"} |-> 4] @@ "false" :> 5

Width(t) == FoldLeft(LAMBDA n, c : n + (IF c \in DOMAIN Wide THEN Wide[c] ELSE 1), 0, t)

-----------------------------------------------------------------------------
(* Printing.  p.text is what was written, p.offset its width; over says that  *)
(* a write went beyond the end of the buffer.                                 *)

Buffer(length, noalloc, format) ==
  [text |-> <<>>, offset |-> 0, length |-> length, noalloc |-> noalloc, format |-> format,
   depth |-> 0, ok |-> TRUE, over |-> FALSE]

Bug_ensure(p, needed) ==
  LET size == needed + p.offset
  IN CASE p.length > 0 /\ p.offset >= p.length -> [p EXCEPT !.ok = FALSE]
       [] size <= p.length -> p
       [] size > p.length /\ p.noalloc -> [p EXCEPT !.ok = FALSE]
       [] OTHER -> [p EXCEPT !.length = 2 * size]

(* Room for needed bytes and one more; a new buffer has twice that.  The heap *)
(* does not fail, and sizes stay below INT_MAX.                               *)
ensure(p, needed) ==
  LET size == needed + p.offset + 1
  IN CASE p.length > 0 /\ p.offset >= p.length -> [p EXCEPT !.ok = FALSE]
       [] size <= p.length -> p
       [] size > p.length /\ p.noalloc -> [p EXCEPT !.ok = FALSE]
       [] OTHER -> [p EXCEPT !.length = 2 * size]

(* One call of ensure, and the write of t and of terminators that follows it. *)
(* A call that failed before makes every caller return.                       *)
emit(p, needed, t, terminators) ==
  IF ~p.ok THEN p
  ELSE LET q == ensure(p, needed)
           end == q.offset + Width(t)
       IN IF ~q.ok THEN q
          ELSE [q EXCEPT !.text = @ \o t, !.offset = end,
                         !.over = @ \/ end + terminators > q.length]

(* A number is its digits: "%1.15g" of a double is left out.                  *)
print_number(p, digits) == emit(p, Width(digits) + 1, digits, 1)

print_string_ptr(p, s) ==
  LET shown(c) == IF c \in DOMAIN Escapes THEN <<"\\", Escapes[c]>> ELSE <<c>>
      t == <<"\"">> \o FlattenSeq([i \in DOMAIN s |-> shown(s[i])]) \o <<"\"">>
  IN emit(p, Width(t) + 1, t, 1)

RECURSIVE print_value(_, _)

print_array(p, children) ==
  LET element(q, i) ==
        LET e == print_value(q, children[i].item)
            comma == IF p.format THEN <<",", " ">> ELSE <<",">>
        IN IF i < Len(children) THEN emit(e, Len(comma) + 1, comma, 1) ELSE e
      inside == [emit(p, 1, <<"[">>, 0) EXCEPT !.depth = @ + 1]
      close(q) == emit(q, 2, <<"]">>, 1)
  IN [close(FoldLeftDomain(element, inside, children)) EXCEPT !.depth = p.depth]

print_object(p, children) ==
  LET formatted(t) == IF p.format THEN t ELSE <<>>
      tabs(n) == [i \in 1 .. n |-> "\t"]
      open == emit(p, Len(formatted(<<"\n">>)) + 2, <<"{">> \o formatted(<<"\n">>), 0)
      inside == [open EXCEPT !.depth = @ + 1]
      member(q, i) ==
        LET colon == <<":">> \o formatted(<<"\t">>)
            comma == (IF i < Len(children) THEN <<",">> ELSE <<>>) \o formatted(<<"\n">>)
            indented == IF p.format THEN emit(q, q.depth, tabs(q.depth), 0) ELSE q
            named == print_string_ptr(indented, children[i].name)
            valued == print_value(emit(named, Len(colon), colon, 0), children[i].item)
        IN emit(valued, Len(comma) + 1, comma, 1)
      close(q) == emit(q, IF p.format THEN q.depth + 1 ELSE 2,
                       formatted(tabs(q.depth - 1)) \o <<"}">>, 1)
  IN [close(FoldLeftDomain(member, inside, children)) EXCEPT !.depth = p.depth]

print_value(p, v) ==
  CASE v.type \in DOMAIN Words -> emit(p, Width(<<Words[v.type]>>) + 1, <<Words[v.type]>>, 1)
    [] v.type = "Number" -> print_number(p, v.text)
    [] v.type = "String" -> print_string_ptr(p, v.text)
    [] v.type = "Array" -> print_array(p, v.child)
    [] v.type = "Object" -> print_object(p, v.child)
    [] OTHER -> [p EXCEPT !.ok = FALSE]

cJSON_PrintBuffered(v, prebuffer, format) == print_value(Buffer(prebuffer, FALSE, format), v)
cJSON_PrintPreallocated(v, length, format) == print_value(Buffer(length, TRUE, format), v)

(* cJSON_Print and cJSON_PrintUnformatted, which start with 256 bytes.        *)
Text(v, format) == cJSON_PrintBuffered(v, 256, format).text

-----------------------------------------------------------------------------
(* Parsing.  b is the content, with its terminator; positions start at 0.     *)

Fail == [ok |-> FALSE]
Done(next, item) == [ok |-> TRUE, next |-> next, item |-> item]

buffer_at(b, o) == b[o + 1]

RECURSIVE buffer_skip_whitespace(_, _)
buffer_skip_whitespace(b, o) ==
  CASE o >= Len(b) - 1 -> Len(b) - 1
    [] o < Len(b) - 1 /\ buffer_at(b, o) \in Blanks -> buffer_skip_whitespace(b, o + 1)
    [] OTHER -> o

Bug_codepoint(first, second) == ((first % 1024) * 1024) + (second % 1024)

(* Of a surrogate pair: ten bits of each half.                                *)
codepoint(first, second) == 65536 + ((first % 1024) * 1024) + (second % 1024)

(* The value of four hexadecimal digits, 0 if one of them is none.            *)
parse_hex4(digits) ==
  IF Range(digits) \subseteq 0 .. 15 THEN FoldLeft(LAMBDA h, d : 16 * h + d, 0, digits) ELSE 0

(* The bytes that one \u escape becomes, or two that are a pair; none where   *)
(* a half is alone.  The arguments are the digits, second NULL when no escape *)
(* follows.                                                                   *)
utf16_literal_to_utf8(digits, second) ==
  LET first == parse_hex4(digits)
      high == first \in 55296 .. 56319
      low(number) == number \in 56320 .. 57343
      code == IF high THEN codepoint(first, parse_hex4(second)) ELSE first
      length == CASE code < 128 -> 1 [] code \in 128 .. 2047 -> 2
                  [] code \in 2048 .. 65535 -> 3 [] OTHER -> 4
      mark == <<0, 192, 224, 240>>[length]
      byte(i) == LET shifted == code \div 64 ^ (length - i)
                 IN IF i = 1 THEN (mark + shifted) % 256 ELSE 128 + (shifted % 64)
  IN IF low(first) \/ (high /\ (second = NULL \/ ~low(parse_hex4(second)))) THEN <<>>
     ELSE [i \in 1 .. length |-> byte(i)]

(* What the first character of a string stands for and how many tokens it is, *)
(* NULL where its escape is wrong.                                            *)
FirstOf(s) ==
  LET simple == {c \in DOMAIN Escapes : Escapes[c] = s[2]} \cup ({"/"} \cap {s[2]})
      pair == Len(s) > 3 /\ s[3] = "\\" /\ s[4] \in DOMAIN Hex
      first(length, c) == [length |-> length, means |-> c]
      literal(bytes) ==
        IF bytes = <<>> THEN NULL ELSE first(IF Len(bytes) = 4 THEN 4 ELSE 2, Utf8[bytes])
  IN CASE s[1] # "\\" -> first(1, s[1])
       [] s[1] = "\\" /\ s[2] \in DOMAIN Hex ->
            literal(utf16_literal_to_utf8(Hex[s[2]], IF pair THEN Hex[s[4]] ELSE NULL))
       [] OTHER -> IF simple = {} THEN NULL ELSE first(2, CHOOSE c \in simple : TRUE)

(* The text between the quotes, without its escapes; NULL where one is wrong. *)
RECURSIVE Unescaped(_)
Unescaped(s) ==
  LET before(rest, c) == IF rest = NULL THEN NULL ELSE <<c>> \o rest
      from(first) ==
        IF first = NULL THEN NULL
        ELSE before(Unescaped(SubSeq(s, first.length + 1, Len(s))), first.means)
  IN IF s = <<>> THEN <<>> ELSE from(FirstOf(s))

(* A string that has a NUL in it ends there.                                  *)
CString(s) == LET n == SelectInSeq(s, LAMBDA c : c = "NUL")
              IN IF n = 0 THEN s ELSE SubSeq(s, 1, n - 1)

(* Where the string that starts after o ends; the length of b if it does not. *)
RECURSIVE StringEnd(_, _)
StringEnd(b, o) ==
  CASE o >= Len(b) -> Len(b)
    [] o < Len(b) /\ buffer_at(b, o) = "\"" -> o
    [] OTHER -> StringEnd(b, o + (IF buffer_at(b, o) = "\\" THEN 2 ELSE 1))

parse_string(b, o) ==
  LET string(end, s) == IF s = NULL THEN Fail
                        ELSE Done(end + 1, Item("String", CString(s), <<>>))
      upTo(end) == IF end = Len(b) THEN Fail
                   ELSE string(end, Unescaped(SubSeq(b, o + 2, end)))
  IN IF buffer_at(b, o) = "\"" THEN upTo(StringEnd(b, o + 1)) ELSE Fail

(* strtod takes the digits that follow; signs, fractions and exponents, and   *)
(* what a double cannot hold, are left out.                                   *)
parse_number(b, o) ==
  LET after == {i \in o .. Len(b) - 1 : buffer_at(b, i) \notin Digits}
      end == CHOOSE i \in after : \A j \in after : i <= j
  IN Done(end, Item("Number", SubSeq(b, o + 1, end), <<>>))

Bug_closes(b, o, close) == buffer_at(b, o) \in {"]", "}"}

closes(b, o, close) == buffer_at(b, o) = close

RECURSIVE parse_value(_, _, _)

(* The loop of parse_array and parse_object: children from o on, up to close. *)
RECURSIVE Children(_, _, _, _, _)

Children(b, o, depth, close, before) ==
  LET more(children, after) ==
        CASE buffer_at(b, after) = "," ->
               Children(b, buffer_skip_whitespace(b, after + 1), depth, close, children)
          [] closes(b, after, close) -> Done(after + 1, children)
          [] OTHER -> Fail
      valued(name, value) ==
        IF ~value.ok THEN Fail
        ELSE more(Append(before, Member(name, value.item)), buffer_skip_whitespace(b, value.next))
      colon(name, at) ==
        IF buffer_at(b, at) # ":" THEN Fail
        ELSE Done(buffer_skip_whitespace(b, at + 1), name)
      named(name) == IF ~name.ok THEN Fail
                     ELSE colon(name.item.text, buffer_skip_whitespace(b, name.next))
      child(start) == IF ~start.ok THEN Fail
                      ELSE valued(start.item, parse_value(b, start.next, depth))
  IN child(IF close = "}" THEN named(parse_string(b, o)) ELSE Done(o, <<>>))

Bug_tooDeep(depth) == depth > CJSON_NESTING_LIMIT

tooDeep(depth) == depth >= CJSON_NESTING_LIMIT

(* What parse_array and parse_object share.                                   *)
Nested(b, o, depth, type, close) ==
  LET from(first) == IF closes(b, first, close) THEN Done(first + 1, <<>>)
                     ELSE Children(b, first, depth + 1, close, <<>>)
      item(all) == IF all.ok THEN Done(all.next, Item(type, <<>>, all.item)) ELSE Fail
  IN IF tooDeep(depth) THEN Fail ELSE item(from(buffer_skip_whitespace(b, o + 1)))

parse_array(b, o, depth) == Nested(b, o, depth, "Array", "]")
parse_object(b, o, depth) == Nested(b, o, depth, "Object", "}")

parse_value(b, o, depth) ==
  LET c == buffer_at(b, o)
      word == {type \in DOMAIN Words : Words[type] = c}
  IN CASE word # {} -> Done(o + 1, Item(CHOOSE type \in word : TRUE, <<>>, <<>>))
       [] c = "\"" -> parse_string(b, o)
       [] c \in Digits -> parse_number(b, o)
       [] c = "[" -> parse_array(b, o, depth)
       [] c = "{" -> parse_object(b, o, depth)
       [] OTHER -> Fail

(* The byte order mark counts where something follows it.                     *)
skip_utf8_bom(b) == IF b[1] = "BOM" /\ Len(b) > 2 THEN 1 ELSE 0

(* With require_null_terminated, nothing but blanks may follow.               *)
cJSON_ParseWithOpts(t, require_null_terminated) ==
  LET result(b, r) ==
        IF r.ok /\ (require_null_terminated =>
                      buffer_at(b, buffer_skip_whitespace(b, r.next)) = "NUL")
        THEN [ok |-> TRUE, item |-> r.item] ELSE Fail
      read(b) == result(b, parse_value(b, buffer_skip_whitespace(b, skip_utf8_bom(b)), 0))
  IN read(Append(t, "NUL"))

-----------------------------------------------------------------------------
(* The text without blanks and comments, those in strings kept.  For a string *)
(* or comment that does not end the code reads on; here it is not asked to.   *)

RECURSIVE Minified(_, _)
Minified(t, i) ==
  LET from(stops) == CHOOSE j \in stops : \A k \in stops : j <= k
      lineEnd == from({j \in i .. Len(t) : t[j] = "\n"} \cup {Len(t) + 1})
      commentEnd == from({j \in i + 2 .. Len(t) : t[j - 1] = "*" /\ t[j] = "/"}
                           \cup {Len(t)})
      stringEnd == StringEnd(t, i) + 1
      starts(c) == i < Len(t) /\ t[i] = "/" /\ t[i + 1] = c
  IN CASE i > Len(t) -> <<>>
       [] i <= Len(t) /\ t[i] \in {" ", "\t", "\r", "\n"} -> Minified(t, i + 1)
       [] starts("/") -> Minified(t, lineEnd)
       [] starts("*") -> Minified(t, commentEnd + 1)
       [] i <= Len(t) /\ t[i] = "\"" -> SubSeq(t, i, stringEnd) \o Minified(t, stringEnd + 1)
       [] OTHER -> <<t[i]>> \o Minified(t, i + 1)

cJSON_Minify(t) == Minified(t, 1)

-----------------------------------------------------------------------------
(* Comparing.                                                                 *)

Lower == "K" :> "k"
tolower(name) == [i \in DOMAIN name |-> IF name[i] \in DOMAIN Lower THEN Lower[name[i]]
                                        ELSE name[i]]

SameName(a, b, case_sensitive) == IF case_sensitive THEN a = b ELSE tolower(a) = tolower(b)

(* The position of the first member of that name, 0 without one.              *)
get_object_item(v, name, case_sensitive) ==
  SelectInSeq(v.child, LAMBDA m : SameName(m.name, name, case_sensitive))

RECURSIVE cJSON_Compare(_, _, _)

Bug_Within(a, b, case_sensitive) ==
  \A i \in DOMAIN a.child :
    LET j == get_object_item(b, a.child[i].name, case_sensitive)
    IN j # 0 => cJSON_Compare(a.child[i].item, b.child[j].item, case_sensitive)

(* Each member of a is in b.                                                  *)
Within(a, b, case_sensitive) ==
  \A i \in DOMAIN a.child :
    LET j == get_object_item(b, a.child[i].name, case_sensitive)
    IN j # 0 /\ cJSON_Compare(a.child[i].item, b.child[j].item, case_sensitive)

cJSON_Compare(a, b, case_sensitive) ==
  /\ a.type = b.type /\ a.type # "Invalid"
  /\ CASE a.type = "Array" ->
            /\ Len(a.child) = Len(b.child)
            /\ \A i \in DOMAIN a.child :
                 cJSON_Compare(a.child[i].item, b.child[i].item, case_sensitive)
       [] a.type = "Object" -> Within(a, b, case_sensitive) /\ Within(b, a, case_sensitive)
       [] OTHER -> a.text = b.text

=============================================================================
