----------------------------- MODULE MCcJSON_Utils -----------------------------
(* Documents and patches for cJSON_Utils: every scalar, and arrays, objects   *)
(* and their nesting to three levels, one more than the parser's limit here.  *)
EXTENDS cJSON_Utils

Scalars == {Item("NULL", <<>>, <<>>), Item("Number", <<"1">>, <<>>),
            Item("String", <<"/", "\"", "\n", "ctl", "U+1F600">>, <<>>)}
Array(items) == Item("Array", <<>>, [i \in DOMAIN items |-> Member(<<>>, items[i])])
Object(members) == Item("Object", <<>>, members)

Number(n) == Item("Number", <<n>>, <<>>)

J == <<"k", "j">>   \* a name that begins with the other
K == <<"k">>
Around(v, w) ==
  {Array(<<>>), Array(<<v>>), Array(<<v, w>>), Array(<<w, v>>)}
    \cup {Object(<<Member(name, v)>>) : name \in {J, K}}
    \cup {Object(<<Member(K, v), Member(J, w)>>)}

Some == {Number("1"), Item("NULL", <<>>, <<>>)}
Deep == {Object(<<>>), Array(<<Number("1")>>), Object(<<Member(J, Number("1"))>>),
         Array(<<Number("2"), Number("1")>>),
         Object(<<Member(J, Array(<<>>)), Member(K, Number("1"))>>)}

MCValues == Scalars \cup {Item("False", <<>>, <<>>), Item("True", <<>>, <<>>), Object(<<>>)}
              \cup UNION {Around(v, w) : v, w \in Some}
              \cup UNION {Around(v, w) : v \in Deep, w \in Some}
              \cup {Object(<<Member(K, Array(<<s>>))>>) : s \in Scalars}

Patch(op, path, from, v) == [op |-> op, path |-> path, from |-> from, value |-> v]
Paths == {<<>>, <<J>>, <<K>>, <<<<"0">>>>, <<<<"1">>>>, <<<<"-">>>>, <<K, <<"0">>>>}
MCPatches ==
  {<<Patch(op, path, NULL, Number("1"))>> :
     op \in {"add", "replace", "test", "add "}, path \in Paths}
    \cup {<<Patch("remove", path, NULL, NULL)>> : path \in Paths}
    \cup {<<Patch(op, path, from, NULL)>> : op \in {"move", "copy"}, path, from \in Paths}
    \cup {<<Patch("add", NULL, NULL, NULL)>>, <<Patch("replace", <<K>>, NULL, NULL)>>,
          <<Patch("move", <<K>>, NULL, NULL)>>,
          <<Patch("remove", <<K>>, NULL, NULL), Patch("test", <<J>>, NULL, Number("1")),
            Patch("add", <<J>>, NULL, Number("1"))>>}

MCMergePatches ==
  {Number("1"), Object(<<Member(J, Item("NULL", <<>>, <<>>)), Member(K, Number("1"))>>),
   Object(<<Member(K, Object(<<Member(J, Number("1"))>>))>>)}

(* Names with a character that a pointer escapes, and names that differ in    *)
(* case.                                                                      *)
Named(name) == {Object(<<Member(name, Object(<<Member(<<"j">>, Number(n))>>))>>) : n \in {"1", "2"}}
MCEscaped == Named(<<"~">>)
MCCases ==
  {Object(<<Member(<<"K">>, Number("1")), Member(<<"k">>, Number("2"))>>),
   Object(<<Member(<<"K">>, Number("1"))>>)}
MCMixed ==
  {Object(<<Member(<<"j">>, Number("1")), Member(<<"K">>, Number("2"))>>),
   Object(<<Member(<<"K">>, Number("2"))>>)}

(* Both sides of every limit of the encoding.                                 *)
MCCodeUnits == {0, 127, 128, 2047, 2048, 55295,
                55296, 55297, 56319, 56320, 56321, 57343, 57344, 65535}

(* Nothing, single characters, and escapes: those the printer never writes,   *)
(* the halves of a pair, the pair, and digits that are none.                  *)
MCEdits ==
  {<<>>} \cup {<<c>> : c \in {"}", "]", "\"", "\\", ",", "/", "ctl"}}
    \cup {<<"\\", c>> : c \in {"/", "n", "u006b", "ud83d", "ude00", "u00g0"}}
    \cup {<<"\\", "ud83d", "\\", "ude00">>}
=============================================================================
