-------------------------------- MODULE Json --------------------------------
(***************************************************************************)
(* The values of a program as JSON.stringify, JSON.parse, the CBOR digest  *)
(* and === of core/runtime/mquickjs.c see them: arrays and objects that    *)
(* refer to each other, an object being a table of properties in the order *)
(* of their insertion with holes where one was deleted.  The program edits *)
(* them and calls these functions.  A text is a sequence of character      *)
(* codes, where null, true and false are one code each; a number is an     *)
(* integer, and no text has digits after a point or an exponent.  There    *)
(* are no getters and memory does not run out here.                        *)
(***************************************************************************)
EXTENDS Integers, Sequences, Bitwise

CONSTANTS
    Kind,      \* Kind[n] is "array" or "object", for each number n of a value
    Initials,  \* heaps to begin with
    Keys,      \* names of properties
    Scalars,   \* values that are neither arrays nor objects
    Replacements, \* what a structural code of a text from outside may be replaced by
    Foreign,   \* the strings that are in them
    MaxEdits,  \* bound of the model: changes by the program
    MaxGarbled \* bound of the model: length of a text that is altered

VARIABLES
    heap,      \* heap[n]: the items of an array, the properties of an object
    edits,
    text,      \* what JSON.stringify returned, <<>> before
    parsed,    \* what JSON.parse returned, <<>> before
    digest     \* a value and its CBOR digest, <<>> before

vars == <<heap, edits, text, parsed, digest>>

Quote == 34
Backslash == 92
Comma == 44
Colon == 58
Minus == 45
Open == [array |-> 91, object |-> 123]
Close == [array |-> 93, object |-> 125]
NullWord == 1000
TrueWord == 1001
FalseWord == 1002
Point == 46
Zero == 48
Spaces == 9..13 \cup {32}
Digits == 48..57

Null == <<"null", <<>>>>
Undefined == <<"undefined", <<>>>>
Exception == <<"exception", <<>>>>
Bool(b) == <<"bool", <<b>>>>
IsRef(v) == v[1] = "ref"
Node(v) == v[2][1]
KindOf(v) == Kind[Node(v)]
Refs == {<<"ref", <<n>>>> : n \in DOMAIN Kind}
Deleted == <<-1>>

JS_GetProperty(h, v, k) ==
    LET p == h[Node(v)]
        at == {i \in DOMAIN p : p[i][1] = k}
    IN IF at = {} THEN Undefined ELSE p[CHOOSE i \in at : TRUE][2]

----------------------------------------------------------------------------
(* CBOR.                                                                   *)

BigEndian(n, bytes) == [i \in 1..bytes |-> (n \div 256 ^ (bytes - i)) % 256]

cbor_encode_uint(n, major) ==
    IF n < 24 THEN <<major | n>>
    ELSE IF n <= 255 THEN <<major | 24, n>>
    ELSE IF n <= 65535 THEN <<major | 25>> \o BigEndian(n, 2)
    ELSE <<major | 26>> \o BigEndian(n, 4)

cbor_encode_int(n) == IF n >= 0 THEN cbor_encode_uint(n, 0) ELSE cbor_encode_uint(-(n + 1), 1)
cbor_encode_string(s) == cbor_encode_uint(Len(s), 3) \o s

RECURSIVE Precedes(_, _)
Precedes(a, b) ==
    IF a = <<>> \/ b = <<>> THEN Len(a) < Len(b)
    ELSE IF a[1] # b[1] THEN a[1] < b[1] ELSE Precedes(Tail(a), Tail(b))

\* One round of the insertion sort: the key goes before those that follow it.
RECURSIVE InsertKey(_, _)
InsertKey(keys, key) ==
    IF keys # <<>> /\ Precedes(cbor_encode_string(key), cbor_encode_string(keys[Len(keys)]))
    THEN Append(InsertKey(SubSeq(keys, 1, Len(keys) - 1), key), keys[Len(keys)])
    ELSE Append(keys, key)

\* Fault of SortedKeys: the keys stay in the order of their insertion.
SortedKeys_No(p, n) == LET q == SelectSeq(p, LAMBDA e : e[1] # Deleted) IN [i \in 1..Len(q) |-> q[i][1]]

RECURSIVE SortedKeys(_, _)
SortedKeys(p, n) ==
    IF n = 0 THEN <<>>
    ELSE IF p[n][1] = Deleted THEN SortedKeys(p, n - 1)
    ELSE InsertKey(SortedKeys(p, n - 1), p[n][1])

js_object_keys(h, v) ==
    IF KindOf(v) = "array" THEN [i \in DOMAIN h[Node(v)] |-> <<47 + i>>]
    ELSE SortedKeys(h[Node(v)], Len(h[Node(v)]))

RECURSIVE Concat(_)
Concat(ss) == IF ss = <<>> THEN <<>> ELSE ss[1] \o Concat(Tail(ss))

RECURSIVE cbor_serialize_value(_, _)

cbor_serialize_array(h, v) ==
    LET a == h[Node(v)]
    IN cbor_encode_uint(Len(a), 4) \o Concat([i \in DOMAIN a |-> cbor_serialize_value(h, a[i])])
cbor_serialize_object(h, v) ==
    LET ks == js_object_keys(h, v)
    IN cbor_encode_uint(Len(ks), 5) \o
       Concat([i \in DOMAIN ks |->
                 cbor_encode_string(ks[i]) \o cbor_serialize_value(h, JS_GetProperty(h, v, ks[i]))])
cbor_serialize_value(h, v) ==
    CASE v[1] = "num" -> cbor_encode_int(v[2][1])
      [] v[1] = "bool" -> <<244 + v[2][1]>>
      [] v[1] = "undefined" -> <<247>>
      [] v[1] \in {"str", "decimal"} -> cbor_encode_string(v[2])
      [] v[1] = "null" -> <<246>>
      [] OTHER -> IF KindOf(v) = "array" THEN cbor_serialize_array(h, v) ELSE cbor_serialize_object(h, v)

----------------------------------------------------------------------------
(* Equality.                                                               *)

RECURSIVE js_structural_eq(_, _, _)

js_strict_eq(h, a, b) ==
    IF a[1] \in {"num", "str"} THEN a = b ELSE js_structural_eq(h, a, b)

\* As many keys, and equal values under those of the first object.
SameProperties(h, a, b) ==
    LET ks == js_object_keys(h, a)
    IN /\ Len(ks) = Len(js_object_keys(h, b))
       /\ \A i \in DOMAIN ks :
              js_strict_eq(h, JS_GetProperty(h, a, ks[i]), JS_GetProperty(h, b, ks[i]))

js_structural_eq(h, a, b) ==
    \/ a = b
    \/ /\ IsRef(a) /\ IsRef(b)
       /\ KindOf(a) = "object" /\ KindOf(b) = "object"
       /\ SameProperties(h, a, b)

----------------------------------------------------------------------------
(* JSON.stringify: a stack of values with the index reached in each and    *)
(* the keys of objects.                                                    *)

Escapes == {<<9, 116>>, <<13, 114>>, <<10, 110>>, <<8, 98>>, <<12, 102>>, <<Quote, Quote>>, <<Backslash, Backslash>>}
Hex(d) == IF d < 10 THEN 48 + d ELSE 87 + d

Quoted(c) ==
    IF \E e \in Escapes : e[1] = c THEN <<Backslash, (CHOOSE e \in Escapes : e[1] = c)[2]>>
    ELSE IF c < 32 THEN <<Backslash, 117, 48, 48, Hex(c \div 16), Hex(c % 16)>>
    ELSE <<c>>
js_to_quoted_string(s) == <<Quote>> \o Concat([i \in DOMAIN s |-> Quoted(s[i])]) \o <<Quote>>

NumberText(n) == IF n < 0 THEN <<Minus, 48 - n>> ELSE <<48 + n>>

Frame(v) == [v |-> v, idx |-> 0, keys |-> <<>>]

check_circular_ref(stk, v) == \E i \in DOMAIN stk : stk[i].v = v

\* Value v is put on the stack after the text that precedes it.
Deeper(stk, out, idx, keys, before, v) ==
    LET at == [stk EXCEPT ![1].idx = idx, ![1].keys = keys]
    IN [stk |-> IF check_circular_ref(at, v) THEN <<>> ELSE <<Frame(v)>> \o at,
        out |-> IF check_circular_ref(at, v) THEN <<-1>> ELSE out \o before]
Ends(stk, out) == [stk |-> Tail(stk), out |-> out]

StringifyArray(h, stk, out) ==
    LET f == stk[1]    a == h[Node(f.v)]
        start == IF f.idx = 0 THEN <<Open.array>> ELSE <<>>
    IN IF f.idx >= Len(a) THEN Ends(stk, out \o start \o <<Close.array>>)
       ELSE Deeper(stk, out, f.idx + 1, <<>>,
                   start \o (IF f.idx # 0 THEN <<Comma>> ELSE <<>>), a[f.idx + 1])

RECURSIVE SkipUndefined(_, _, _, _)
SkipUndefined(h, v, keys, idx) ==
    IF idx < Len(keys) /\ JS_GetProperty(h, v, keys[idx + 1]) = Undefined
    THEN SkipUndefined(h, v, keys, idx + 1) ELSE idx

StringifyObject(h, stk, out) ==
    LET f == stk[1]
        start == IF f.idx = 0 THEN <<Open.object>> ELSE <<>>
        keys == IF f.idx = 0 THEN js_object_keys(h, f.v) ELSE f.keys
        idx == SkipUndefined(h, f.v, keys, f.idx)
    IN IF idx >= Len(keys) THEN Ends(stk, out \o start \o <<Close.object>>)
       ELSE Deeper(stk, out, idx + 1, keys,
                   start \o (IF f.idx # 0 THEN <<Comma>> ELSE <<>>)
                   \o js_to_quoted_string(keys[idx + 1]) \o <<Colon>>,
                   JS_GetProperty(h, f.v, keys[idx + 1]))

Scalar(v) ==
    CASE v[1] = "num" -> NumberText(v[2][1])
      [] v[1] = "bool" -> <<IF v[2][1] = 1 THEN TrueWord ELSE FalseWord>>
      [] v[1] = "str" -> js_to_quoted_string(v[2])
      [] OTHER -> <<NullWord>>

RECURSIVE Stringify(_, _, _)
Stringify(h, stk, out) ==
    IF stk = <<>> THEN out
    ELSE LET v == stk[1].v
             next == IF ~IsRef(v) THEN Ends(stk, out \o Scalar(v))
                     ELSE IF KindOf(v) = "array" THEN StringifyArray(h, stk, out)
                     ELSE StringifyObject(h, stk, out)
         IN Stringify(h, next.stk, next.out)

\* The text, or <<-1>> for an exception.
js_json_stringify(h, v) == Stringify(h, <<Frame(v)>>, <<>>)

----------------------------------------------------------------------------
(* JSON.parse.  A parsed array is <<"array", items>>, a parsed object      *)
(* <<"object", properties>>.                                               *)

\* The code at the offset p, 0 at the end.
At(t, p) == IF p < Len(t) THEN t[p + 1] ELSE 0
Result(v, p) == [v |-> v, p |-> p]
Failed == Result(Exception, 0)
IsFailed(r) == r.v = Exception

RECURSIVE skip_spaces(_, _)
skip_spaces(t, p) == IF At(t, p) \in Spaces THEN skip_spaces(t, p + 1) ELSE p

\* js_atod on the digits of an integer, with any zeros before them and a point
\* after them.
RECURSIVE Number(_, _, _)
Number(t, p, n) == IF At(t, p) \in Digits THEN Number(t, p + 1, 10 * n + At(t, p) - Zero) ELSE Result(n, p)

ParseNumber(t, p) ==
    LET start == IF At(t, p) = Minus THEN p + 1 ELSE p
        r == Number(t, start, 0)
    IN IF r.p = start THEN Failed
       ELSE Result(<<"num", <<IF start = p THEN r.v ELSE -r.v>>>>, IF At(t, r.p) = Point THEN r.p + 1 ELSE r.p)

HexDigits == Digits \cup 97..102
FromHex(c) == IF c \in Digits THEN c - Zero ELSE c - 87

\* n hexadecimal digits: their value and what follows, -1 if one is not there.
RECURSIVE Hexes(_, _, _, _)
Hexes(t, p, n, v) ==
    IF n = 0 THEN Result(v, p)
    ELSE IF At(t, p) \notin HexDigits THEN Result(-1, p)
    ELSE Hexes(t, p + 1, n - 1, 16 * v + FromHex(At(t, p)))

\* Hexadecimal digits up to a brace.
RECURSIVE Braced(_, _, _)
Braced(t, p, v) ==
    LET c == 16 * v + FromHex(At(t, p))
    IN IF At(t, p) \notin HexDigits \/ c > 1114111 THEN Result(-1, p)
       ELSE IF At(t, p + 1) = Close.object THEN Result(c, p + 2)
       ELSE Braced(t, p + 1, c)

\* What follows a backslash; -1 is an error, and -2 no escape.
ScriptEscapes == Escapes \cup {<<11, 118>>, <<39, 39>>}
js_parse_escape(t, p) ==
    LET e == At(t, p)
        at == {x \in ScriptEscapes : x[2] = e}
    IN CASE at # {} -> Result((CHOOSE x \in at : TRUE)[1], p + 1)
         [] e = 120 -> Hexes(t, p + 1, 2, 0)
         [] e = 117 -> IF At(t, p + 1) = Open.object THEN Braced(t, p + 2, 0) ELSE Hexes(t, p + 1, 4, 0)
         [] e = Zero -> Result(IF At(t, p + 1) \in Digits THEN -1 ELSE 0, p + 1)
         [] OTHER -> Result(-2, p)

RECURSIVE js_parse_string(_, _, _)
js_parse_string(t, p, s) ==
    LET c == At(t, p)    e == js_parse_escape(t, p + 1)
    IN IF c \in {0, 10, 13} THEN Failed
       ELSE IF c = Quote THEN Result(<<"str", s>>, p + 1)
       ELSE IF c # Backslash THEN js_parse_string(t, p + 1, Append(s, c))
       ELSE IF At(t, p + 1) = 10 THEN js_parse_string(t, p + 2, s)
       ELSE IF e.v = -1 THEN Failed
       ELSE js_parse_string(t, e.p, IF e.v = -2 THEN s ELSE Append(s, e.v))

RECURSIVE js_parse_json_value(_, _)

RECURSIVE ParseItems(_, _, _)
ParseItems(t, p, items) ==
    LET r == js_parse_json_value(t, p)
        q == skip_spaces(t, r.p)
        all == Append(items, r.v)
    IN IF IsFailed(r) THEN Failed
       ELSE IF At(t, q) = Comma THEN ParseItems(t, q + 1, all)
       ELSE IF At(t, q) = Close.array THEN Result(<<"array", all>>, q + 1) ELSE Failed

IsDuplicate(props, key) == \E i \in DOMAIN props : props[i][1] = key

RECURSIVE ParseProperties(_, _, _)
ParseProperties(t, at, props) ==
    LET p == skip_spaces(t, at)
        k == js_parse_string(t, p + 1, <<>>)
        colon == skip_spaces(t, k.p)
        r == js_parse_json_value(t, colon + 1)
        q == skip_spaces(t, r.p)
        all == Append(props, <<k.v[2], r.v>>)
    IN IF At(t, p) # Quote THEN Failed
       ELSE IF IsFailed(k) THEN Failed
       ELSE IF IsDuplicate(props, k.v[2]) THEN Failed
       ELSE IF At(t, colon) # Colon THEN Failed
       ELSE IF IsFailed(r) THEN Failed
       ELSE IF At(t, q) = Comma THEN ParseProperties(t, q + 1, all)
       ELSE IF At(t, q) = Close.object THEN Result(<<"object", all>>, q + 1) ELSE Failed

js_parse_json_value(t, at) ==
    LET p == skip_spaces(t, at)
        c == At(t, p)
        first == skip_spaces(t, p + 1)
    IN CASE c \in Digits \cup {Minus} -> ParseNumber(t, p)
         [] c = TrueWord -> Result(Bool(1), p + 1)
         [] c = FalseWord -> Result(Bool(0), p + 1)
         [] c = NullWord -> Result(Null, p + 1)
         [] c = Quote -> js_parse_string(t, p + 1, <<>>)
         [] c = Open.array ->
              IF At(t, first) = Close.array THEN Result(<<"array", <<>>>>, first + 1)
              ELSE ParseItems(t, p + 1, <<>>)
         [] c = Open.object ->
              IF At(t, first) = Close.object THEN Result(<<"object", <<>>>>, first + 1)
              ELSE ParseProperties(t, p + 1, <<>>)
         [] OTHER -> Failed

js_json_parse(t) ==
    LET r == js_parse_json_value(t, 0)
    IN IF IsFailed(r) \/ skip_spaces(t, r.p) # Len(t) THEN Exception ELSE r.v

----------------------------------------------------------------------------
(* What values and texts mean.                                             *)

\* The values that can be reached from v, in at most as many steps as there are.
Inside(h, v) ==
    IF ~IsRef(v) THEN {}
    ELSE {w \in Refs : \E i \in DOMAIN h[Node(v)] :
                IF KindOf(v) = "array" THEN h[Node(v)][i] = w ELSE h[Node(v)][i][2] = w}
RECURSIVE Reached(_, _, _)
Reached(h, vs, n) ==
    IF n = 0 THEN vs ELSE Reached(h, vs \cup UNION {Inside(h, v) : v \in vs}, n - 1)
ReachedFrom(h, v) == Reached(h, {v}, Len(h))
IsCyclic(h, v) == \E w \in ReachedFrom(h, v) : w \in Reached(h, Inside(h, w), Len(h))

Present(p) == {p[i] : i \in {j \in DOMAIN p : p[j][1] # Deleted}}

\* The tree of a value, where an object is the set of its properties.
RECURSIVE Tree(_, _)
Tree(h, v) ==
    IF ~IsRef(v) THEN v
    ELSE IF KindOf(v) = "array"
    THEN <<"array", <<>> \o [i \in DOMAIN h[Node(v)] |-> Tree(h, h[Node(v)][i])]>>
    ELSE <<"object", {<<e[1], Tree(h, e[2])>> : e \in Present(h[Node(v)])}>>

\* The order of properties: by the codes of their names, as RFC 8785 has it, but
\* in groups of four lengths, for the length is in the first byte that is compared
\* and its two lower bits are lost.
Sooner(a, b) ==
    \/ Len(a) \div 4 < Len(b) \div 4
    \/ Len(a) \div 4 = Len(b) \div 4 /\ Precedes(a, b)

\* The text of a tree, the same for all values with that tree.
RECURSIVE Written(_), WrittenMembers(_)
WrittenMembers(ms) ==
    IF ms = {} THEN <<>>
    ELSE LET m == CHOOSE a \in ms : \A b \in ms : a = b \/ Sooner(a[1], b[1])
         IN js_to_quoted_string(m[1]) \o <<Colon>> \o Written(m[2])
            \o (IF ms = {m} THEN <<>> ELSE <<Comma>> \o WrittenMembers(ms \ {m}))
Written(t) ==
    IF t[1] = "array"
    THEN <<Open.array>>
         \o Concat([i \in DOMAIN t[2] |-> (IF i > 1 THEN <<Comma>> ELSE <<>>) \o Written(t[2][i])])
         \o <<Close.array>>
    ELSE IF t[1] = "object"
    THEN <<Open.object>> \o WrittenMembers({m \in t[2] : m[2] # Undefined}) \o <<Close.object>>
    ELSE Scalar(t)

Strings == Foreign \cup Keys \cup {v[2] : v \in {w \in Scalars : w[1] = "str"}}

RECURSIVE Trimmed(_)
Trimmed(t) ==
    IF t = <<>> THEN t
    ELSE IF t[1] \in Spaces THEN Trimmed(Tail(t))
    ELSE IF t[Len(t)] \in Spaces THEN Trimmed(SubSeq(t, 1, Len(t) - 1)) ELSE t

Before(t, i) == SubSeq(t, 1, i - 1)
After(t, i) == SubSeq(t, i + 1, Len(t))
IsBetween(t, kind) == Len(t) > 1 /\ t[1] = Open[kind] /\ t[Len(t)] = Close[kind]

\* The ways to write the code c in a string: those of JSON, and those that it does
\* not have: the escapes of scripts, a backslash before a code that is no letter of
\* an escape, and control codes as they are.
EscapeLetters == {e[2] : e \in Escapes} \cup {117, 118, 120}
Spellings(c) ==
    LET hex == <<Hex(c \div 16), Hex(c % 16)>>
    IN {Quoted(c), <<Backslash, 117, Zero, Zero>> \o hex}
       \cup {<<Backslash, 117, Open.object>> \o hex \o <<Close.object>>, <<Backslash, 120>> \o hex}
       \cup (IF c = 0 THEN {<<Backslash, Zero>>} ELSE IF c = 11 THEN {<<Backslash, 118>>}
             ELSE IF c \in EscapeLetters \cup Digits \cup {10} THEN {} ELSE {<<Backslash, c>>})
       \cup ({<<c>>} \ {<<x>> : x \in {0, 10, 13, Quote, Backslash}})
RECURSIVE Spells(_, _)
Spells(t, s) ==
    IF s = <<>> THEN t = <<>>
    ELSE \E x \in Spellings(s[1]) : Len(x) <= Len(t) /\ SubSeq(t, 1, Len(x)) = x
                                   /\ Spells(After(t, Len(x)), Tail(s))
StringsOf(t) ==
    IF Len(t) < 2 \/ t[1] # Quote \/ t[Len(t)] # Quote THEN {}
    ELSE {s \in Strings : Spells(SubSeq(t, 2, Len(t) - 1), s)}

\* An integer is written as in JSON, or with zeros before it or a point after it.
WritesNumber(t, n) ==
    LET d == IF n < 0 THEN -n ELSE n
        digits == IF d < 10 THEN <<Zero + d>> ELSE <<Zero + d \div 10, Zero + (d % 10)>>
    IN \E zeros \in {<<>>, <<Zero>>}, point \in {<<>>, <<Point>>} :
          t = (IF n < 0 THEN <<Minus>> ELSE <<>>) \o zeros \o digits \o point

\* The values that the grammar gives a text: none or one.
RECURSIVE ValuesOf(_), ListsOf(_), MembersOf(_)
ValuesOf(raw) ==
    LET t == Trimmed(raw)
        inner == IF Len(t) > 1 THEN Trimmed(SubSeq(t, 2, Len(t) - 1)) ELSE <<>>
        numbers == IF t # <<>> /\ t[1] \in Digits \cup {Minus} THEN -9..99 ELSE {}
    IN {<<"num", <<n>>>> : n \in {m \in numbers : WritesNumber(t, m)}}
       \cup {v \in {Bool(0), Bool(1), Null} : t = Scalar(v)}
       \cup {<<"str", s>> : s \in StringsOf(t)}
       \cup (IF ~IsBetween(t, "array") THEN {}
             ELSE {<<"array", l>> : l \in IF inner = <<>> THEN {<<>>} ELSE ListsOf(inner)})
       \cup (IF ~IsBetween(t, "object") THEN {}
             ELSE {<<"object", l>> : l \in IF inner = <<>> THEN {<<>>} ELSE MembersOf(inner)})
ListsOf(t) ==
    {<<v>> : v \in ValuesOf(t)}
    \cup UNION {{<<v>> \o l : v \in ValuesOf(Before(t, i)), l \in ListsOf(After(t, i))} :
                 i \in {j \in DOMAIN t : t[j] = Comma}}
MembersOf(t) ==
    LET Member(m) == UNION {{<<s, v>> : s \in StringsOf(Trimmed(Before(m, i))), v \in ValuesOf(After(m, i))} :
                            i \in {j \in DOMAIN m : m[j] = Colon}}
    IN {<<m>> : m \in Member(t)}
       \cup UNION {{<<m>> \o l : m \in Member(Before(t, i)),
                                l \in MembersOf(After(t, i))} :
                    i \in {j \in DOMAIN t : t[j] = Comma}}

RECURSIVE HasDuplicates(_)
HasDuplicates(v) ==
    CASE v[1] = "array" -> \E i \in DOMAIN v[2] : HasDuplicates(v[2][i])
      [] v[1] = "object" -> \E i \in DOMAIN v[2] :
             HasDuplicates(v[2][i][2]) \/ \E j \in DOMAIN v[2] : j < i /\ v[2][j][1] = v[2][i][1]
      [] OTHER -> FALSE
Denoted(t) ==
    LET vs == {v \in ValuesOf(t) : ~HasDuplicates(v)}
    IN IF vs = {} THEN Exception ELSE CHOOSE v \in vs : TRUE

----------------------------------------------------------------------------
(* The program.                                                            *)

Init ==
    /\ heap \in Initials /\ edits = 0
    /\ text = <<>> /\ parsed = <<>> /\ digest = <<>>

Edit(n, content) ==
    /\ edits < MaxEdits /\ text = <<>>
    /\ edits' = edits + 1
    /\ heap' = [heap EXCEPT ![n] = content]
    /\ UNCHANGED <<text, parsed, digest>>

\* a[a.length] = v, o[k] = v and delete o[k].
PushItem(n, v) == Edit(n, Append(heap[n], v))

\* Fault of SetProperty: it does not look for the property.
SetProperty_Adds(n, k, v) == Edit(n, Append(heap[n], <<k, v>>))

SetProperty(n, k, v) ==
    LET at == {i \in DOMAIN heap[n] : heap[n][i][1] = k}
    IN Edit(n, IF at = {} THEN Append(heap[n], <<k, v>>) ELSE [heap[n] EXCEPT ![CHOOSE i \in at : TRUE][2] = v])
DeleteProperty(n, k) ==
    \E i \in DOMAIN heap[n] : heap[n][i][1] = k /\ Edit(n, [heap[n] EXCEPT ![i] = <<Deleted, Undefined>>])

Root == <<"ref", <<1>>>>
Stringifies ==
    /\ text = <<>>
    /\ text' = js_json_stringify(heap, Root)
    /\ UNCHANGED <<heap, edits, parsed, digest>>

\* A text that comes from outside: one code is replaced by others.
Garbled(i, with) ==
    /\ Len(text) <= MaxGarbled /\ parsed = <<>> /\ edits = 0
    /\ text[i] \in {Open.array, Open.object, Close.array, Close.object, Comma, Colon}
    /\ text' = Before(text, i) \o with \o After(text, i)
    /\ parsed' = js_json_parse(text')
    /\ UNCHANGED <<heap, edits, digest>>

Parses ==
    /\ text \notin {<<>>, <<-1>>} /\ parsed = <<>>
    /\ parsed' = js_json_parse(text)
    /\ UNCHANGED <<heap, edits, text, digest>>

\* The serializer has no check for a cycle: the program has none.
JS_CBORSerialize(v) ==
    /\ text = <<>> /\ ~IsCyclic(heap, v)
    /\ digest' = <<Tree(heap, v), cbor_serialize_value(heap, v)>>
    /\ UNCHANGED <<heap, edits, text, parsed>>

Next ==
    \/ \E n \in DOMAIN Kind, v \in Scalars \cup Refs :
          \/ Kind[n] = "array" /\ PushItem(n, v)
          \/ Kind[n] = "object" /\ \E k \in Keys : SetProperty(n, k, v)
    \/ \E n \in DOMAIN Kind, k \in Keys : Kind[n] = "object" /\ DeleteProperty(n, k)
    \/ Stringifies
    \/ \E i \in DOMAIN text, with \in Replacements : Garbled(i, with)
    \/ Parses
    \/ \E v \in Refs : JS_CBORSerialize(v)

Spec == Init /\ [][Next]_vars

----------------------------------------------------------------------------
(* Properties.                                                             *)

Values == Scalars \cup Refs \cup {Undefined, Null} \cup {<<"num", <<n>>>> : n \in -9..9}

\* The values are in range and no object has two properties of one name.
TypeOK ==
    /\ edits \in 0..MaxEdits
    /\ \A n \in DOMAIN Kind : \A i \in DOMAIN heap[n] :
          IF Kind[n] = "array" THEN heap[n][i] \in Values
          ELSE /\ heap[n][i][1] \in Keys \cup {Deleted}
               /\ heap[n][i][2] \in Values
               /\ \A j \in 1..(i - 1) : heap[n][i][1] \in {Deleted} \/ heap[n][j][1] # heap[n][i][1]

\* JSON.stringify writes one text for all values with the same tree, whatever the order in
\* which the properties were added and deleted, and refuses exactly the values that contain
\* themselves.  The order of the names is that of Sooner, not RFC 8785's.
CanonicalText ==
    text # <<>> /\ parsed = <<>> =>
        text = IF IsCyclic(heap, Root) THEN <<-1>> ELSE Written(Tree(heap, Root))

\* JSON.parse accepts exactly the texts of a grammar in which no object has a name twice, and
\* returns what they denote.  The grammar is JSON's with what the code accepts besides: all
\* spaces of C, control codes and the escapes of scripts in strings, a backslash before any
\* other code, zeros before a number and a point after it.
ParsesJson == parsed # <<>> => parsed = Denoted(text)

\* Two values with the same tree have the same CBOR digest, however they were made; the
\* converse does not hold, for the headers of the digest do not tell the kinds apart.
DigestFollowsValue ==
    digest # <<>> =>
        \A v \in Refs : ~IsCyclic(heap, v) /\ Tree(heap, v) = digest[1]
                         => cbor_serialize_value(heap, v) = digest[2]

\* Objects of properties that hold no array and no undefined are === when their trees are
\* the same, and only then.
Plain(h, v) ==
    /\ ~IsCyclic(h, v)
    /\ \A w \in ReachedFrom(h, v) :
          KindOf(w) = "object" /\ \A e \in Present(h[Node(w)]) : e[2] # Undefined
EqualityIsStructural ==
    \A v, w \in Refs : Plain(heap, v) /\ Plain(heap, w) =>
        (js_strict_eq(heap, v, w) <=> Tree(heap, v) = Tree(heap, w))

\* What v === w is, w === v is.
EqualityIsSymmetric ==
    \A v, w \in Refs : ~IsCyclic(heap, v) /\ ~IsCyclic(heap, w) =>
        (js_strict_eq(heap, v, w) <=> js_strict_eq(heap, w, v))
=============================================================================
