------------------------------ MODULE Strings ------------------------------
(***************************************************************************)
(* Strings of core/runtime/mquickjs.c: they are kept as WTF-8 and answer   *)
(* in UTF-16 units.  A position is converted by a walk over the characters *)
(* from a place that a small cache remembers (js_string_convert_pos).      *)
(*                                                                         *)
(* A character is a letter: "S" is beyond 0xffff, "h" and "l" are the      *)
(* surrogates it consists of, "f" comes after the surrogates.  A value is  *)
(* [rep, at, chars]: rep is "char" for a character in a value, "obj" for a *)
(* string in the heap at the address at, 0 for a constant.                 *)
(***************************************************************************)
EXTENDS Integers, FiniteSetsExt, SequencesExt

CONSTANTS
    Initials,     \* the first string: sequences of characters
    Constants,    \* name |-> characters: the other strings a program has
    CacheSize,    \* JS_STRING_POS_CACHE_SIZE
    MinLen,       \* JS_STRING_POS_CACHE_MIN_LEN
    MaxUnits,     \* bound of the model: units of a string
    MaxCalls,     \* bound of the model: calls of methods
    Indices       \* the arguments of the methods

VARIABLES
    this,     \* the string the methods are called on
    garbage,  \* the addresses of strings that are gone
    cache,    \* string_pos_cache: [str: the address, utf8, utf16]
    counter,  \* string_pos_cache_counter
    calls,    \* how many methods were called
    call,     \* <<the method, its arguments>> that has just returned, or <<>>
    answer    \* what it returned, unless it is the string this

vars == <<this, garbage, cache, counter, calls, call, answer>>

None == "none"
Empty == [str |-> 0, utf8 |-> 0, utf16 |-> 0]

Three == {"h", "l", "f"}
Bytes(c) == IF c \in Three THEN 3 ELSE IF c = "S" THEN 4 ELSE 1
UnitsOf(c) == IF c = "S" THEN <<"h", "l">> ELSE <<c>>
Rank(c) == CASE c = " " -> 1 [] c = "A" -> 2 [] c = "a" -> 3 [] c = "h" -> 4 [] c = "l" -> 5
             [] c = "f" -> 6 [] c = "S" -> 7
Space == {" "}

\* Bytes and units of the first k characters.
UnitLen(cs, k) == k + Cardinality({i \in 1..k : cs[i] = "S"})
ByteLen(cs, k) == UnitLen(cs, k) + 2 * Cardinality({i \in 1..k : Bytes(cs[i]) > 1})
RECURSIVE Units(_)
Units(cs) == IF cs = <<>> THEN <<>> ELSE UnitsOf(cs[1]) \o Units(Tail(cs))
IsAscii(cs) == \A i \in DOMAIN cs : Bytes(cs[i]) = 1
AtByte(cs, b) == CHOOSE k \in 0..Len(cs) : ByteLen(cs, k) = b

----------------------------------------------------------------------------
(* Positions.  A UTF-8 position is [byte, flag]: flag is TRUE between the  *)
(* two units of the character there.  st is [cache, counter].              *)

\* Fault of WalkTo: the way back does not look for the middle of a character.
WalkTo_Whole(cs, k0, type, pos) ==
    LET At(k) == IF type = "utf16" THEN UnitLen(cs, k) ELSE ByteLen(cs, k)
        k == IF At(k0) <= pos
             THEN Min({i \in k0..Len(cs) : At(i) >= pos \/ i = Len(cs)})
             ELSE Max({i \in 0..(k0 - 1) : At(i) <= pos})
    IN [k |-> k, flag |-> FALSE]

\* The walk from character k0: forward or backward, to the byte or the unit
\* pos, whichever is asked for, or to the end of the string.
WalkTo(cs, k0, type, pos) ==
    LET Split(k) == type = "utf16" /\ k < Len(cs) /\ cs[k + 1] = "S" /\ UnitLen(cs, k) + 1 = pos
        There(k) == IF type = "utf16" THEN UnitLen(cs, k) = pos \/ Split(k) ELSE ByteLen(cs, k) = pos
        from == IF type = "utf16" THEN UnitLen(cs, k0) ELSE ByteLen(cs, k0)
        k == IF from <= pos
             THEN Min({i \in k0..Len(cs) : There(i) \/ i = Len(cs)})
             ELSE Max({i \in 0..(k0 - 1) : There(i) \/ i = 0})
    IN [k |-> k, flag |-> Split(k)]

\* {st, the position of the other type}.
js_string_convert_pos(st, v, type, pos, surrogate) ==
    LET cs == v.chars
        Distance(e) == LET d == (IF type = "utf8" THEN e.utf8 ELSE e.utf16) - pos
                       IN IF d < 0 THEN -d ELSE d
        near == {i \in DOMAIN st.cache : st.cache[i].str = v.at /\ Distance(st.cache[i]) < pos}
        i == IF near = {} THEN st.counter
             ELSE Min({n \in near : \A m \in near : Distance(st.cache[n]) <= Distance(st.cache[m])})
        cached == v.rep = "obj" /\ ByteLen(cs, Len(cs)) >= MinLen
        from == IF cached /\ near # {} THEN AtByte(cs, st.cache[i].utf8) ELSE 0
        Remembered(utf8, utf16) ==
            [cache |-> [st.cache EXCEPT ![i] = [str |-> v.at, utf8 |-> utf8, utf16 |-> utf16]],
             counter |-> IF near # {} THEN st.counter ELSE (st.counter % CacheSize) + 1]
        Reached(w) ==
            [st |-> IF cached THEN Remembered(ByteLen(cs, w.k), UnitLen(cs, w.k)) ELSE st,
             byte |-> ByteLen(cs, w.k), flag |-> w.flag,
             unit |-> UnitLen(cs, w.k) + (IF surrogate THEN 1 ELSE 0)]
    IN IF IsAscii(cs)
       THEN [st |-> st, byte |-> IF pos < Len(cs) THEN pos ELSE Len(cs), flag |-> FALSE,
             unit |-> IF pos < Len(cs) THEN pos ELSE Len(cs)]
       ELSE Reached(WalkTo(cs, from, type, pos))

js_string_utf16_to_utf8_pos(st, v, unit) == js_string_convert_pos(st, v, "utf16", unit, FALSE)
js_string_utf8_to_utf16_pos(st, v, byte, flag) == js_string_convert_pos(st, v, "utf8", byte, flag)

\* {st, n}: the length in units.
js_string_len(st, v) ==
    IF v.rep = "char" THEN [st |-> st, n |-> Len(UnitsOf(v.chars[1]))]
    ELSE LET p == js_string_utf8_to_utf16_pos(st, v, ByteLen(v.chars, Len(v.chars)), FALSE)
         IN [st |-> p.st, n |-> p.unit]

\* {st, c}: the unit or the character at a unit, None outside the string.
string_getcp(st, v, unit, is_codepoint) ==
    LET CharAfter(k, flag) ==
            LET c == v.chars[k + 1]
            IN IF k >= Len(v.chars) THEN None
               ELSE IF c # "S" \/ (~flag /\ is_codepoint) THEN c
               ELSE UnitsOf(c)[IF flag THEN 2 ELSE 1]
        Got(p) == [st |-> p.st, c |-> CharAfter(AtByte(v.chars, p.byte), p.flag)]
    IN Got(js_string_utf16_to_utf8_pos(st, v, unit))
string_getc(st, v, unit) == string_getcp(st, v, unit, FALSE)

----------------------------------------------------------------------------
(* New strings: a value, its address still to be given.                    *)

Obj(cs) == [rep |-> "obj", at |-> 0, chars |-> cs]
CharVal(c) == [rep |-> "char", at |-> 0, chars |-> <<c>>]

\* A character cut off from its other half is a string in the heap, whatever
\* its length; one whole character is a value.
js_sub_string_utf8(v, from, to) ==
    LET a == AtByte(v.chars, from.byte)
        b == AtByte(v.chars, to.byte)
        middle == SubSeq(v.chars, a + (IF from.flag THEN 2 ELSE 1), b)
    IN IF from.byte = to.byte /\ from.flag = to.flag THEN Obj(<<>>)
       ELSE IF ~from.flag /\ ~to.flag /\ b = a + 1 THEN CharVal(v.chars[b])
       ELSE Obj((IF from.flag THEN <<"l">> ELSE <<>>) \o middle \o (IF to.flag THEN <<"h">> ELSE <<>>))

\* {st, v}.
js_sub_string(st, v, start, end) ==
    LET p == js_string_utf16_to_utf8_pos(st, v, start)
        q == js_string_utf16_to_utf8_pos(p.st, v, end)
    IN IF end <= start THEN [st |-> st, v |-> Obj(<<>>)]
       ELSE [st |-> q.st, v |-> js_sub_string_utf8(v, p, q)]

\* Fault of string_buffer_concat_str: surrogates stay apart.
string_buffer_concat_str_Apart(cs, ds) == cs \o ds

\* Two surrogates that meet become one character.
string_buffer_concat_str(cs, ds) ==
    IF cs # <<>> /\ ds # <<>> /\ Last(cs) = "h" /\ ds[1] = "l"
    THEN Front(cs) \o <<"S">> \o Tail(ds) ELSE cs \o ds

\* What was put together.
string_buffer_end(cs) == IF Len(cs) = 1 THEN CharVal(cs[1]) ELSE Obj(cs)

JS_ConcatString(v1, v2) ==
    IF v1.chars = <<>> THEN v2 ELSE IF v2.chars = <<>> THEN v1
    ELSE string_buffer_end(string_buffer_concat_str(v1.chars, v2.chars))

\* From the unit at on, v has the n units of arg, the first j looked at: {st, ok}.
RECURSIVE SameUnits(_, _, _, _, _, _)
SameUnits(st, v, at, arg, j, n) ==
    LET c == string_getc(st, v, at + j)
        d == string_getc(c.st, arg, j)
    IN IF j = n THEN [st |-> st, ok |-> TRUE]
       ELSE IF c.c # d.c THEN [st |-> d.st, ok |-> FALSE]
       ELSE SameUnits(d.st, v, at, arg, j + 1, n)

\* The first of the units start, start + inc, ... stop where arg is: {st, n}.
RECURSIVE Search(_, _, _, _, _, _)
Search(st, v, arg, start, stop, inc) ==
    LET r == SameUnits(st, v, start, arg, 0, Len(Units(arg.chars)))
    IN IF r.ok THEN [st |-> r.st, n |-> start]
       ELSE IF start = stop THEN [st |-> r.st, n |-> -1]
       ELSE Search(r.st, v, arg, start + inc, stop, inc)

\* The order of the first characters that differ; a character beyond 0xffff
\* comes where its first half does.
js_string_compare(v1, v2) ==
    LET cs == v1.chars  ds == v2.chars
        n == IF Len(cs) < Len(ds) THEN Len(cs) ELSE Len(ds)
        k == Min({i \in 1..n : cs[i] # ds[i]} \cup {n + 1})
    IN IF k = n + 1 THEN IF Len(cs) = Len(ds) THEN 0 ELSE IF Len(cs) < Len(ds) THEN -1 ELSE 1
       ELSE IF (cs[k] = "S") = (ds[k] = "S") THEN IF Rank(cs[k]) < Rank(ds[k]) THEN -1 ELSE 1
       ELSE IF cs[k] # "S" THEN IF Rank(cs[k]) <= Rank("h") THEN -1 ELSE 1
       ELSE IF Rank("h") < Rank(ds[k]) THEN -1 ELSE 1

----------------------------------------------------------------------------
Const(n) == [rep |-> IF Len(Constants[n]) = 1 THEN "char" ELSE "obj", at |-> 0, chars |-> Constants[n]]
State == [cache |-> cache, counter |-> counter]
\* Fault of Live: the collector forgets the cache.
Live_All(entries) == entries

\* The entries about live strings.
Live(entries) ==
    [i \in DOMAIN entries |-> IF entries[i].str \in garbage THEN [entries[i] EXCEPT !.str = 0] ELSE entries[i]]

Init ==
    /\ \E cs \in Initials : this = [rep |-> "obj", at |-> 1, chars |-> cs]
    /\ garbage = {} /\ calls = 0 /\ call = <<>> /\ answer = <<>>
    /\ cache = [i \in 1..CacheSize |-> Empty] /\ counter = 1

\* A method has returned: what it leaves of the cache is r.st.
Returns(c, r) ==
    /\ call = <<>> /\ calls < MaxCalls /\ call' = c /\ calls' = calls + 1
    /\ cache' = r.st.cache /\ counter' = r.st.counter

\* It returned r.n.
Answers(c, r) == Returns(c, r) /\ answer' = <<r.n>> /\ UNCHANGED <<this, garbage>>

\* It returned the string r.v, which becomes this; a new object takes a free
\* address.
IsOld(v) == v.rep = "char" \/ v.chars = <<>> \/ v \in {this} \cup {Const(n) : n \in DOMAIN Constants}
Becomes(c, r) ==
    /\ UnitLen(r.v.chars, Len(r.v.chars)) <= MaxUnits
    /\ Returns(c, r) /\ answer' = <<>>
    /\ garbage' = garbage \cup ({this.at} \ {0, r.v.at})
    /\ \/ IsOld(r.v) /\ this' = r.v
       \/ /\ ~IsOld(r.v)
          /\ \E at \in {1, 2} \ (garbage \cup {this.at}) : this' = [r.v EXCEPT !.at = at]

\* The program goes on.
Continue ==
    /\ call # <<>> /\ call' = <<>> /\ answer' = <<>>
    /\ UNCHANGED <<this, garbage, cache, counter, calls>>

\* JS_GC: the addresses are free, no entry is about a string that is gone.
Collect ==
    /\ call = <<>> /\ garbage # {} /\ garbage' = {}
    /\ cache' = Live(cache)
    /\ UNCHANGED <<this, counter, calls, call, answer>>

Length == Answers(<<"length">>, js_string_len(State, this))

CodeAt(i, is_codepoint) ==
    LET c == string_getcp(State, this, i, is_codepoint) IN [st |-> c.st, n |-> c.c]
CharCodeAt(i) == Answers(<<"charCodeAt", i>>, CodeAt(i, FALSE))
CodePointAt(i) == Answers(<<"codePointAt", i>>, CodeAt(i, TRUE))

js_string_charAt(i) ==
    LET c == string_getc(State, this, i)
    IN [st |-> c.st, v |-> IF c.c = None THEN Obj(<<>>) ELSE CharVal(c.c)]
CharAt(i) == Becomes(<<"charAt", i>>, js_string_charAt(i))

Clamp(i, lo, hi) == IF i < lo THEN lo ELSE IF i > hi THEN hi ELSE i

js_string_slice(a, b) ==
    LET l == js_string_len(State, this)
        Index(i) == Clamp(IF i < 0 THEN i + l.n ELSE i, 0, l.n)
    IN js_sub_string(l.st, this, Index(a), Index(b))
Slice(a, b) == Becomes(<<"slice", a, b>>, js_string_slice(a, b))

js_string_substring(a, b) ==
    LET l == js_string_len(State, this)
        p == Clamp(a, 0, l.n)
        q == Clamp(b, 0, l.n)
    IN js_sub_string(l.st, this, IF p < q THEN p ELSE q, IF p < q THEN q ELSE p)
Substring(a, b) == Becomes(<<"substring", a, b>>, js_string_substring(a, b))

Joined(v1, v2) == [st |-> State, v |-> JS_ConcatString(v1, v2)]
Concat(n) == Becomes(<<"concat", n>>, Joined(this, Const(n)))
Prepend(n) == Becomes(<<"prepend", n>>, Joined(Const(n), this))

js_string_indexOf(v, from) ==
    LET l == js_string_len(State, this)
        m == js_string_len(l.st, v)
        start == Clamp(from, 0, l.n)
        stop == l.n - m.n
    IN IF m.n <= l.n /\ start <= stop THEN Search(m.st, this, v, start, stop, 1)
       ELSE [st |-> m.st, n |-> -1]
IndexOf(n, from) == Answers(<<"indexOf", n, from>>, js_string_indexOf(Const(n), from))

js_string_lastIndexOf(v, from) ==
    LET l == js_string_len(State, this)
        m == js_string_len(l.st, v)
        start == IF from <= 0 THEN 0 ELSE IF from < l.n - m.n THEN from ELSE l.n - m.n
    IN IF m.n <= l.n THEN Search(m.st, this, v, start, 0, -1) ELSE [st |-> m.st, n |-> -1]
LastIndexOf(n, from) == Answers(<<"lastIndexOf", n, from>>, js_string_lastIndexOf(Const(n), from))

Compare(n) == Answers(<<"compare", n>>, [st |-> State, n |-> js_string_compare(this, Const(n))])

UpperOf(c) == IF c = "a" THEN "A" ELSE c
RECURSIVE Cased(_, _, _, _)
Cased(st, i, n, cs) ==
    LET c == string_getc(st, this, i) IN
    IF i = n THEN [st |-> st, v |-> string_buffer_end(cs)]
    ELSE Cased(c.st, i + 1, n, string_buffer_concat_str(cs, <<UpperOf(c.c)>>))
js_string_toUpperCase == LET l == js_string_len(State, this) IN Cased(l.st, 0, l.n, <<>>)
ToUpperCase == Becomes(<<"toUpperCase">>, js_string_toUpperCase)

\* The first unit from i on, or before i, that is no space: {st, n}.
RECURSIVE SkipSpace(_, _, _, _, _)
SkipSpace(st, i, look, stop, inc) ==
    LET c == string_getc(st, this, i + look) IN
    IF i = stop THEN [st |-> st, n |-> i]
    ELSE IF c.c \in Space THEN SkipSpace(c.st, i + inc, look, stop, inc)
    ELSE [st |-> c.st, n |-> i]

js_string_trim ==
    LET l == js_string_len(State, this)
        a == SkipSpace(l.st, 0, 0, l.n, 1)
        b == SkipSpace(a.st, l.n, -1, a.n, -1)
    IN js_sub_string(b.st, this, a.n, b.n)
Trim == Becomes(<<"trim">>, js_string_trim)

\* JS_ToPropertyKey: two strings are the same key if they are the same value,
\* or both objects of the heap with the same bytes.
SameKey(n) ==
    Answers(<<"key", n>>, [st |-> State, n |-> this.rep = Const(n).rep /\ this.chars = Const(n).chars])

Next ==
    \/ Continue \/ Collect \/ Length \/ ToUpperCase \/ Trim
    \/ \E i \in Indices \ {-1} : CharCodeAt(i) \/ CodePointAt(i) \/ CharAt(i)
    \/ \E a, b \in Indices : Slice(a, b) \/ Substring(a, b)
    \/ \E n \in DOMAIN Constants :
         \/ Concat(n) \/ Prepend(n) \/ Compare(n) \/ SameKey(n)
         \/ \E i \in Indices : IndexOf(n, i) \/ LastIndexOf(n, i)

Spec == Init /\ [][Next]_vars
----------------------------------------------------------------------------
\* The type of the state; no two surrogates that make a character are apart.
TypeOK ==
    /\ this.rep \in {"char", "obj"} /\ UnitLen(this.chars, Len(this.chars)) <= MaxUnits
    /\ \A i \in 1..(Len(this.chars) - 1) : <<this.chars[i], this.chars[i + 1]>> # <<"h", "l">>
    /\ garbage \subseteq {1, 2} \ {this.at} /\ counter \in 1..CacheSize
    /\ \A i \in DOMAIN cache : cache[i].str \in {0, 1, 2}

\* An entry about a live string holds the two positions of one character of it.
CacheIsRight ==
    \A i \in DOMAIN cache :
        cache[i].str = this.at /\ this.at # 0 =>
            \E k \in 0..Len(this.chars) :
                cache[i].utf8 = ByteLen(this.chars, k) /\ cache[i].utf16 = UnitLen(this.chars, k)

Text16 == INSTANCE Text WITH text <- Units(this.chars)

\* Every method does with the string what it does with its UTF-16 units.
AnswersInUnits == Text16!Spec

=============================================================================
