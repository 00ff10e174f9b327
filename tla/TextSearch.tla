----------------------------- MODULE TextSearch -----------------------------
(***************************************************************************)
(* Searching in strings of core/runtime/mquickjs.c: exec, test and search  *)
(* of a regular expression, match, replace, replaceAll and split of a      *)
(* string, and the lastIndex that a regular expression keeps between them. *)
(* What lre_exec finds is taken from Matching, which RegExp shows to be    *)
(* what it computes; texts are ASCII, so that units are bytes (Strings has *)
(* the conversion).  A position is undefined in a capture that is <<>>.    *)
(***************************************************************************)
EXTENDS Integers, FiniteSetsExt, SequencesExt

CONSTANTS
    Patterns,      \* name |-> [d, multi, dotall, icase, sticky, global]
    Texts,         \* sequences of character codes
    Needles,       \* strings searched for
    Replacements,  \* sequences of what they are meant to say, see Written
    Limits,        \* of split; NoLimit is 2^32 - 1
    Indices        \* bound of the model: lastIndex that the program sets

VARIABLES
    regexp,      \* a name of Patterns
    text,        \* the string
    last_index,  \* of the regular expression
    call,        \* <<method, last_index before, arguments>> that returned, or <<>>
    result       \* what it returned: a sequence of strings

vars == <<regexp, text, last_index, call, result>>

NoLimit == -1
Undefined == <<-1>>
Null == <<Undefined>>
Forever == << <<-2>> >>     \* the method does not return
True == << <<1>> >>
False == << <<0>> >>
Letters(l) == CASE l = "d" -> 48..57 [] l = "w" -> (48..57) \cup (65..90) \cup {95} \cup (97..122)
CharAt(t, i) == t[i + 1]
CharBefore(t, i) == t[i]
CharLen(b) == 1
M == INSTANCE Matching

Pattern(r) == Patterns[r]
Size == Len(text)
Sub(t, a, b) == SubSeq(t, a + 1, b)
lre_exec(r, at) == M!Meaning(Pattern(r), text, at)
Kept(r) == Pattern(r).global \/ Pattern(r).sticky   \* lastIndex counts
Least(a, b) == IF a < b THEN a ELSE b

----------------------------------------------------------------------------

(* {m, last}: the match, <<>> if there is none, and lastIndex after it.    *)
js_regexp_exec(r, last, force, search) ==
    LET kept == Kept(r) \/ force
        start == IF ~kept \/ search \/ last < 0 THEN 0 ELSE Least(last, Size)
        With(m) == [m |-> m, last |-> IF ~kept THEN last
                                      ELSE IF m = <<>> THEN 0
                                      ELSE IF search THEN last ELSE m[1][2]]
    IN With(lre_exec(r, start))

Index(m) == << <<m[1][1]>> >>
Groups(m) == [k \in DOMAIN m |-> IF m[k] = <<>> THEN Undefined ELSE Sub(text, m[k][1], m[k][2])]

\* js_string_match of a global expression: what each exec finds, one after the
\* other; nothing moves it on from an empty match.
RECURSIVE MatchAll(_, _, _)
MatchAll(r, last, found) ==
    LET Then(e) ==
            IF e.m = <<>> THEN [value |-> IF found = <<>> THEN Null ELSE found, last |-> 0]
            ELSE IF e.last = last /\ e.m[1][1] = last THEN [value |-> Forever, last |-> last]
            ELSE MatchAll(r, e.last, Append(found, Groups(e.m)[1]))
    IN Then(js_regexp_exec(r, last, FALSE, FALSE))
js_string_match(r, last) ==
    LET Alone(e) == [value |-> IF e.m = <<>> THEN Null ELSE Index(e.m) \o Groups(e.m), last |-> e.last]
    IN IF Pattern(r).global THEN MatchAll(r, 0, <<>>)
       ELSE Alone(js_regexp_exec(r, last, FALSE, FALSE))

\* The replacement rep for the match m: $$, $&, $`, $' and $n; n has two digits
\* if it can, and what is no group stays as it is.
Written(r) == FlattenSeq([i \in DOMAIN r |->
    CASE r[i][1] = "text" -> r[i][2] [] r[i][1] = "dollar" -> <<36, 36>>
      [] r[i][1] = "match" -> <<36, 38>> [] r[i][1] = "before" -> <<36, 96>>
      [] r[i][1] = "after" -> <<36, 39>> [] r[i][1] = "group" -> <<36, 48 + r[i][2]>>])
Digit(rep, j) == j <= Len(rep) /\ rep[j] \in 48..57
RECURSIVE js_string_concat_subst(_, _, _)
js_string_concat_subst(rep, m, i) ==
    LET Value(j, c, k, next) ==
            CASE c = 36 -> <<36>>
              [] c = 38 -> Sub(text, m[1][1], m[1][2])
              [] c = 96 -> Sub(text, 0, m[1][1])
              [] c = 39 -> Sub(text, m[1][2], Size)
              [] Digit(rep, j + 1) /\ k >= 1 /\ k < Len(m) ->
                   IF m[k + 1] = <<>> THEN <<>> ELSE Sub(text, m[k + 1][1], m[k + 1][2])
              [] OTHER -> SubSeq(rep, j, next - 1)
        Dollar(j, c, two) ==
            LET k == IF two THEN (c - 48) * 10 + rep[j + 2] - 48 ELSE c - 48
                next == IF two THEN j + 3 ELSE j + 2
            IN SubSeq(rep, i, j - 1) \o Value(j, c, k, next) \o js_string_concat_subst(rep, m, next)
        From(j) ==
            IF j + 1 > Len(rep) THEN SubSeq(rep, i, Len(rep))
            ELSE Dollar(j, rep[j + 1], Digit(rep, j + 1) /\ Digit(rep, j + 2))
    IN From(Min({n \in i..Len(rep) : rep[n] = 36} \cup {Len(rep) + 1}))

\* Groups that took no part keep what they had in the match before: the buffer
\* of the captures is filled with -1 once, before the loop.
Captured(m, before) == [k \in DOMAIN m |-> IF m[k] = <<>> /\ before # <<>> THEN before[k] ELSE m[k]]

RECURSIVE ReplaceFrom(_, _, _, _, _, _)
ReplaceFrom(r, rep, last, end, before, out) ==
    LET With(c, to, out1) ==
            IF Pattern(r).global
            THEN ReplaceFrom(r, rep, IF to = c[1][1] THEN to + 1 ELSE to, to, c, out1)
            ELSE [value |-> << out1 \o Sub(text, to, Size) >>, last |-> to]
        Replaced(c) ==
            IF c = <<>> THEN [value |-> << out \o Sub(text, end, Size) >>, last |-> 0]
            ELSE With(c, c[1][2],
                      out \o Sub(text, end, c[1][1]) \o js_string_concat_subst(rep, c, 1))
    IN Replaced(Captured(IF last > Size THEN <<>> ELSE lre_exec(r, last), before))

js_string_replace(r, rep, last) ==
    LET start == IF Pattern(r).global \/ ~Pattern(r).sticky \/ last < 0 THEN 0 ELSE last
        res == ReplaceFrom(r, rep, start, 0, <<>>, <<>>)
    IN [res EXCEPT !.last = IF Kept(r) THEN (IF Pattern(r).global THEN 0 ELSE @) ELSE last]

\* The first place from start on where the needle is, -1 if there is none.
js_string_indexof(needle, start) ==
    LET at == {i \in start..(Size - Len(needle)) : SubSeq(text, i + 1, i + Len(needle)) = needle}
    IN IF at = {} THEN -1 ELSE Min(at)

\* A string that is replaced: first is TRUE until it was found once.
RECURSIVE ReplaceNeedle(_, _, _, _, _, _)
ReplaceNeedle(needle, rep, all, end, first, out) ==
    LET n == Len(needle)
        pos == IF n > 0 THEN js_string_indexof(needle, end)
               ELSE IF first THEN 0 ELSE IF end >= Size THEN -1 ELSE end + 1
        m == << <<pos, pos + n>> >>
        out1 == out \o Sub(text, end, pos) \o js_string_concat_subst(rep, m, 1)
    IN IF pos < 0 THEN out \o Sub(text, end, Size)
       ELSE IF all THEN ReplaceNeedle(needle, rep, all, pos + n, FALSE, out1)
       ELSE out1 \o Sub(text, pos + n, Size)

\* Split at a regular expression.  p: end of the last separator, q: from where
\* the next one is looked for.
RECURSIVE SplitFrom(_, _, _, _, _, _)
SplitFrom(r, limit, last, p, q, out) ==
    LET rest == Append(out, Sub(text, p, Size))
        Apart(e, at, out1) ==
            IF e.last = p THEN SplitFrom(r, limit, e.last, p, at + 1, out)
            ELSE IF Len(out1) = limit THEN [value |-> out1, last |-> e.last]
            ELSE SplitFrom(r, limit, e.last, e.last, e.last, out1 \o Tail(Groups(e.m)))
        Cut(e, at) == Apart(e, at, Append(out, Sub(text, p, at)))
        Looked(e) ==
            IF e.m # <<>> THEN Cut(e, IF Pattern(r).sticky THEN q ELSE e.m[1][1])
            ELSE IF Pattern(r).sticky THEN SplitFrom(r, limit, e.last, p, q + 1, out)
            ELSE [value |-> rest, last |-> e.last]
    IN IF q >= Size THEN [value |-> rest, last |-> last]
       ELSE Looked(js_regexp_exec(r, q, TRUE, FALSE))
js_string_split(r, limit, last) ==
    LET e == js_regexp_exec(r, 0, TRUE, FALSE) IN
    IF limit = 0 THEN [value |-> <<>>, last |-> last]
    ELSE IF Size = 0 THEN [value |-> IF e.m = <<>> THEN << <<>> >> ELSE <<>>, last |-> e.last]
    ELSE SplitFrom(r, limit, last, 0, 0, <<>>)

\* Split at a string: an empty one is between all characters.
RECURSIVE SplitNeedle(_, _, _, _, _)
SplitNeedle(needle, limit, p, q0, out) ==
    LET n == Len(needle)
        one == IF n = 0 THEN 1 ELSE 0
        q == q0 + one
        e == js_string_indexof(needle, q)
        out1 == Append(out, Sub(text, p, e))
    IN IF q > Size - n - one \/ e < 0 THEN Append(out, Sub(text, p, Size))
       ELSE IF Len(out1) = limit THEN out1
       ELSE SplitNeedle(needle, limit, e + n, e + n, out1)
SplitString(needle, limit) ==
    IF limit = 0 THEN <<>>
    ELSE IF Size = 0 THEN IF Len(needle) # 0 THEN << <<>> >> ELSE <<>>
    ELSE SplitNeedle(needle, limit, 0, 0, <<>>)

----------------------------------------------------------------------------
Init ==
    /\ regexp \in DOMAIN Patterns /\ text \in Texts /\ last_index = 0
    /\ call = <<>> /\ result = <<>>

\* The method c has returned the value and the lastIndex of r.
Returns(c, r) ==
    /\ call = <<>> /\ call' = c /\ result' = r.value /\ last_index' = r.last
    /\ UNCHANGED <<regexp, text>>

Executed(force, search) == js_regexp_exec(regexp, last_index, force, search)
Exec ==
    \E e \in {Executed(FALSE, FALSE)} :
        Returns(<<"exec", last_index>>,
                [value |-> IF e.m = <<>> THEN Null ELSE Index(e.m) \o Groups(e.m), last |-> e.last])
Test ==
    \E e \in {Executed(FALSE, FALSE)} :
        Returns(<<"test", last_index>>,
                [value |-> IF e.m = <<>> THEN False ELSE True, last |-> e.last])
Search ==
    \E e \in {Executed(FALSE, TRUE)} :
        Returns(<<"search", last_index>>,
                [value |-> IF e.m = <<>> THEN Null ELSE Index(e.m), last |-> e.last])
Match == Returns(<<"match", last_index>>, js_string_match(regexp, last_index))
Replace(rep) ==
    Returns(<<"replace", last_index, rep>>,
            js_string_replace(regexp, Written(rep), last_index))
ReplaceString(n, rep, all) ==
    Returns(<<"replace string", last_index, rep, n, all>>,
            [value |-> << ReplaceNeedle(n, Written(rep), all, 0, TRUE, <<>>) >>, last |-> last_index])
Split(limit) == Returns(<<"split", last_index, limit>>, js_string_split(regexp, limit, last_index))
SplitAt(n, limit) ==
    Returns(<<"split string", last_index, limit, n>>,
            [value |-> SplitString(n, limit), last |-> last_index])

\* The program goes on, with this text or another one: the expression keeps its
\* lastIndex.
Continue ==
    /\ call # <<>> /\ call' = <<>> /\ result' = <<>> /\ text' \in Texts
    /\ UNCHANGED <<regexp, last_index>>
js_regexp_set_lastIndex(i) ==
    /\ call = <<>> /\ last_index' = i /\ UNCHANGED <<regexp, text, call, result>>

Next ==
    \/ Exec \/ Test \/ Search \/ Match \/ Continue
    \/ \E i \in Indices : js_regexp_set_lastIndex(i)
    \/ \E rep \in Replacements :
         \/ Replace(rep)
         \/ \E n \in Needles, all \in BOOLEAN : ReplaceString(n, rep, all)
    \/ \E limit \in Limits : Split(limit) \/ \E n \in Needles : SplitAt(n, limit)

Spec == Init /\ [][Next]_vars

----------------------------------------------------------------------------
(* ECMAScript's matches, without a position that goes on.                  *)
Sticky(r) == [Pattern(r) EXCEPT !.sticky = TRUE]
At(r, i) == M!Meaning(Sticky(r), text, i)   \* the match that begins at i
First(r, from) ==
    LET Earliest(is) ==
            IF is = {} \/ (Pattern(r).sticky /\ from \notin is) THEN <<>> ELSE At(r, Min(is))
    IN Earliest({i \in from..Size : At(r, i) # <<>>})
RECURSIVE Successive(_, _)
Successive(r, from) ==
    LET AndThen(m) ==
            IF m = <<>> THEN <<>>
            ELSE <<m>> \o Successive(r, IF m[1][2] = m[1][1] THEN m[1][2] + 1 ELSE m[1][2])
    IN IF from > Size THEN <<>> ELSE AndThen(First(r, from))
Found(r, last) ==
    IF Pattern(r).global THEN Successive(r, 0)
    ELSE LET Alone(m) == IF m = <<>> THEN <<>> ELSE <<m>>
         IN Alone(First(r, IF Pattern(r).sticky THEN last ELSE 0))
\* The text between the matches ms.
Between(ms, i) ==
    Sub(text, IF i = 1 THEN 0 ELSE ms[i - 1][1][2], IF i > Len(ms) THEN Size ELSE ms[i][1][1])
\* The separators: matches, not empty at the end of the one before, before the end.
RECURSIVE Separators(_, _, _)
Separators(r, p, q) ==
    LET AndThen(m) ==
            IF m = <<>> \/ m[1][2] = p THEN Separators(r, p, q + 1)
            ELSE <<m>> \o Separators(r, m[1][2], m[1][2])
    IN IF q >= Size THEN <<>> ELSE AndThen(At(r, q))
\* The first elements of s, up to the limit: it is looked at after a piece of the
\* text, of which the groups groups follow, and has to be met exactly.
FirstOf(s, limit, groups) ==
    IF limit = 0 THEN <<>>
    ELSE IF limit = NoLimit \/ limit >= Len(s) \/ limit % (groups + 1) # 1 % (groups + 1) THEN s
    ELSE SubSeq(s, 1, limit)
\* Where the needle is, one after the other; the empty one is everywhere.
RECURSIVE Places(_, _, _)
Places(n, from, all) ==
    LET is == {i \in from..(Size - Len(n)) : Sub(text, i, i + Len(n)) = n} IN
    IF is = {} THEN <<>>
    ELSE << << <<Min(is), Min(is) + Len(n)>> >> >>
         \o IF all THEN Places(n, Min(is) + (IF n = <<>> THEN 1 ELSE Len(n)), all) ELSE <<>>
Said(r, m) == FlattenSeq([i \in DOMAIN r |->
    CASE r[i][1] = "text" -> r[i][2] [] r[i][1] = "dollar" -> <<36>>
      [] r[i][1] = "match" -> Sub(text, m[1][1], m[1][2])
      [] r[i][1] = "before" -> Sub(text, 0, m[1][1])
      [] r[i][1] = "after" -> Sub(text, m[1][2], Size)
      [] r[i][1] = "group" ->
           IF Len(m) <= r[i][2] THEN <<36, 48 + r[i][2]>>
           ELSE IF m[r[i][2] + 1] = <<>> THEN <<>>
           ELSE Sub(text, m[r[i][2] + 1][1], m[r[i][2] + 1][2])])

\* An empty separator at the end of the text, which ECMAScript does not look for:
\* the search that is not sticky finds it after the last separator, which ends at p.
EmptyAtEnd(r, p) ==
    /\ ~Pattern(r).sticky /\ p < Size /\ At(r, Size) # <<>>
    /\ p = Size - 1 => At(r, p) = <<>>
SplitAround(r) ==
    LET With(ms) ==
            IF EmptyAtEnd(r, IF ms = <<>> THEN 0 ELSE Last(ms)[1][2]) THEN Append(ms, At(r, Size)) ELSE ms
    IN With(Separators(r, 0, 0))
Pieces(r) ==
    LET Around(ms) == FlattenSeq([i \in 1..(Len(ms) + 1) |->
                          <<Between(ms, i)>> \o IF i > Len(ms) THEN <<>> ELSE Tail(Groups(ms[i]))])
    IN Around(SplitAround(r))

\* The matches as replace sees them: a group without a part has the one it had in
\* the last match that gave it one.
Lasting(ms) ==
    [i \in DOMAIN ms |-> [k \in DOMAIN ms[i] |->
        LET had == {j \in 1..i : ms[j][k] # <<>>}
        IN IF had = {} THEN <<>> ELSE ms[Max(had)][k]]]
Empties(ms) == {i \in DOMAIN ms : ms[i][1][1] = ms[i][1][2]}

\* What a method means for the match m, <<>> if there is none, or the matches ms.
ExecMeans(m) == IF m = <<>> THEN Null ELSE Index(m) \o Groups(m)
SearchMeans(m) == IF m = <<>> THEN Null ELSE Index(m)
MatchMeans(r, ms) ==
    IF ms = <<>> THEN Null
    ELSE IF ~Pattern(r).global THEN Index(ms[1]) \o Groups(ms[1])
    ELSE IF Empties(ms) # {} THEN Forever
    ELSE [i \in DOMAIN ms |-> Sub(text, ms[i][1][1], ms[i][1][2])]
ReplaceMeans(rep, ms) ==
    << FlattenSeq([i \in 1..(Len(ms) + 1) |->
           Between(ms, i) \o IF i > Len(ms) THEN <<>> ELSE Said(rep, ms[i])]) >>
SplitMeans(n, places) ==
    LET parts == IF n = <<>> THEN SelectSeq(places, LAMBDA p : p[1][1] \in 1..(Size - 1)) ELSE places
    IN IF Size = 0 /\ n = <<>> THEN <<>> ELSE [i \in 1..(Len(parts) + 1) |-> Between(parts, i)]

\* What the method of the call c returns when `one` is the first match from lastIndex
\* on, if that counts, and ms are the matches.
Meant(c, one, ms) ==
    CASE c[1] = "exec" -> ExecMeans(one)
      [] c[1] = "test" -> IF one = <<>> THEN False ELSE True
      [] c[1] = "search" -> SearchMeans(First(regexp, 0))
      [] c[1] = "match" -> MatchMeans(regexp, ms)
      [] c[1] = "replace" -> ReplaceMeans(c[3], Lasting(ms))
      [] c[1] = "replace string" -> ReplaceMeans(c[3], Places(c[4], 0, c[5]))
      [] c[1] = "split" ->
           FirstOf(IF Size = 0 /\ At(regexp, 0) # <<>> THEN <<>> ELSE Pieces(regexp), c[3],
                   M!AfterAll(Pattern(regexp).d, 1) - 1)
      [] c[1] = "split string" -> FirstOf(SplitMeans(c[4], Places(c[4], 0, TRUE)), c[3], 0)

\* TRUE if what the call c has left as lastIndex is what it is meant to be.
LastIndexMeant(c, one, ms) ==
    LET end == IF one = <<>> THEN 0 ELSE one[1][2]
        flags == Pattern(regexp)
    IN CASE c[1] \in {"exec", "test"} -> last_index = IF Kept(regexp) THEN end ELSE c[2]
         [] c[1] \in {"replace", "match"} ->
              last_index = IF flags.global
                           THEN IF c[1] = "match" /\ Empties(ms) # {} THEN ms[Min(Empties(ms))][1][1] ELSE 0
                           ELSE IF flags.sticky THEN end ELSE c[2]
         [] c[1] = "search" ->
              last_index = IF Kept(regexp) /\ First(regexp, 0) = <<>> THEN 0 ELSE c[2]
         [] c[1] = "split" -> last_index \in IF c[3] = 0 THEN {c[2]} ELSE 0..Size
         [] OTHER -> last_index = c[2]

----------------------------------------------------------------------------
(* Properties.                                                             *)

\* A result is a sequence of strings, lastIndex is what the program set or a
\* place in a text.
TypeOK ==
    /\ regexp \in DOMAIN Patterns /\ text \in Texts
    /\ last_index \in Indices \cup UNION {0..Len(t) : t \in Texts}
    /\ \A i \in DOMAIN result : \A k \in DOMAIN result[i] : result[i][k] \in -2..127
    /\ call = <<>> => result = <<>>

\* What exec, test, search, match, replace and split return is what ECMAScript
\* says they return for the matches of the pattern, and so is the lastIndex with
\* which the next call begins, on this text or another one, but for this:
\* exec, test and match take a lastIndex behind the text for its end; match with
\* a global expression that has an empty match never ends; replace gives a group
\* without a part the one of an earlier match; split takes an empty separator at
\* the end of the text, meets its limit after a piece or not at all, and leaves
\* lastIndex anywhere in the text; search resets it when it finds nothing.
SearchesAsWritten ==
    LET from == IF call[2] < 0 THEN 0
                ELSE IF call[1] = "replace" THEN call[2] ELSE Least(call[2], Size)
    IN call # <<>> =>
          \A one \in {First(regexp, IF Kept(regexp) THEN from ELSE 0)}, ms \in {Found(regexp, from)} :
              result = Meant(call, one, ms) /\ LastIndexMeant(call, one, ms)

=============================================================================
