------------------------------- MODULE RegExp -------------------------------
(***************************************************************************)
(* Regular expressions of core/runtime/mquickjs.c: the compiler            *)
(* (js_parse_regexp) and the backtracking interpreter (lre_exec).          *)
(*                                                                         *)
(* The tree of a pattern stands for its text.  A disjunction is a sequence *)
(* of alternatives, an alternative a sequence of terms:                    *)
(*   <<"char", c>>, <<"dot">>, <<"set", letter>>, <<"class", items, neg>>, *)
(*   <<"start">>, <<"end">>, <<"boundary", neg>>, <<"group", d>>,          *)
(*   <<"capture", d>>, <<"look", d, neg>>, <<"backref", n>>,               *)
(*   <<"quant", min, max, greedy, term>>.                                  *)
(* An item of a class is <<lo, hi>> or <<letter>>.  A jump counts          *)
(* instructions where the code counts bytes.  Characters are code points,  *)
(* texts are their bytes.                                                  *)
(***************************************************************************)
EXTENDS Integers, FiniteSetsExt, SequencesExt

CONSTANTS
    Patterns,   \* [d, multi, dotall, icase, sticky]: a pattern and its flags
    Compiled,   \* what js_parse_regexp makes of each
    Texts,      \* sequences of bytes
    StackWords  \* words of stack before JS_StackCheck fails

Infinite == 2^30 - 1      \* JS_SHORTINT_MAX
MaxCodePoint == 1114112   \* one more than the last, 0x110000
CaptureCountMax == 255
RegisterCountMax == 255

Positions(lo, hi) == SetToSortSeq(lo..hi, <)

----------------------------------------------------------------------------
(* Characters.                                                             *)

\* unicode_to_utf8, for code points of one or two bytes.
Utf8(c) == IF c < 128 THEN <<c>> ELSE <<192 + (c \div 64), 128 + (c % 64)>>
CharLen(b) == IF b < 192 THEN 1 ELSE 2
\* utf8_get at the byte i + 1 of a text.
CharAt(t, i) == IF t[i + 1] < 192 THEN t[i + 1] ELSE (t[i + 1] - 192) * 64 + t[i + 2] - 128
CharBefore(t, i) == IF t[i] < 128 THEN t[i] ELSE (t[i - 1] - 192) * 64 + t[i] - 128

LineTerminators == {10, 13, 8232, 8233}
is_word_char(c) == c \in (48..57) \cup (65..90) \cup {95} \cup (97..122)
lre_canonicalize(c) == IF c \in 65..90 THEN c + 32 ELSE c

char_range_s == << <<9, 14>>, <<32, 33>>, <<160, 161>>, <<5760, 5761>>, <<8192, 8203>>,
                   <<8232, 8234>>, <<8239, 8240>>, <<8287, 8288>>, <<12288, 12289>>,
                   <<65279, 65280>> >>
char_range_w == << <<48, 58>>, <<65, 91>>, <<95, 96>>, <<97, 123>> >>

\* The gaps between intervals, from 0 to the last code point.
Gaps(tab) ==
    [i \in 1..(Len(tab) + 1) |-> << IF i = 1 THEN 0 ELSE tab[i - 1][2],
                                    IF i = Len(tab) + 1 THEN MaxCodePoint ELSE tab[i][1] >>]

re_emit_range_base(letter) ==
    CASE letter = "d" -> << <<48, 58>> >>
      [] letter = "s" -> char_range_s
      [] letter = "w" -> char_range_w
      [] letter = "D" -> Gaps(<< <<48, 58>> >>)
      [] letter = "S" -> Gaps(char_range_s)
      [] letter = "W" -> Gaps(char_range_w)

\* Intervals in order of their start: empty ones are dropped, those that touch
\* become one.
RECURSIVE range_compress(_)
range_compress(tab) ==
    IF tab = <<>> THEN <<>>
    ELSE LET a == tab[1] IN
         IF a[1] = a[2] THEN range_compress(Tail(tab))
         ELSE IF Len(tab) > 1 /\ a[2] >= tab[2][1]
         THEN LET hi == IF a[2] > tab[2][2] THEN a[2] ELSE tab[2][2]
              IN range_compress(<< <<a[1], hi>> >> \o SubSeq(tab, 3, Len(tab)))
         ELSE <<a>> \o range_compress(Tail(tab))

\* The instruction for a set of characters: one byte per bound if all but the
\* last fit, 255 for the end of the code points.
re_range_optimize(tab, invert) ==
    LET t == range_compress(SortSeq(tab, LAMBDA a, b : a[1] < b[1]))
        u == IF invert THEN range_compress(Gaps(t)) ELSE t
        last == u[Len(u)]
        Byte(c) == IF c = MaxCodePoint THEN 255 ELSE c
    IN IF Len(u) < 16 /\ (last[2] < 254 \/ (last[2] = MaxCodePoint /\ last[1] < 254))
       THEN <<"range8", [i \in DOMAIN u |-> <<Byte(u[i][1]), Byte(u[i][2])>>]>>
       ELSE <<"range", u>>

add_interval_intersect(lo, hi, lo1, hi1, offset) ==
    LET a == IF lo > lo1 THEN lo ELSE lo1
        b == IF hi < hi1 THEN hi ELSE hi1
    IN IF a >= b THEN <<>>
       ELSE << <<a, b>> >> \o IF offset = 0 THEN <<>> ELSE << <<a + offset, b + offset>> >>

ClassItem(item, icase) ==
    IF Len(item) = 1 THEN re_emit_range_base(item[1])
    ELSE LET lo == item[1]  hi == item[2] + 1 IN
         IF ~icase THEN << <<lo, hi>> >>
         ELSE add_interval_intersect(lo, hi, 0, 65, 0)
              \o add_interval_intersect(lo, hi, 91, 97, 0)
              \o add_interval_intersect(lo, hi, 123, 2147483647, 0)
              \o add_interval_intersect(lo, hi, 65, 91, 32)
              \o add_interval_intersect(lo, hi, 97, 123, -32)

InRange8(tab, c) ==
    \E i \in DOMAIN tab : /\ c >= tab[i][1]
                          /\ c < tab[i][2] \/ (i = Len(tab) /\ tab[i][2] = 255)
InRange(tab, c) == \E i \in DOMAIN tab : c >= tab[i][1] /\ c < tab[i][2]

----------------------------------------------------------------------------
(* The compiler.  Its state has the instructions bc, capture_count and the *)
(* first error.                                                            *)

Failed(s, e) == [s EXCEPT !.err = IF @ = "" THEN e ELSE @]
Emit(s, ins) == [s EXCEPT !.bc = Append(@, ins)]
emit_insert(s, at, inss) ==
    [s EXCEPT !.bc = SubSeq(@, 1, at) \o inss \o SubSeq(@, at + 1, Len(@))]

Advancing == {"range8", "range", "char", "dot", "any", "space"}
Harmless == {"line_start", "line_end", "set_i32", "set_char_pos", "word_boundary", "save", "save_reset"}
\* {need_check_adv, need_capture_init} of the atom that starts after start.
re_need_check_adv_and_capture_init(bc, start) ==
    LET unknown == {i \in (start + 1)..Len(bc) : bc[i][1] \notin Advancing \cup Harmless}
        stop == IF unknown = {} THEN Len(bc) + 1 ELSE Min(unknown)
    IN [check_adv |-> ~ \E i \in (start + 1)..(stop - 1) : bc[i][1] \in Advancing,
        capture_init |-> unknown # {}]

\* greedy is added to or taken from an opcode: which of the two ways is first.
Optional(greedy) == IF greedy THEN "next" ELSE "goto"
Repeating(greedy) == IF greedy THEN "goto" ELSE "next"

\* The atom is what comes after start; count is capture_count before it.
re_parse_quantifier(s, start, count, min, max, greedy) ==
    LET need == re_need_check_adv_and_capture_init(s.bc, start)
        captures == count # s.caps
        reset == << <<"save_reset", count, s.caps - 1>> >>
        s1 == IF need.capture_init /\ captures THEN emit_insert(s, start, reset) ELSE s
        len == Len(s1.bc) - start
        check == need.check_adv /\ min # max
        position == IF check THEN << <<"set_char_pos", 0>> >> ELSE <<>>
        back == len + Len(position)   \* from the loop to the atom
        s2 == IF ~need.capture_init /\ captures THEN emit_insert(s1, start, reset) ELSE s1
        at == Len(s2.bc) - len
        advanced == IF check THEN << <<"check_advance", 0>> >> ELSE <<>>
        again == IF max = Infinite
                 THEN << <<"goto", -(back + Len(advanced) + 2)>> >> ELSE <<>>
        end == advanced \o again
    IN IF min > max THEN Failed(s, "invalid repetition count")
       ELSE IF min = 0 /\ max = 0 THEN [s2 EXCEPT !.bc = SubSeq(@, 1, at)]
       ELSE IF min = 0 /\ max \in {1, Infinite} THEN
           LET s3 == emit_insert(s2, at, << <<"split", Optional(greedy), back + Len(end)>> >> \o position)
           IN [s3 EXCEPT !.bc = @ \o end]
       ELSE IF min = 0 THEN
           LET s3 == emit_insert(s2, at, << <<"split", Optional(greedy), back + 2>>,
                                            <<"set_i32", 0, max>> >> \o position)
           IN Emit(s3, <<"loop_split", 0, max, -(back + 1), Repeating(greedy), check>>)
       ELSE IF min = 1 /\ max = Infinite /\ ~check THEN
           Emit(s1, <<"split", Repeating(greedy), -(len + 1)>>)
       ELSE LET s3 == emit_insert(s1, start, << <<"set_i32", 0, max>> >> \o position)
            IN IF min = max THEN Emit(s3, <<"loop", 0, -(back + 1)>>)
               ELSE Emit(s3, <<"loop_split", 0, max - min, -(back + 1), Repeating(greedy), check>>)

\* Bytes of the single instruction of a term if it is characters, else 0.
re_is_char(bc, start, end) ==
    IF end = start + 1 /\ bc[end][1] = "char" THEN Len(bc[end][2]) ELSE 0

\* Two neighbours in one instruction.  The second one is moved over its own
\* opcode from its last byte on, which is right when it has one byte.
Combined(b1, b2) ==
    LET moved == b1 \o <<Len(b2)>> \o b2   \* the opcode is char1 + length - 1
        n == Len(b1) + Len(b2)
    IN [i \in 1..n |-> IF i < n THEN moved[i] ELSE moved[i + 1]]

RECURSIVE re_parse_disjunction(_, _, _), re_parse_atom(_, _, _)

\* A term and its quantifier.
re_parse_term(s, t, f) ==
    IF t[1] # "quant" THEN re_parse_atom(s, t, f)
    ELSE IF t[5][1] \in {"start", "end", "boundary", "look", "quant"}
    THEN Failed(s, "nothing to repeat")
    ELSE re_parse_quantifier(re_parse_atom(s, t[5], f), Len(s.bc), s.caps, t[2], t[3], t[4])

re_parse_atom(s, t, f) ==
    CASE t[1] = "char" ->
           LET letter == t[2] \in (65..90) \cup (97..122)
               up == IF t[2] >= 97 THEN t[2] - 32 ELSE t[2]
           IN Emit(s, IF f.icase /\ letter
                      THEN <<"range8", << <<up, up + 1>>, <<up + 32, up + 33>> >>>>
                      ELSE <<"char", Utf8(t[2])>>)
      [] t[1] = "dot" -> Emit(s, IF f.dotall THEN <<"any">> ELSE <<"dot">>)
      [] t[1] = "set" ->
           Emit(s, IF t[2] \in {"s", "S"} THEN <<"space", t[2] = "S">>
                   ELSE re_range_optimize(re_emit_range_base(t[2]), FALSE))
      [] t[1] = "class" ->
           IF \E i \in DOMAIN t[2] : Len(t[2][i]) = 2 /\ t[2][i][2] < t[2][i][1]
           THEN Failed(s, "invalid class range")
           ELSE Emit(s, re_range_optimize(
                    FlattenSeq([i \in DOMAIN t[2] |-> ClassItem(t[2][i], f.icase)]), t[3]))
      [] t[1] = "start" -> Emit(s, <<"line_start", f.multi>>)
      [] t[1] = "end" -> Emit(s, <<"line_end", f.multi>>)
      [] t[1] = "boundary" -> Emit(s, <<"word_boundary", t[2]>>)
      [] t[1] = "group" -> re_parse_disjunction(s, t[2], f)
      [] t[1] = "capture" ->
           IF s.caps >= CaptureCountMax THEN Failed(s, "too many captures")
           ELSE LET body == re_parse_disjunction(
                        [Emit(s, <<"save", 0, s.caps>>) EXCEPT !.caps = @ + 1], t[2], f)
                IN Emit(body, <<"save", 1, s.caps>>)
      [] t[1] = "look" ->
           LET body == Emit(re_parse_disjunction(Emit(s, <<"lookahead", t[3], 0>>), t[2], f),
                            <<"lookahead_match", t[3]>>)
               at == Len(s.bc) + 1
           IN [body EXCEPT !.bc[at] = <<"lookahead", t[3], Len(body.bc) - at>>]
      [] t[1] = "backref" -> Emit(s, <<"back_reference", t[2], f.icase>>)

\* last is where the last term starts.
re_parse_alternative(s0, terms, f) ==
    FoldLeft(LAMBDA acc, t :
        LET start == Len(acc.s.bc)
            s == re_parse_term(acc.s, t, f)
            n1 == IF acc.last < 0 THEN 0 ELSE re_is_char(s.bc, acc.last, start)
            n2 == re_is_char(s.bc, start, Len(s.bc))
        IN IF n1 > 0 /\ n2 > 0 /\ n1 + n2 <= 4
           THEN [acc EXCEPT !.s = [s EXCEPT !.bc = Append(SubSeq(@, 1, acc.last),
                     <<"char", Combined(@[acc.last + 1][2], @[start + 1][2])>>)]]
           ELSE [s |-> s, last |-> start],
        [s |-> s0, last |-> -1], terms).s

re_parse_disjunction(s0, d, f) ==
    LET start == Len(s0.bc)
        Else(s, terms) ==
            LET len == Len(s.bc) - start
                s1 == Emit(emit_insert(s, start, << <<"split", "next", len + 1>> >>), <<"goto", 0>>)
                s2 == re_parse_alternative(s1, terms, f)
            IN [s2 EXCEPT !.bc[Len(s1.bc)] = <<"goto", Len(s2.bc) - Len(s1.bc)>>]
    IN FoldLeft(Else, re_parse_alternative(s0, d[1], f), Tail(d))

\* Registers are given out as on a stack; back references are checked.
re_compute_register_count(s) ==
    LET Is(i, ops) == s.bc[i][1] \in ops
        takes == {i \in DOMAIN s.bc : Is(i, {"set_i32", "set_char_pos"})}
        frees == {i \in DOMAIN s.bc : Is(i, {"check_advance", "loop", "loop_split"})}
        both == {i \in frees : Is(i, {"loop_split"}) /\ s.bc[i][6]}
        Upto(set, i) == Cardinality({k \in set : k <= i})
        size == [i \in DOMAIN s.bc |-> Upto(takes, i) - Upto(frees, i) - Upto(both, i)]
        registers == Max({0} \cup {size[i] : i \in DOMAIN s.bc})
        wrong == \E i \in DOMAIN s.bc : Is(i, {"back_reference"}) /\ s.bc[i][2] >= s.caps
        s1 == IF wrong THEN Failed(s, "back reference is out of range")
              ELSE IF registers > RegisterCountMax THEN Failed(s, "too many regexp registers") ELSE s
    IN [bc |-> <<>> \o [i \in DOMAIN s.bc |->
                  IF i \in takes THEN [s.bc[i] EXCEPT ![2] = size[i] - 1]
                  ELSE IF i \in frees THEN [s.bc[i] EXCEPT ![2] = size[i]] ELSE s.bc[i]],
        caps |-> s.caps, registers |-> registers, err |-> s1.err]

js_parse_regexp(p) ==
    LET search == IF p.sticky THEN <<>>
                  ELSE << <<"split", "goto", 2>>, <<"any">>, <<"goto", -3>> >>
        s0 == [bc |-> Append(search, <<"save", 0, 0>>), caps |-> 1, err |-> ""]
        s1 == Emit(Emit(re_parse_disjunction(s0, p.d, p), <<"save", 1, 0>>), <<"match">>)
    IN re_compute_register_count(s1)

CompiledPatterns == <<>> @@ [i \in DOMAIN Patterns |-> js_parse_regexp(Patterns[i])]

----------------------------------------------------------------------------
(* The interpreter.  The stack grows to the right: an undo entry is        *)
(* <<"undo", index, old value>>, a saved state <<type, pc, cptr, bp>>, and *)
(* bp is the place of the last saved state.                                *)

VARIABLES
    regexp,  \* what is executed, an index of Compiled
    text, pc, cptr, capture, stack, bp,
    rc       \* 1 match, 0 none, -1 exception, Running

vars == <<regexp, text, pc, cptr, capture, stack, bp, rc>>

Running == 2
Code == Compiled[regexp].bc
Ins == Code[pc]
Counters == 2 * Compiled[regexp].caps   \* the first register in capture

Init ==
    /\ regexp \in {i \in DOMAIN Patterns : Compiled[i].err = ""}
    /\ text \in Texts
    /\ pc = 1 /\ cptr = 0 /\ stack = <<>> /\ bp = 0 /\ rc = Running
    /\ capture = [i \in 0..(2 * Compiled[regexp].caps + Compiled[regexp].registers - 1) |->
                    IF i < 2 * Compiled[regexp].caps THEN -1 ELSE 0]

IsUndo(e) == e[1] = "undo"
Words(st) == 2 * Len(st) + Len(SelectSeq(st, LAMBDA e : ~IsUndo(e)))

\* JS_StackCheck fails.
Stops == rc' = -1 /\ stack' = <<>> /\ UNCHANGED <<regexp, text, pc, cptr, capture, bp>>

Fits(st) == Words(st) <= StackWords

\* Fault of Undone: the captures stay what the way given up has made them.
Undone_Not(n) == capture

\* The captures as they were when the stack had n entries.
Undone(n) ==
    [i \in DOMAIN capture |->
        LET saved == {k \in (n + 1)..Len(stack) : IsUndo(stack[k]) /\ stack[k][2] = i}
        IN IF saved = {} THEN capture[i] ELSE stack[Min(saved)][3]]

\* Back to the last saved state below b that is not a lookahead.
Backtrack(b) ==
    LET states == {k \in 1..b : stack[k][1] \notin {"undo", "lookahead"}}
        k == Max(states)
    IN IF states = {}
       THEN /\ rc' = 0 /\ stack' = <<>>
            /\ UNCHANGED <<regexp, text, pc, cptr, capture, bp>>
       ELSE /\ capture' = Undone(k)
            /\ pc' = stack[k][2] /\ cptr' = stack[k][3] /\ bp' = stack[k][4]
            /\ stack' = SubSeq(stack, 1, k - 1)
            /\ UNCHANGED <<regexp, text, rc>>
NoMatch == Backtrack(bp)

\* The next instruction, n bytes on.
Advance(n) ==
    /\ pc' = pc + 1 /\ cptr' = cptr + n
    /\ UNCHANGED <<regexp, text, capture, stack, bp, rc>>
Test(ok, n) == IF ok THEN Advance(n) ELSE NoMatch

Op(o) == rc = Running /\ Ins[1] = o
HasChar == cptr < Len(text)
Current == CharAt(text, cptr)
Size == CharLen(text[cptr + 1])
\* A character for which ok holds.
Consume(ok) == IF HasChar /\ ok THEN Advance(Size) ELSE NoMatch

\* SAVE_CAPTURE: the capture, its old value on the stack.
Pushed(st, cap, i) == Append(st, <<"undo", i, cap[i]>>)
\* SAVE_CAPTURE_CHECK: not again since the last saved state.
SavedOnce(st, cap, i) ==
    IF \E k \in (bp + 1)..Len(st) : st[k][2] = i THEN st ELSE Pushed(st, cap, i)

\* Next instruction with new captures and the stack st that can undo them.
Set(st, cap, there) ==
    IF ~Fits(st) THEN Stops
    ELSE /\ capture' = cap /\ stack' = st /\ pc' = there
         /\ UNCHANGED <<regexp, text, cptr, bp, rc>>

\* One way to go on is kept on the stack, the other one is taken.
Fork(type, there, here, st, cap) ==
    LET st1 == Append(st, <<type, there, cptr, bp>>) IN
    IF ~Fits(st1) THEN Stops
    ELSE /\ stack' = st1 /\ bp' = Len(st1) /\ pc' = here /\ capture' = cap
         /\ UNCHANGED <<regexp, text, cptr, rc>>
----------------------------------------------------------------------------
Match == Op("match") /\ rc' = 1 /\ stack' = <<>> /\ UNCHANGED <<regexp, text, pc, cptr, capture, bp>>

\* The states saved since the lookahead began are dropped, what they undo is
\* kept for whoever goes back further.
LookaheadMatch ==
    /\ Op("lookahead_match") /\ ~Ins[2]
    /\ LET k == Max({i \in 1..bp : stack[i][1] = "lookahead"})
           kept == SelectSeq(SubSeq(stack, k + 1, Len(stack)), IsUndo)
       IN /\ pc' = stack[k][2] /\ cptr' = stack[k][3] /\ bp' = stack[k][4]
          /\ stack' = IF k = 1 THEN <<>> ELSE SubSeq(stack, 1, k - 1) \o kept
          /\ UNCHANGED <<regexp, text, capture, rc>>

\* Everything since the negative lookahead is undone, and it is no match.
NegativeLookaheadMatch ==
    /\ Op("lookahead_match") /\ Ins[2]
    /\ Backtrack(stack[Max({i \in 1..bp : stack[i][1] = "negative"})][4])

Char ==
    /\ Op("char")
    /\ LET n == Len(Ins[2]) IN
       Test(cptr + n <= Len(text) /\ SubSeq(text, cptr + 1, cptr + n) = Ins[2], n)

Split ==
    /\ Op("split")
    /\ LET goto == pc + 1 + Ins[3] IN
       IF Ins[2] = "next" THEN Fork("split", goto, pc + 1, stack, capture)
       ELSE Fork("split", pc + 1, goto, stack, capture)

Lookahead ==
    /\ Op("lookahead")
    /\ Fork(IF Ins[2] THEN "negative" ELSE "lookahead", pc + 1 + Ins[3], pc + 1, stack, capture)

Goto ==
    /\ Op("goto") /\ pc' = pc + 1 + Ins[2]
    /\ UNCHANGED <<regexp, text, cptr, capture, stack, bp, rc>>

LineStart ==
    /\ Op("line_start")
    /\ Test(cptr = 0 \/ (Ins[2] /\ CharBefore(text, cptr) \in LineTerminators), 0)
LineEnd ==
    /\ Op("line_end")
    /\ Test(~HasChar \/ (Ins[2] /\ Current \in LineTerminators), 0)

Dot == Op("dot") /\ Consume(Current \notin LineTerminators)
AnyChar == Op("any") /\ Consume(TRUE)
Space == Op("space") /\ Consume(InRange(char_range_s, Current) # Ins[2])
Range8 == Op("range8") /\ Consume(InRange8(Ins[2], Current))
RangeOp == Op("range") /\ Consume(InRange(Ins[2], Current))

Save ==
    /\ Op("save")
    /\ LET i == 2 * Ins[3] + Ins[2] IN
       Set(Pushed(stack, capture, i), [capture EXCEPT ![i] = cptr], pc + 1)

SaveReset ==
    /\ Op("save_reset")
    /\ LET is == Positions(2 * Ins[2], 2 * Ins[3] + 1) IN
       Set(stack \o [k \in DOMAIN is |-> <<"undo", is[k], capture[is[k]]>>],
           [i \in DOMAIN capture |-> IF Contains(is, i) THEN 0 ELSE capture[i]], pc + 1)

\* A counter or a position into a register.
SetRegister ==
    /\ Op("set_i32") \/ Op("set_char_pos")
    /\ LET i == Counters + Ins[2] IN
       Set(SavedOnce(stack, capture, i),
           [capture EXCEPT ![i] = IF Ins[1] = "set_i32" THEN Ins[3] ELSE cptr], pc + 1)

Loop ==
    /\ Op("loop")
    /\ LET i == Counters + Ins[2]
           n == capture[i] - 1
       IN Set(SavedOnce(stack, capture, i), [capture EXCEPT ![i] = n],
              IF n # 0 THEN pc + 1 + Ins[3] ELSE pc + 1)

\* One round less; back if the minimum is not reached, no match if the round
\* beyond it did not advance, else one more round or not.
LoopSplit ==
    /\ Op("loop_split")
    /\ LET i == Counters + Ins[2]
           n == capture[i] - 1
           limit == Ins[3]
           goto == pc + 1 + Ins[4]
           st == SavedOnce(stack, capture, i)
           cap == [capture EXCEPT ![i] = n]
       IN IF n > limit THEN Set(st, cap, goto)
          ELSE IF Ins[6] /\ capture[i + 1] = cptr /\ n # limit THEN NoMatch
          ELSE IF n = 0 THEN Set(st, cap, pc + 1)
          ELSE IF Ins[5] = "next" THEN Fork("split", goto, pc + 1, st, cap)
          ELSE Fork("split", pc + 1, goto, st, cap)

CheckAdvance ==
    /\ Op("check_advance")
    /\ Test(capture[Counters + Ins[2]] # cptr, 0)

WordBoundary ==
    /\ Op("word_boundary")
    /\ LET before == cptr > 0 /\ is_word_char(CharBefore(text, cptr))
           after == HasChar /\ is_word_char(Current)
       IN Test((before # after) # Ins[2], 0)

\* A group that took part has to come again; one that did not matches nothing.
BackReference ==
    /\ Op("back_reference")
    /\ LET a == capture[2 * Ins[2]]
           b == capture[2 * Ins[2] + 1]
           Canon(c) == IF Ins[3] THEN lre_canonicalize(c) ELSE c
       IN IF a = -1 \/ b = -1 THEN Advance(0)
          ELSE Test(/\ cptr + b - a <= Len(text)
                    /\ \A i \in 1..(b - a) : Canon(text[a + i]) = Canon(text[cptr + i]),
                    IF b > a THEN b - a ELSE 0)

Next ==
    \/ Match \/ LookaheadMatch \/ NegativeLookaheadMatch \/ Char \/ Split \/ Lookahead
    \/ Goto \/ LineStart \/ LineEnd \/ Dot \/ AnyChar \/ Space \/ Range8 \/ RangeOp \/ Save
    \/ SaveReset \/ SetRegister \/ Loop \/ LoopSplit \/ CheckAdvance \/ WordBoundary
    \/ BackReference

Spec == Init /\ [][Next]_vars /\ WF_vars(Next)
----------------------------------------------------------------------------
Letters(l) ==
    LET Below(tab) == {c \in 0..255 : InRange(tab, c)}
    IN CASE l = "d" -> 48..57
         [] l = "s" -> Below(char_range_s)
         [] l = "w" -> Below(char_range_w)
         [] l = "D" -> (0..255) \ (48..57)
         [] l = "S" -> (0..255) \ Below(char_range_s)
         [] l = "W" -> (0..255) \ Below(char_range_w)

Reference == INSTANCE Matching

\* The type of the state; the position is never inside a character.
TypeOK ==
    /\ regexp \in DOMAIN Patterns /\ text \in Texts /\ pc \in DOMAIN Code
    /\ cptr \in 0..Len(text) /\ (cptr = Len(text) \/ text[cptr + 1] \notin 128..191)
    /\ rc = Running => bp \in 0..Len(stack) /\ (bp = 0 \/ ~IsUndo(stack[bp]))
    /\ rc \in {Running, 1, 0, -1}

\* An alternative in which a character of several bytes comes right after
\* others, four bytes in all at most: Combined leaves bytes there that are in no
\* text.  It means a character that there is not.
NoCharacter == <<"class", <<>>, FALSE>>
Spoilt(terms, f) ==
    LET Bytes(t) == IF t[1] = "char" /\ ~(f.icase /\ t[2] \in (65..90) \cup (97..122))
                    THEN Len(Utf8(t[2])) ELSE 0
        After(a, b) == IF a.n > 0 /\ b > 0 /\ a.n + b <= 4
                       THEN [n |-> a.n + b, spoilt |-> a.spoilt \/ b > 1]
                       ELSE [a EXCEPT !.n = b]
    IN FoldLeft(LAMBDA a, t : After(a, Bytes(t)), [n |-> 0, spoilt |-> FALSE], terms).spoilt
RECURSIVE Understood(_, _)
Understood(d, f) ==
    LET InTerm(t) ==
            CASE t[1] \in {"group", "capture", "look"} -> [t EXCEPT ![2] = Understood(@, f)]
              [] t[1] = "quant" -> [t EXCEPT ![5] = Understood(<<<<@>>>>, f)[1][1]]
              [] OTHER -> t
        InAll(a) == [i \in DOMAIN a |-> InTerm(a[i])]
    IN [k \in DOMAIN d |-> IF Spoilt(d[k], f) THEN Append(InAll(d[k]), NoCharacter) ELSE InAll(d[k])]

\* What lre_exec finds, unless the stack overflows, is what the pattern means:
\* the same match, of several the one that comes first, with the same groups.
\* A group that took no part is unset or, once save_reset was there, the empty
\* text at 0.  An alternative with a character of several bytes right after
\* another one matches nothing, whatever it means.
MatchesAsWritten ==
    rc \in {0, 1} =>
        LET p == Patterns[regexp]
            m == Reference!Meaning([p EXCEPT !.d = Understood(@, p)], text, 0)
        IN /\ rc = IF m = <<>> THEN 0 ELSE 1
           /\ \A k \in DOMAIN m :
                LET found == <<capture[2 * k - 2], capture[2 * k - 1]>>
                IN IF m[k] = <<>> THEN found \in {<<-1, -1>>, <<0, 0>>} ELSE found = m[k]
=============================================================================
