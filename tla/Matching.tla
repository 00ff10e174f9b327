------------------------------ MODULE Matching ------------------------------
(***************************************************************************)
(* What a regular expression means: the matches of a tree, in the order in *)
(* which they are tried, without instructions and without a stack.         *)
(* The trees are those of RegExp.                                          *)
(***************************************************************************)
EXTENDS Integers, SequencesExt

CONSTANTS
    CharAt(_, _), CharBefore(_, _), CharLen(_),   \* texts as bytes
    Letters(_)                                    \* the characters of \d, \w, ...

Infinite == 2^30 - 1
Unset == <<>>

Ends == {10, 13}
Word == Letters("w")
Lower(c) == IF c \in 65..90 THEN c + 32 ELSE c

\* The captures of a tree, in the order of their parentheses, are numbered
\* from n; the result is the first number that is free.
RECURSIVE After(_, _), AfterAll(_, _)
AfterAll(d, n) == FoldLeft(LAMBDA m, a : FoldLeft(LAMBDA k, t : After(t, k), m, a), n, d)
After(t, n) ==
    CASE t[1] = "capture" -> AfterAll(t[2], n + 1)
      [] t[1] \in {"group", "look"} -> AfterAll(t[2], n)
      [] t[1] = "quant" -> After(t[5], n)
      [] OTHER -> n

Member(c, item) == IF Len(item) = 1 THEN c \in Letters(item[1]) ELSE c \in item[1]..item[2]
InClass(c, items, icase) ==
    \E i \in DOMAIN items :
        \/ Member(c, items[i])
        \/ icase /\ c \in (65..90) \cup (97..122)
             /\ Member(IF c < 97 THEN c + 32 ELSE c - 32, items[i])

\* A result is [at, caps].  All those of a tree from the result r, best first;
\* n is the number of its first capture, f has the flags.
RECURSIVE OfAny(_, _, _, _, _), OfAll(_, _, _, _, _), Of(_, _, _, _, _),
          Rounds(_, _, _, _, _, _)

Then(rs, F(_)) == FlattenSeq([i \in DOMAIN rs |-> F(rs[i])])

OfAny(d, x, r, n, f) ==
    IF d = <<>> THEN <<>>
    ELSE OfAll(d[1], x, r, n, f) \o OfAny(Tail(d), x, r, AfterAll(<<d[1]>>, n), f)

OfAll(a, x, r, n, f) ==
    IF a = <<>> THEN <<r>>
    ELSE Then(Of(a[1], x, r, n, f), LAMBDA q : OfAll(Tail(a), x, q, After(a[1], n), f))

\* Rounds of the quantifier q from r; the captures inside are unset in every
\* round, and a round that is not needed has to advance.
Rounds(q, done, x, r, n, f) ==
    LET inside == n..(After(q[5], n) - 1)
        fresh == [at |-> r.at, caps |-> <<>> \o [k \in DOMAIN r.caps |->
                                            IF k \in inside THEN Unset ELSE r.caps[k]]]
        more == Then(Of(q[5], x, fresh, n, f), LAMBDA e :
                    IF e.at = r.at /\ done >= q[2] THEN <<>> ELSE Rounds(q, done + 1, x, e, n, f))
    IN IF done >= q[3] THEN <<r>>
       ELSE IF done < q[2] THEN more
       ELSE IF q[4] THEN Append(more, r) ELSE <<r>> \o more

Of(t, x, r, n, f) ==
    LET has == r.at < Len(x)
        c == CharAt(x, r.at)
        before == r.at > 0 /\ CharBefore(x, r.at) \in Word
        after == has /\ c \in Word
        If(p) == IF p THEN <<r>> ELSE <<>>
        One(p) == IF has /\ p THEN <<[r EXCEPT !.at = @ + CharLen(x[@ + 1])]>> ELSE <<>>
        Same(b) == IF f.icase THEN Lower(b) ELSE b
    IN CASE t[1] = "char" -> One(Same(c) = Same(t[2]))
         [] t[1] = "dot" -> One(f.dotall \/ c \notin Ends)
         [] t[1] = "set" -> One(c \in Letters(t[2]))
         [] t[1] = "class" -> One(InClass(c, t[2], f.icase) # t[3])
         [] t[1] = "start" -> If(r.at = 0 \/ (f.multi /\ CharBefore(x, r.at) \in Ends))
         [] t[1] = "end" -> If(~has \/ (f.multi /\ c \in Ends))
         [] t[1] = "boundary" -> If((before # after) # t[2])
         [] t[1] = "group" -> OfAny(t[2], x, r, n, f)
         [] t[1] = "capture" ->
              Then(OfAny(t[2], x, r, n + 1, f), LAMBDA e :
                   <<[e EXCEPT !.caps[n] = <<r.at, e.at>>]>>)
         [] t[1] = "look" ->
              LET es == OfAny(t[2], x, r, n, f)
              IN IF t[3] THEN If(es = <<>>)
                 ELSE IF es = <<>> THEN <<>> ELSE <<[r EXCEPT !.caps = es[1].caps]>>
         [] t[1] = "backref" ->
              LET k == r.caps[t[2]] IN
              IF k = Unset THEN <<r>>
              ELSE LET len == k[2] - k[1]
                   IN IF /\ r.at + len <= Len(x)
                         /\ \A i \in 1..len : Same(x[k[1] + i]) = Same(x[r.at + i])
                      THEN <<[r EXCEPT !.at = @ + len]>> ELSE <<>>
         [] t[1] = "quant" -> Rounds(t, 0, x, r, n, f)

\* The first place where the pattern p matches the text x, from the byte at:
\* <<the range of each capture>>, or <<>>.
RECURSIVE Meaning(_, _, _)
Meaning(p, x, at) ==
    LET none == <<>> \o [k \in 1..(AfterAll(p.d, 1) - 1) |-> Unset]
        Best(rs) == IF rs # <<>> THEN << <<at, rs[1].at>> >> \o rs[1].caps
                    ELSE IF p.sticky \/ at >= Len(x) THEN <<>>
                    ELSE Meaning(p, x, at + CharLen(x[at + 1]))
    IN Best(OfAny(p.d, x, [at |-> at, caps |-> none], 1, p))
=============================================================================
