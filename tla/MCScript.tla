------------------------------ MODULE MCScript ------------------------------
(* Programs of Script for TLC.                                             *)
EXTENDS Script

\* Words for the trees of Codegen.
I(n) == <<"push", <<"int", n>>>>
X(x) == <<"id", x>>
Set(x, e) == <<"assign", "=", X(x), e>>
Do(e) == <<"expr", <<e>>>>
Var(x, e) == <<"var", << <<x, <<e>>>> >>>>
Lt(a, b) == <<"binary", "lt", a, b>>
Add(a, b) == <<"binary", "add", a, b>>
Inc(x) == <<"post", "inc", X(x)>>
Fun(name, params, body) == [name |-> name, params |-> params, mentions |-> {}, body |-> body]
Calls(f) == <<"call", X(f), <<>>>>

\* What was passed, in order, is written into the array r.
Note(e) == Do(<<"assign", "=", <<"at", X("r"), <<"dot", X("r"), "length">>>>, e>>)
Mark(n) == Note(I(n))

\* Ways to put a statement into another one; loops go twice around.  x is a
\* variable of the structure.
Nestings(x, s) ==
    [if |-> <<"if", Lt(X(x), I(1)), s, <<Mark(1)>>>>,
     while |-> <<"while", Lt(Inc(x), I(2)), s>>,
     do |-> <<"do", s, Lt(<<"pre", "inc", X(x)>>, I(2))>>,
     for |-> <<"for", <<"expr", <<Set(x, I(0))>>>>, <<Lt(X(x), I(2))>>, <<Inc(x)>>, s>>,
     forof |-> <<"forof", "for_of_start", <<"var", x>>, <<"array", <<I(1), I(2)>>>>, s>>,
     forin |-> <<"forof", "for_in_start", X(x), <<"object", << <<"k", I(1)>>, <<"l", I(2)>> >>>>, s>>,
     switch |-> <<"switch", X(x), << <<"case", I(7)>>, <<"case", X(x)>>, <<"stmt", s>>,
                                     <<"default">>, <<"stmt", Mark(1)>>, <<"case", I(1)>>,
                                     <<"stmt", Mark(2)>> >>>>,
     label |-> <<"label", "b", <<"block", <<s, Mark(1)>>>>>>,
     finally |-> <<"try", <<s, Mark(1)>>, <<>>, <<<<Mark(2)>>>>>>,
     catch |-> <<"try", <<Mark(1)>>, <<"e" \o x, <<s>>>>, <<>>>>,
     caught |-> <<"try", <<s>>, <<"e" \o x, <<Mark(1)>>>>, <<<<Mark(2)>>>>>>,
     infinally |-> <<"try", <<Mark(1)>>, <<>>, <<<<s, Mark(2)>>>>>>]

Leaves ==
    [plain |-> Mark(3), break |-> <<"break", None>>, continue |-> <<"continue", None>>,
     breaka |-> <<"break", "a">>, continuea |-> <<"continue", "a">>,
     return |-> <<"return", <<I(9)>>>>, throw |-> <<"throw", I(8)>>]

\* Two structures around a leaf, in a loop with a name, in a function.
Nested(k1, k2, l) ==
    LET s == <<"block", <<Mark(3), Nestings("y", Leaves[l])[k2]>>>>
        body == <<"block", <<Nestings("x", s)[k1], Mark(1)>>>>
        f == Fun("f", <<>>, << Var("x", I(0)), Var("y", I(0)),
               <<"label", "a", <<"for", Var("i", I(0)), <<Lt(X("i"), I(2))>>, <<Inc("i")>>, body>>>>,
               <<"return", <<X("i")>>>> >>)
    IN << <<"decl", f>>, Var("r", <<"array", <<>>>>),
          <<"try", <<Note(Calls("f"))>>, <<"e", <<Note(X("e"))>>>>, <<>>>>,
          Do(X("r")) >>

Kinds == DOMAIN Nestings("x", <<"empty">>)


----------------------------------------------------------------------------
\* What can be assigned to, and the ways to do it.
Places ==
    [arg |-> X("p"), local |-> X("v"), outer |-> X("w"), global |-> X("g"), later |-> X("u"),
     field |-> <<"dot", X("o"), "k">>, length |-> <<"dot", X("o"), "length">>,
     element |-> <<"at", X("a"), Inc("v")>>, nested |-> <<"at", <<"dot", X("o"), "a">>, I(1)>>]

Changes(e) ==
    [set |-> <<"assign", "=", e, <<"pre", "inc", X("v")>>>>, add |-> <<"assign", "add", e, I(5)>>,
     multiply |-> <<"assign", "mul", e, <<"paren", <<I(2), I(3)>>>>>>,
     post |-> <<"post", "inc", e>>, pre |-> <<"pre", "dec", e>>,
     read |-> <<"logic", "and", <<e, <<"unary", "neg", e>>>>>>,
     type |-> <<"typeof", e>>, delete |-> <<"delete", e>>]

\* As a statement, a value, the first of two, and a condition.
Uses(e) ==
    [statement |-> Do(e), value |-> Note(e),
     first |-> Note(<<"paren", <<e, I(4)>>>>),
     condition |-> Note(<<"cond", e, X("v"), <<"unary", "lnot", e>>>>)]

Changed(x, c, u) ==
    LET e == Changes(Places[x])[c]
        see == <<"array", <<X("p"), X("v"), X("w"), X("g"), X("u"), <<"dot", X("o"), "k">>,
                            <<"dot", X("o"), "length">>, <<"at", X("a"), I(0)>>,
                            <<"at", X("a"), I(1)>>, <<"at", <<"dot", X("o"), "a">>, I(1)>>>>>>
        \* w is a variable of the function around f
        f == Fun("f", <<"p">>,
               << Var("v", I(0)), Var("a", <<"array", <<I(1), I(2), I(3), I(4)>>>>),
                  Var("o", <<"object", << <<"k", I(1)>>, <<"length", I(2)>>, <<"a", X("a")>> >>>>),
                  Do(<<"assign", "=", X("u"), I(1)>>), Uses(e)[u], Var("u", I(3)),
                  <<"return", <<see>>>> >>)
        h == Fun("h", <<>>, << Var("w", I(7)), Var("s", <<"call", <<"fn", f>>, <<I(2)>>>>),
               <<"for", Var("i", I(0)), <<Lt(X("i"), <<"dot", X("s"), "length">>)>>,
                        <<Inc("i")>>, Note(<<"at", X("s"), X("i")>>)>>, Note(X("w")) >>)
    IN << Var("g", I(5)), Var("r", <<"array", <<>>>>), <<"decl", h>>, Do(Calls("h")), Do(X("r")) >>


----------------------------------------------------------------------------
\* Functions: each program logs what it sees in r.
Declare(f) == <<"decl", f>>
Result(e) == <<"return", <<e>>>>
Lambda(params, body) == <<"fn", Fun("", params, body)>>
Mentioning(f, names) == [f EXCEPT !.mentions = names]
Invoke(f, args) == <<"call", f, args>>
Method(o, name, args) == Invoke(<<"dot", o, name>>, args)

T(n) == Invoke(X("t"), <<I(n)>>)

BitOps == <<"and", "or", "xor", "shl", "shr", "sar">>
In(name, o) == <<"binary", "in", <<"push", <<"string", name>>>>, o>>

FunctionPrograms ==
    [shared |-> << \* two closures share a variable that outlives its frame
        Declare(Fun("f", <<"p">>, << Var("v", I(1)),
          Result(<<"object", << <<"get", Lambda(<<>>, <<Result(Add(X("v"), X("p")))>>)>>,
                             <<"inc", Lambda(<<"d">>, << Do(<<"assign", "add", X("v"), X("d")>>),
                                                    Do(<<"pre", "inc", X("p")>>) >>)>> >> >>) >>)),
        Var("o", Invoke(X("f"), <<I(2)>>)), Var("q", Invoke(X("f"), <<I(3), I(4)>>)),
        Do(Method(X("o"), "inc", <<I(5)>>)),
        Note(Method(X("o"), "get", <<>>)), Note(Method(X("q"), "get", <<>>)) >>,
     loop |-> << \* closures made in a loop close over one variable
        Declare(Fun("f", <<>>, << Var("a", <<"array", <<>>>>),
          <<"for", Var("i", I(0)), <<Lt(X("i"), I(2))>>, <<Inc("i")>>,
            Do(<<"assign", "=", <<"at", X("a"), X("i")>>, Lambda(<<>>, <<Result(Inc("i"))>>)>>)>>,
          Note(X("i")), Result(X("a")) >>)),
        Var("b", Calls("f")), Note(Invoke(<<"at", X("b"), I(0)>>, <<>>)),
        Note(Invoke(<<"at", X("b"), I(1)>>, <<>>)) >>,
     inner |-> << \* a variable of the function around the function around
        Declare(Fun("f", <<"p">>, <<
          Declare(Fun("g", <<>>, <<
            Declare(Fun("h", <<>>, << Note(X("p")), Do(<<"assign", "add", X("p"), X("v")>>),
                                   Result(X("p")) >>)),
            Var("v", I(2)), Result(X("h")) >>)),
          Do(<<"assign", "=", X("p"), Add(X("p"), I(1))>>),
          Result(Invoke(Calls("g"), <<>>)) >>)),
        Note(Invoke(X("f"), <<I(3)>>)) >>,
     thrown |-> << \* a reference outlives a frame that an exception ends
        Var("k", I(0)),
        Declare(Fun("f", <<"p">>, << Do(Set("k", Lambda(<<>>, <<Result(Inc("p"))>>))),
          <<"try", <<<<"throw", I(1)>>>>, <<>>, <<<<Note(Inc("p"))>>>>>> >>)),
        <<"try", <<Do(Invoke(X("f"), <<I(5)>>))>>, <<"e", <<Note(X("e"))>>>>, <<>>>>,
        Note(Calls("k")), Note(Calls("k")) >>,
     recursion |-> <<
        Declare(Fun("f", <<"n">>, << Do(Set("n", Add(X("n"), <<"unary", "neg", I(1)>>))), Note(X("n")),
          Result(<<"cond", Lt(X("n"), I(1)), X("n"), Add(X("n"), Invoke(X("f"), <<X("n")>>))>>) >>)),
        Note(Invoke(X("f"), <<I(3)>>)) >>,
     self |-> << \* the name of a function expression, and its arguments
        Var("h", <<"fn", Mentioning(Fun("f", <<"n">>, << Note(<<"dot", X("arguments"), "length">>),
          Result(<<"cond", X("n"), Invoke(X("f"), <<Add(X("n"), <<"unary", "neg", I(1)>>), I(7)>>),
                        <<"at", X("arguments"), I(1)>>>>) >>), {"arguments", "self"})>>),
        Note(Invoke(X("h"), <<I(2)>>)) >>,
     constructor |-> <<
        Declare(Fun("C", <<"p">>, << Note(<<"binary", "strict_eq", <<"target">>, X("C")>>),
          <<"if", <<"binary", "strict_neq", <<"this">>, <<"void", I(0)>>>>,
            Do(<<"assign", "=", <<"dot", <<"this">>, "a">>, X("p")>>), <<>>>>,
          <<"if", Lt(X("p"), I(0)), Result(<<"object", << <<"a", I(9)>> >>>>), <<>>>>,
          Result(I(4)) >>)),
        Do(<<"assign", "=", <<"dot", X("C"), "prototype">>,
             <<"object", << <<"m", Lambda(<<>>, <<Result(Add(<<"dot", <<"this">>, "a">>, I(1)))>>)>> >>>>>>),
        Var("o", <<"new", X("C"), <<I(2)>>>>), Note(<<"dot", X("o"), "a">>),
        Note(Method(X("o"), "m", <<>>)), Do(<<"assign", "=", <<"dot", X("o"), "a">>, I(5)>>),
        Note(Invoke(<<"at", X("o"), <<"push", <<"string", "m">>>>>>, <<>>)),
        Note(<<"dot", <<"new", X("C"), <<<<"unary", "neg", I(1)>>>>>>, "a">>),
        Note(Invoke(X("C"), <<I(3)>>)), Note(<<"typeof", X("C")>>) >>,
     hoisting |-> << \* declarations count before they are reached
        Note(Calls("f")), Note(<<"typeof", X("late")>>), Note(<<"typeof", X("never")>>),
        Declare(Fun("f", <<>>, << Note(<<"typeof", X("g")>>), Note(X("v")), Var("v", I(1)),
                               Declare(Fun("g", <<>>, <<>>)), Result(Calls("g")) >>)),
        Declare(Fun("f", <<>>, << Note(<<"typeof", X("g")>>), Note(X("v")), Var("v", I(2)),
                               Declare(Fun("g", <<>>, <<>>)), Result(Add(X("v"), I(1))) >>)),
        Var("late", I(1)) >>,
     errors |-> << Var("v", I(1)), \* in a name, a call, a field and an iteration
        <<"try", <<Note(X("never"))>>, <<"e1", <<Note(X("e1"))>>>>, <<>>>>,
        <<"try", <<Do(Invoke(<<"dot", X("r"), "length">>, <<Set("v", I(2))>>))>>,
                 <<"e2", <<Note(X("e2"))>>>>, <<>>>>,
        <<"try", <<Do(<<"dot", <<"void", I(0)>>, "x">>)>>, <<"e3", <<Note(X("e3"))>>>>, <<>>>>,
        <<"try", <<<<"forof", "for_of_start", <<"var", "z">>, <<"object", <<>>>>, Mark(1)>>>>,
                 <<"e4", <<Note(X("e4"))>>>>, <<>>>>,
        <<"try", <<Do(Set("never", I(1)))>>, <<"e5", <<Note(X("e5"))>>>>, <<>>>> >>,
     bits |-> << \* of numbers of both signs
        Declare(Fun("f", <<"a", "b">>,
          [i \in 1 .. Len(BitOps) |-> Note(<<"binary", BitOps[i], X("a"), X("b")>>)])),
        Do(Invoke(X("f"), <<I(12), I(10)>>)), Do(Invoke(X("f"), <<I(-6), I(35)>>)) >>,
     parts |-> << \* of one number
        Note(<<"unary", "not", I(12)>>), Note(<<"binary", "mod", I(35), I(3)>>),
        Do(Set("v", I(5))), Do(<<"assign", "shl", X("v"), I(2)>>), Note(X("v")), Var("v", I(0)) >>,
     literals |-> << \* prototypes, and what is found along them
        Var("p", <<"object", << <<"k", I(1)>> >>>>),
        Var("o", <<"object", << <<"l", I(2)>>, <<"__proto__", X("p")>>, <<"m", I(3)>> >>>>),
        Var("q", <<"object", << <<"__proto__", I(4)>> >>>>),
        Note(<<"dot", X("o"), "k">>), Note(<<"dot", X("q"), "k">>),
        Note(In("k", X("o"))), Note(In("m", X("o"))), Note(In("m", X("p"))), Note(In("k", X("q"))),
        <<"try", <<Note(In("k", I(1)))>>, <<"e", <<Note(X("e"))>>>>, <<>>>> >>,
     chain |-> << \* short cuts leave the rest out
        Declare(Fun("t", <<"x">>, <<Note(X("x")), Result(X("x"))>>)),
        Note(<<"logic", "and", <<T(1), T(0), T(2)>>>>), Note(<<"logic", "or", <<T(0), T(3), T(4)>>>>),
        Note(<<"cond", <<"logic", "or", <<<<"logic", "and", <<T(1), T(2)>>>>, T(5)>>>>, T(6), T(7)>>) >>]

\* What a program comes to: the value of the last statement that has one.
Results ==
    [expression |-> Do(I(3)), none |-> <<"empty">>, declared |-> Var("z", I(3)),
     break |-> <<"break", None>>, breaka |-> <<"block", <<Do(I(4)), <<"break", "a">>>>>>,
     continue |-> <<"block", <<Do(I(5)), <<"continue", "a">>>>>>, throw |-> <<"throw", I(6)>>]
Completion(k, l) ==
    << Var("r", <<"array", <<>>>>), Var("x", I(0)), Do(I(1)),
       <<"label", "a", <<"for", Var("i", I(0)), <<Lt(X("i"), I(2))>>, <<Inc("i")>>,
           <<"block", <<Do(I(2)), Nestings("x", Results[l])[k]>>>>>>>> >>

Families ==
    ({"nested"} \X {"forof", "finally", "caught"} \X Kinds \X (DOMAIN Leaves \ {"plain"}))
    \cup ({"nested"} \X {"switch"} \X Kinds \X {"break", "continue"})
    \cup {k \in {"change"} \X (DOMAIN Places) \X (DOMAIN Changes(X("v"))) \X (DOMAIN Uses(X("v"))) :
            /\ k[3] = "delete" => k[2] \in {"field", "length"}
            /\ k[2] \notin {"local", "field", "element"} => k[4] = "value"}
    \cup ({"function"} \X (DOMAIN FunctionPrograms) \X {""} \X {""})
    \cup ({"result"} \X (Kinds \ {"finally", "caught", "infinally"}) \X (DOMAIN Results) \X {""})

MCPrograms ==
    [k \in Families |->
       CASE k[1] = "nested" -> Nested(k[2], k[3], k[4])
         [] k[1] = "change" -> Changed(k[2], k[3], k[4])
         [] k[1] = "function" ->
              <<Var("r", <<"array", <<>>>>)>> \o FunctionPrograms[k[2]] \o <<Do(X("r"))>>
         [] k[1] = "result" -> Completion(k[2], k[3])]

=============================================================================
