------------------------------- MODULE Meaning -------------------------------
(***************************************************************************)
(* What a program of Codegen means, read from its tree as ECMAScript does, *)
(* without code, stack or frames: the reference that the compiled program  *)
(* is compared with.                                                       *)
(*                                                                         *)
(* A store s has cells (values of variables), heap (objects) and globals   *)
(* (name -> cell).  An expression gives [s, x, v]: x says that v was       *)
(* thrown.  A statement gives [s, t, v, l]: how it ended, t in "normal",   *)
(* "break", "continue", "return" and "throw", its value and a label.       *)
(***************************************************************************)
EXTENDS Integers, SequencesExt

LOCAL Undef == <<"undefined">>
LOCAL Nil == <<"empty">>

\* Values and exceptions.
Gives(s, v) == [s |-> s, x |-> FALSE, v |-> v]
Throws(s, v) == [s |-> s, x |-> TRUE, v |-> <<"string", v>>]
Then(r, Next(_, _)) == IF r.x THEN r ELSE Next(r.s, r.v)

Truth(v) == v \notin {Undef, <<"bool", FALSE>>, <<"int", 0>>, <<"string", "">>}

New1(s, o) == [s EXCEPT !.heap = Append(@, o)]
NewCell(s, v) == [s EXCEPT !.cells = Append(@, v)]

\* 0 if there is no such variable.
CellOf(s, env, x) ==
    IF x \in DOMAIN env.vars THEN env.vars[x]
    ELSE IF x \in DOMAIN s.globals THEN s.globals[x] ELSE 0

RECURSIVE Property(_, _, _)
Property(s, k, name) ==
    LET o == s.heap[k]
        i == SelectInSeq(o.props, LAMBDA p : p[1] = name)
    IN IF i # 0 THEN o.props[i][2]
       ELSE IF o.proto # 0 THEN Property(s, o.proto, name) ELSE Undef

\* An object that has the name, or the next one that does.
RECURSIVE HasOrInherits(_, _, _)
HasOrInherits(s, k, name) ==
    k # 0 /\ (name \in {s.heap[k].props[i][1] : i \in DOMAIN s.heap[k].props}
                \/ HasOrInherits(s, s.heap[k].proto, name))

IsRef(v) == v[1] = "ref"
IsArr(s, v) == IsRef(v) /\ s.heap[v[2]].kind = "array"

GetProp(s, v, key) ==
    IF v = Undef THEN Throws(s, "TypeError")
    ELSE Gives(s,
      IF IsArr(s, v) /\ key[1] = "int"
      THEN IF key[2] \in 0 .. Len(s.heap[v[2]].elements) - 1
           THEN s.heap[v[2]].elements[key[2] + 1] ELSE Undef
      ELSE IF IsArr(s, v) /\ key[2] = "length" THEN <<"int", Len(s.heap[v[2]].elements)>>
      ELSE Property(s, v[2], key[2]))

PutProp(s, v, key, x) ==
    LET k == v[2]
        o == s.heap[k]
        i == SelectInSeq(o.props, LAMBDA p : p[1] = key[2])
    IN IF v = Undef THEN Throws(s, "TypeError")
       ELSE Gives([s EXCEPT !.heap[k] =
              IF o.kind = "array" /\ key[1] = "int"
              THEN [o EXCEPT !.elements = IF key[2] < Len(@) THEN [@ EXCEPT ![key[2] + 1] = x]
                                          ELSE Append(@, x)]
              ELSE IF i = 0 THEN [o EXCEPT !.props = Append(@, <<key[2], x>>)]
              ELSE [o EXCEPT !.props[i] = <<key[2], x>>]], x)

----------------------------------------------------------------------------
(* Declarations are found before a function runs.                          *)

RECURSIVE VarsOf(_)
VarsIn(sts) == UNION {VarsOf(sts[i]) : i \in DOMAIN sts}
VarsOf(st) ==
    CASE st[1] = "var" -> {st[2][i][1] : i \in DOMAIN st[2]}
      [] st[1] = "block" -> VarsIn(st[2])
      [] st[1] = "if" -> VarsOf(st[3]) \cup VarsIn(st[4])
      [] st[1] = "while" -> VarsOf(st[3])
      [] st[1] = "do" -> VarsOf(st[2])
      [] st[1] = "for" -> (IF st[2] = <<>> THEN {} ELSE VarsOf(st[2])) \cup VarsOf(st[5])
      [] st[1] = "forof" -> (IF st[3][1] = "var" THEN {st[3][2]} ELSE {}) \cup VarsOf(st[5])
      [] st[1] = "label" -> VarsOf(st[3])
      [] st[1] = "switch" ->
           UNION {VarsOf(st[3][i][2]) : i \in {j \in DOMAIN st[3] : st[3][j][1] = "stmt"}}
      [] st[1] = "try" ->
           VarsIn(st[2]) \cup (IF st[3] = <<>> THEN {} ELSE VarsIn(st[3][2]))
             \cup (IF st[4] = <<>> THEN {} ELSE VarsIn(st[4][1]))
      [] OTHER -> {}

Decls(body) == SelectSeq(body, LAMBDA st : st[1] = "decl")
DeclNames(body) == {Decls(body)[i][2].name : i \in DOMAIN Decls(body)}

\* A cell for each name: [s, vars].
Bind(s, names, values) ==
    LET Cell(x, b) ==
          [s |-> NewCell(b.s, IF x \in DOMAIN values THEN values[x] ELSE Undef),
           vars |-> (x :> Len(b.s.cells) + 1) @@ b.vars]
    IN FoldSet(Cell, [s |-> s, vars |-> <<>>], names)

FunctionObject(f, env) ==
    [kind |-> "function", props |-> <<>>, proto |-> 0, ast |-> f, env |-> env]

\* The declared functions get their values, a later one of the same name wins.
Hoist(s, body, env) ==
    LET Define(t, d) ==
          [New1(t, FunctionObject(d[2], env)) EXCEPT
             !.cells[CellOf(t, env, d[2].name)] = <<"ref", Len(t.heap) + 1>>]
    IN FoldLeft(Define, s, Decls(body))

----------------------------------------------------------------------------
(* Expressions.                                                            *)

RECURSIVE Ev(_, _, _)
RECURSIVE Apply(_, _, _, _, _)

EvAll(s, es, env) ==
    FoldLeft(LAMBDA r, e : Then(r, LAMBDA t, vs : Then(Ev(t, e, env),
               LAMBDA u, v : Gives(u, Append(vs, v)))), Gives(s, <<>>), es)

\* The place an expression names: <<"cell", x>> or <<"prop", object, key>>.
Place(s, e, env) ==
    CASE e[1] = "paren" -> Gives(s, <<"cell", e[2][1][2]>>)
      [] e[1] \in {"id", "var"} -> Gives(s, <<"cell", e[2]>>)
      [] e[1] = "dot" -> Then(Ev(s, e[2], env),
           LAMBDA t, v : Gives(t, <<"prop", v, <<"string", e[3]>>>>))
      [] e[1] = "at" -> Then(Ev(s, e[2], env), LAMBDA t, v : Then(Ev(t, e[3], env),
           LAMBDA u, k : Gives(u, <<"prop", v, k>>)))

ReadPlace(s, p, env) ==
    IF p[1] = "prop" THEN GetProp(s, p[2], p[3])
    ELSE IF CellOf(s, env, p[2]) = 0 THEN Throws(s, "ReferenceError")
    ELSE Gives(s, s.cells[CellOf(s, env, p[2])])

WritePlace(s, p, env, v) ==
    IF p[1] = "prop" THEN PutProp(s, p[2], p[3], v)
    ELSE IF CellOf(s, env, p[2]) = 0 THEN Throws(s, "ReferenceError")
    ELSE Gives([s EXCEPT !.cells[CellOf(s, env, p[2])] = v], v)

\* What two numbers in two's complement have in common.
RECURSIVE Both(_, _)
Both(a, b) ==
    IF a = 0 \/ b = 0 THEN 0 ELSE IF a = -1 THEN b ELSE IF b = -1 THEN a
    ELSE (a % 2) * (b % 2) + 2 * Both(a \div 2, b \div 2)

Arith(op, a, b) ==
    CASE op = "strict_eq" -> <<"bool", a = b>>
      [] op = "strict_neq" -> <<"bool", a # b>>
      [] op = "add" -> <<"int", a[2] + b[2]>>
      [] op = "sub" -> <<"int", a[2] - b[2]>>
      [] op = "mul" -> <<"int", a[2] * b[2]>>
      [] op = "lt" -> <<"bool", a[2] < b[2]>>
      [] op = "lte" -> <<"bool", a[2] <= b[2]>>
      [] op = "gt" -> <<"bool", a[2] > b[2]>>
      [] op = "gte" -> <<"bool", a[2] >= b[2]>>
      [] op = "mod" -> <<"int", a[2] - b[2] * (a[2] \div b[2])>>
      [] op = "and" -> <<"int", Both(a[2], b[2])>>
      [] op = "or" -> <<"int", a[2] + b[2] - Both(a[2], b[2])>>
      [] op = "xor" -> <<"int", a[2] + b[2] - 2 * Both(a[2], b[2])>>
      [] op = "shl" -> <<"int", a[2] * 2^(b[2] % 32)>>
      [] op = "sar" -> <<"int", a[2] \div 2^(b[2] % 32)>>
      [] op = "shr" -> <<"int", (a[2] \div 2^(b[2] % 32))
                                  + (IF a[2] < 0 THEN 2^(32 - (b[2] % 32)) ELSE 0)>>

Type(s, v) ==
    CASE v = Undef -> "undefined"
      [] v[1] = "bool" -> "boolean"
      [] v[1] = "int" -> "number"
      [] v[1] = "string" -> "string"
      [] OTHER -> IF s.heap[v[2]].kind = "function" THEN "function" ELSE "object"

\* x++ and ++x: the old or the new value.
Step(s, e, env, d, old) ==
    Then(Place(s, e, env), LAMBDA t, p : Then(ReadPlace(t, p, env),
      LAMBDA u, v : Then(WritePlace(u, p, env, <<"int", v[2] + d>>),
        LAMBDA w, n : Gives(w, IF old THEN v ELSE n))))

Delta == [inc |-> 1, dec |-> -1]

\* The function and its this.
Callee(s, e, env) ==
    IF e[1] \in {"dot", "at"}
    THEN Then(Place(s, e, env), LAMBDA t, p : Then(ReadPlace(t, p, env),
           LAMBDA u, f : Gives(u, <<f, p[2]>>)))
    ELSE Then(Ev(s, e, env), LAMBDA t, f : Gives(t, <<f, Undef>>))

\* The operands of a chain until one decides.
RECURSIVE Chain(_, _, _, _)
Chain(s, op, es, env) ==
    Then(Ev(s, Head(es), env), LAMBDA t, v :
      IF Len(es) = 1 \/ (Truth(v) <=> op = "or") THEN Gives(t, v) ELSE Chain(t, op, Tail(es), env))

Ev(s, e, env) ==
    CASE e[1] = "push" -> Gives(s, e[2])
      [] e[1] = "id" -> ReadPlace(s, <<"cell", e[2]>>, env)
      [] e[1] = "this" -> Gives(s, env.this)
      [] e[1] = "target" -> Gives(s, IF env.ctor THEN <<"ref", env.func>> ELSE Undef)
      [] e[1] = "paren" -> Then(EvAll(s, e[2], env), LAMBDA t, vs : Gives(t, Last(vs)))
      [] e[1] = "fn" -> Gives(New1(s, FunctionObject(e[2], env)), <<"ref", Len(s.heap) + 1>>)
      [] e[1] = "object" ->
           Then(EvAll(s, [i \in DOMAIN e[2] |-> e[2][i][2]], env), LAMBDA t, vs :
             LET named == [i \in DOMAIN vs |-> <<e[2][i][1], vs[i]>>]
                 parent == SelectInSeq(named, LAMBDA p : p[1] = "__proto__" /\ IsRef(p[2]))
             IN Gives(New1(t, [kind |-> "object",
                               proto |-> IF parent = 0 THEN 0 ELSE vs[parent][2],
                               props |-> SelectSeq(named, LAMBDA p : p[1] # "__proto__")]),
                      <<"ref", Len(t.heap) + 1>>))
      [] e[1] = "array" -> Then(EvAll(s, e[2], env), LAMBDA t, vs :
             Gives(New1(t, [kind |-> "array", proto |-> 0, props |-> <<>>, elements |-> vs]),
                   <<"ref", Len(t.heap) + 1>>))
      [] e[1] \in {"dot", "at"} ->
           Then(Place(s, e, env), LAMBDA t, p : ReadPlace(t, p, env))
      [] e[1] = "call" -> Then(Callee(s, e[2], env), LAMBDA t, c :
           Then(EvAll(t, e[3], env), LAMBDA u, vs : Apply(u, c[1], c[2], vs, FALSE)))
      [] e[1] = "new" -> Then(Ev(s, e[2], env), LAMBDA t, f :
           Then(EvAll(t, e[3], env), LAMBDA u, vs : Apply(u, f, Undef, vs, TRUE)))
      [] e[1] = "post" -> Step(s, e[3], env, Delta[e[2]], TRUE)
      [] e[1] = "pre" -> Step(s, e[3], env, Delta[e[2]], FALSE)
      [] e[1] = "unary" -> Then(Ev(s, e[3], env), LAMBDA t, v :
           Gives(t, CASE e[2] = "neg" -> <<"int", -v[2]>>
                      [] e[2] = "not" -> <<"int", -1 - v[2]>>
                      [] e[2] = "lnot" -> <<"bool", ~Truth(v)>>))
      [] e[1] = "void" -> Then(Ev(s, e[2], env), LAMBDA t, v : Gives(t, Undef))
      [] e[1] = "typeof" ->
           IF e[2][1] = "id" /\ CellOf(s, env, e[2][2]) = 0 THEN Gives(s, <<"string", "undefined">>)
           ELSE Then(Ev(s, e[2], env), LAMBDA t, v : Gives(t, <<"string", Type(t, v)>>))
      [] e[1] = "delete" -> Then(Place(s, e[2], env), LAMBDA t, p :
           Gives([t EXCEPT !.heap[p[2][2]].props = SelectSeq(@, LAMBDA q : q[1] # p[3][2])],
                 <<"bool", TRUE>>))
      [] e[1] = "binary" /\ e[2] = "in" -> Then(EvAll(s, <<e[3], e[4]>>, env), LAMBDA t, vs :
           IF ~IsRef(vs[2]) THEN Throws(t, "TypeError")
           ELSE Gives(t, <<"bool", HasOrInherits(t, vs[2][2], vs[1][2])>>))
      [] e[1] = "binary" -> Then(EvAll(s, <<e[3], e[4]>>, env),
           LAMBDA t, vs : Gives(t, Arith(e[2], vs[1], vs[2])))
      [] e[1] = "logic" -> Chain(s, e[2], e[3], env)
      [] e[1] = "cond" -> Then(Ev(s, e[2], env),
           LAMBDA t, v : Ev(t, IF Truth(v) THEN e[3] ELSE e[4], env))
      [] e[1] = "assign" -> Then(Place(s, e[3], env), LAMBDA t, p :
           IF e[2] = "=" THEN Then(Ev(t, e[4], env), LAMBDA u, v : WritePlace(u, p, env, v))
           ELSE Then(ReadPlace(t, p, env), LAMBDA u, a : Then(Ev(u, e[4], env),
                  LAMBDA w, b : WritePlace(w, p, env, Arith(e[2], a, b)))))

----------------------------------------------------------------------------
(* Statements.                                                             *)

Ends(s, t, v, l) == [s |-> s, t |-> t, v |-> v, l |-> l]
Done(s, v) == Ends(s, "normal", v, "")
UpdateEmpty(c, v) == IF c.v = Nil THEN [c EXCEPT !.v = v] ELSE c

\* A value is needed to go on.
With(r, Next(_, _)) == IF r.x THEN Ends(r.s, "throw", r.v, "") ELSE Next(r.s, r.v)

RECURSIVE Ex(_, _, _, _)

List(s, sts, env) ==
    FoldLeft(LAMBDA c, st : IF c.t # "normal" THEN c
                            ELSE UpdateEmpty(Ex(c.s, st, env, ""), c.v), Done(s, Nil), sts)

Undefs(c) == UpdateEmpty(c, Undef)

\* What the loop does after its body ended with c.
Loops(c, name) ==
    \/ c.t = "normal"
    \/ c.t = "continue" /\ c.l \in {"", name}
Broken(c, name) ==
    IF c.t = "break" /\ c.l \in {"", name} THEN Done(c.s, c.v) ELSE c

\* The loop goes on with value v: test, body, update.
RECURSIVE Loop(_, _, _, _, _, _, _)
Loop(s, test, body, update, env, name, v) ==
    With(EvAll(s, test, env), LAMBDA t, b :
      IF test # <<>> /\ ~Truth(Last(b)) THEN Done(t, v)
      ELSE LET c == UpdateEmpty(Ex(t, body, env, ""), v)
           IN IF ~Loops(c, name) THEN Broken(c, name)
              ELSE With(EvAll(c.s, update, env), LAMBDA u, w :
                     Loop(u, test, body, update, env, name, c.v)))

\* for...of over the array k from element i on.
RECURSIVE Over(_, _, _, _, _, _, _, _)
Over(s, k, i, lhs, body, env, name, v) ==
    IF i > Len(s.heap[k].elements) THEN Done(s, v)
    ELSE With(Then(Place(s, lhs, env), LAMBDA t, p : WritePlace(t, p, env, s.heap[k].elements[i])),
           LAMBDA t, w :
             LET c == UpdateEmpty(Ex(t, body, env, ""), v)
             IN IF ~Loops(c, name) THEN Broken(c, name)
                ELSE Over(c.s, k, i + 1, lhs, body, env, name, c.v))

\* The first case that is equal, or 0.
RECURSIVE Match(_, _, _, _, _)
Match(s, v, items, i, env) ==
    IF i > Len(items) THEN Gives(s, 0)
    ELSE IF items[i][1] # "case" THEN Match(s, v, items, i + 1, env)
    ELSE Then(Ev(s, items[i][2], env),
           LAMBDA t, w : IF v = w THEN Gives(t, i) ELSE Match(t, v, items, i + 1, env))

Statements(items) ==
    LET stmts == SelectSeq(items, LAMBDA i : i[1] = "stmt")
    IN [i \in DOMAIN stmts |-> stmts[i][2]]

SwitchOn(s, v, items, env) ==
    With(Match(s, v, items, 1, env), LAMBDA t, i :
      LET default == SelectInSeq(items, LAMBDA j : j[1] = "default")
          from == IF i # 0 THEN i ELSE default
      IN IF from = 0 THEN Done(t, Undef)
         ELSE Undefs(Broken(List(t, Statements(SubSeq(items, from, Len(items))), env), "")))

\* The handler sees what was thrown; the final block replaces an ending only
\* when it does not end normally itself.
TryCatch(s, sts, handler, final, env) ==
    LET a == List(s, sts, env)
        bound == [env EXCEPT !.vars = (handler[1] :> Len(a.s.cells) + 1) @@ @]
        b == IF a.t # "throw" \/ handler = <<>> THEN a
             ELSE List(NewCell(a.s, a.v), handler[2], bound)
        c == List(b.s, final[1], env)
    IN IF final = <<>> THEN Undefs(b)
       ELSE Undefs(IF c.t = "normal" THEN [b EXCEPT !.s = c.s] ELSE c)

Ex(s, st, env, name) ==
    CASE st[1] = "expr" -> With(EvAll(s, st[2], env), LAMBDA t, vs : Done(t, Last(vs)))
      [] st[1] = "var" ->
           FoldLeft(LAMBDA c, d : IF c.t # "normal" \/ d[2] = <<>> THEN c
                      ELSE With(Ev(c.s, d[2][1], env), LAMBDA t, v :
                             With(WritePlace(t, <<"cell", d[1]>>, env, v),
                                  LAMBDA u, w : Done(u, Nil))), Done(s, Nil), st[2])
      [] st[1] = "block" -> List(s, st[2], env)
      [] st[1] = "if" -> With(Ev(s, st[2], env), LAMBDA t, v :
           Undefs(IF Truth(v) THEN Ex(t, st[3], env, "")
                  ELSE IF st[4] = <<>> THEN Done(t, Undef) ELSE Ex(t, st[4][1], env, "")))
      [] st[1] = "while" -> Loop(s, <<st[2]>>, st[3], <<>>, env, name, Undef)
      [] st[1] = "do" ->
           LET c == UpdateEmpty(Ex(s, st[2], env, ""), Undef)
           IN IF Loops(c, name) THEN Loop(c.s, <<st[3]>>, st[2], <<>>, env, name, c.v)
              ELSE Broken(c, name)
      [] st[1] = "for" ->
           LET init == IF st[2] = <<>> THEN Done(s, Nil) ELSE Ex(s, st[2], env, "")
           IN IF init.t # "normal" THEN init
              ELSE Loop(init.s, st[3], st[5], st[4], env, name, Undef)
      [] st[1] = "forof" -> With(Ev(s, st[4], env), LAMBDA t, v :
           IF st[2] = "for_in_start"
           THEN LET o == t.heap[v[2]]
                    keys == [i \in DOMAIN o.props |-> <<"string", o.props[i][1]>>]
                IN Over(New1(t, [kind |-> "array", proto |-> 0, props |-> <<>>, elements |-> keys]),
                        Len(t.heap) + 1, 1, st[3], st[5], env, name, Undef)
           ELSE IF ~IsArr(t, v) THEN Ends(t, "throw", <<"string", "TypeError">>, "")
           ELSE Over(t, v[2], 1, st[3], st[5], env, name, Undef))
      [] st[1] \in {"break", "continue"} -> Ends(s, st[1], Nil, st[2])
      [] st[1] = "label" ->
           LET c == Ex(s, st[3], env, st[2])
           IN IF c.t = "break" /\ c.l = st[2] THEN Done(c.s, c.v) ELSE c
      [] st[1] = "switch" -> With(Ev(s, st[2], env), LAMBDA t, v : SwitchOn(t, v, st[3], env))
      [] st[1] = "return" -> With(EvAll(s, st[2], env), LAMBDA t, vs :
           Ends(t, "return", IF vs = <<>> THEN Undef ELSE Last(vs), ""))
      [] st[1] = "throw" -> With(Ev(s, st[2], env), LAMBDA t, v : Ends(t, "throw", v, ""))
      [] st[1] = "try" -> TryCatch(s, st[2], st[3], st[4], env)
      [] OTHER -> Done(s, Nil)

----------------------------------------------------------------------------
(* Functions and programs.                                                 *)

Apply(s, f, this, args, ctor) ==
    IF ~IsRef(f) \/ s.heap[f[2]].kind # "function" THEN Throws(s, "TypeError")
    ELSE
      LET o == s.heap[f[2]]
          ast == o.ast
          n == Len(s.heap) + 1
          proto == Property(s, f[2], "prototype")
          s1 == IF ctor THEN New1(s, [kind |-> "object", props |-> <<>>,
                                      proto |-> IF IsRef(proto) THEN proto[2] ELSE 0]) ELSE s
          list == "arguments" \in ast.mentions
          s2 == IF list THEN New1(s1, [kind |-> "array", proto |-> 0, props |-> <<>>,
                                       elements |-> args]) ELSE s1
          given == [x \in {ast.params[i] : i \in DOMAIN ast.params \cap DOMAIN args} |->
                      args[SelectInSeq(ast.params, LAMBDA y : y = x)]]
          values == given @@ (IF list THEN "arguments" :> <<"ref", Len(s2.heap)>> ELSE <<>>)
                          @@ (IF "self" \in ast.mentions THEN ast.name :> f ELSE <<>>)
          names == Range(ast.params) \cup DOMAIN values \cup VarsIn(ast.body) \cup DeclNames(ast.body)
          b == Bind(s2, names, values)
          env == [vars |-> b.vars @@ o.env.vars, func |-> f[2], ctor |-> ctor,
                  this |-> IF ctor THEN <<"ref", n>> ELSE this]
          c == List(Hoist(b.s, ast.body, env), ast.body, env)
      IN IF c.t = "throw" THEN [s |-> c.s, x |-> TRUE, v |-> c.v]
         ELSE LET v == IF c.t = "return" THEN c.v ELSE Undef
              IN Gives(c.s, IF ctor /\ ~IsRef(v) THEN <<"ref", n>> ELSE v)

\* At the top level names are global; the value is that of the last statement
\* that has one.
Meaning(body) ==
    LET env == [vars |-> <<>>, this |-> Undef, func |-> 0, ctor |-> FALSE]
        b == Bind([cells |-> <<>>, heap |-> <<>>, globals |-> <<>>],
                  VarsIn(body) \cup DeclNames(body), <<>>)
        c == List(Hoist([b.s EXCEPT !.globals = b.vars], body, env), body, env)
    IN [s |-> c.s, x |-> c.t = "throw", v |-> IF c.v = Nil THEN Undef ELSE c.v]
=============================================================================
