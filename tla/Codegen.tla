------------------------------- MODULE Codegen -------------------------------
(***************************************************************************)
(* The code generator of core/runtime/mquickjs.c: what the parser emits    *)
(* for expressions, statements and functions while it reads them, how a    *)
(* variable is found, and how much stack a function asks for.              *)
(*                                                                         *)
(* The parser has no tree.  Here the tree stands for the tokens, and every *)
(* operator emits what the code emits between them.  An instruction is a   *)
(* pair <<opcode, operand>> at one position; short forms of opcodes are    *)
(* the long ones.  A label is a number, its position is lab[l], and a jump *)
(* names the label instead of the distance.                                *)
(*                                                                         *)
(* Expressions: <<"push", value>>, <<"id", x>>, <<"this">>, <<"target">>,  *)
(*   <<"paren", es>>, <<"fn", f>>, <<"object", <<<<name, e>>, ...>>>>,     *)
(*   <<"array", es>>, <<"new", e, es>>, <<"call", e, es>>,                 *)
(*   <<"dot", e, name>>, <<"at", e, e>>, <<"post", op, e>>,                *)
(*   <<"pre", op, e>>, <<"unary", op, e>>, <<"typeof", e>>, <<"void", e>>, *)
(*   <<"delete", e>>, <<"binary", op, e, e>>, <<"logic", op, es>>,         *)
(*   <<"cond", e, e, e>>, <<"assign", op, e, e>>.                          *)
(* Statements: <<"expr", es>>, <<"var", <<<<x, es>>, ...>>>>,              *)
(*   <<"block", ss>>, <<"if", e, s, ss>>, <<"while", e, s>>,               *)
(*   <<"do", s, e>>, <<"for", s, es, es, s>>, <<"forof", op, lhs, e, s>>,  *)
(*   <<"break", name>>, <<"continue", name>>, <<"label", name, s>>,        *)
(*   <<"switch", e, items>>, <<"return", es>>, <<"throw", e>>,             *)
(*   <<"try", ss, catch, finally>>, <<"decl", f>>, <<"empty">>.            *)
(* Functions: [name, params, mentions, body].                              *)
(***************************************************************************)
EXTENDS Integers, SequencesExt

CONSTANTS
    Deterministic, \* MTPSCRIPT_DETERMINISTIC
    OnStack        \* elements of an array literal that wait on the stack

ASSUME CodegenAssumption == Deterministic \in BOOLEAN /\ OnStack \in Nat \ {0}

None == ""   \* JS_NULL as a name
Undefined == <<"undefined">>

----------------------------------------------------------------------------
(* The parse state of one function.                                        *)

\* reset_parse_state: vars holds the arguments and then the variables, env
\* the BlockEnv entries (the innermost is the last), subs the functions of the
\* constant pool, hoist the variable each of them is hoisted to, 0 for none.
reset_parse_state(eval) ==
    [code |-> <<>>, last |-> 0, lab |-> <<>>, vars |-> <<>>, argc |-> 0,
     ext |-> <<>>, env |-> <<>>, subs |-> <<>>, hoist |-> <<>>,
     eval |-> eval, ret |-> 0, dropped |-> FALSE, err |-> FALSE]

js_parse_error(s) == [s EXCEPT !.err = TRUE]

emit_op_param(s, op, a) ==
    [s EXCEPT !.code = Append(@, <<op, a>>), !.last = Len(s.code) + 1]

emit_op(s, op) == emit_op_param(s, op, 0)

emit_ops(s, ops) == FoldLeft(emit_op, s, ops)

get_prev_opcode(s) == IF s.last = 0 THEN "invalid" ELSE s.code[s.last][1]

js_is_live_code(s) ==
    get_prev_opcode(s) \notin {"return", "return_undef", "throw", "goto", "ret"}

remove_last_op(s) == [s EXCEPT !.code = Front(@), !.last = 0]

patch_last_op(s, op) == [s EXCEPT !.code[s.last] = <<op, @[2]>>]

new_label(s) == Len(s.lab) + 1
with_labels(s, n) == [s EXCEPT !.lab = @ \o [i \in 1 .. n |-> 0]]

emit_label_pos(s, l, pos) == [s EXCEPT !.lab[l] = pos]

\* The last expression can then no longer be assigned to.
emit_label(s, l) == [emit_label_pos(s, l, Len(s.code) + 1) EXCEPT !.last = 0]

emit_goto(s, op, l) == emit_op_param(s, op, l)

\* Short forms and the constant pool are left out: the value is the operand.
js_emit_push_const(s, v) == emit_op_param(s, "push_value", v)
emit_push_short_int(s, n) == js_emit_push_const(s, <<"int", n>>)

----------------------------------------------------------------------------
(* Variables.                                                              *)

find_var(s, x) == SelectInSeq(s.vars, LAMBDA y : y = x)
find_ext_var(s, x) == SelectInSeq(s.ext, LAMBDA v : v.name = x)

Ext(x, kind, i) == [name |-> x, kind |-> kind, idx |-> i]

add_ext_var(s, x, kind) == [s EXCEPT !.ext = Append(@, Ext(x, kind, 0))]
add_var(s, x) == [s EXCEPT !.vars = Append(@, x)]

\* A variable of the function as an operand: arguments come first.
Slot(s, i, arg, loc) == IF i <= s.argc THEN <<arg, i>> ELSE <<loc, i - s.argc>>

Emit(s, ins) == emit_op_param(s, ins[1], ins[2])

\* TOK_IDENT of js_parse_postfix_expr: an unknown name may be declared later,
\* see convert_ext_vars_to_local_vars.
Identifier(s, x) ==
    LET t == IF find_var(s, x) = 0 /\ find_ext_var(s, x) = 0
             THEN add_ext_var(s, x, "global") ELSE s
    IN IF find_var(s, x) # 0
       THEN Emit(s, Slot(s, find_var(s, x), "get_arg", "get_loc"))
       ELSE emit_op_param(t, "get_var_ref", find_ext_var(t, x))

\* At the top level a declared variable is a reference to a global one.
define_var(s, x) ==
    IF s.eval
    THEN IF find_ext_var(s, x) = 0 THEN add_ext_var(s, x, "declared")
         ELSE [s EXCEPT !.ext[find_ext_var(s, x)].kind = "declared"]
    ELSE IF find_var(s, x) = 0 THEN add_var(s, x) ELSE s

put_var(s, x) ==
    IF s.eval THEN emit_op_param(s, "put_var_ref_nocheck", find_ext_var(s, x))
    ELSE Emit(s, Slot(s, find_var(s, x), "put_arg", "put_loc"))

----------------------------------------------------------------------------
(* What can be assigned to is known by the last opcode emitted.            *)

Lvalues == {"get_loc", "get_arg", "get_var_ref", "get_field", "get_length", "get_array_el"}

\* The state without the opcode that read the value, or with one that keeps
\* the object and the name on the stack.
get_lvalue(s, keep) ==
    LET op == get_prev_opcode(s)
        ins == s.code[s.last]
        t == remove_last_op(s)
    IN IF op \notin Lvalues THEN js_parse_error(s)
       ELSE IF ~keep THEN t
       ELSE IF op = "get_field" THEN emit_op_param(t, "get_field2", ins[2])
       ELSE IF op = "get_length" THEN emit_op(t, "get_length2")
       ELSE IF op = "get_array_el" THEN emit_ops(t, <<"dup2", "get_array_el">>)
       ELSE Emit(t, ins)

\* The instruction that get_lvalue removed.
Lvalue(s) ==
    IF get_prev_opcode(s) \in Lvalues THEN s.code[s.last] ELSE <<"get_loc", 1>>

Variable == {"get_loc", "get_arg", "get_var_ref"}
Store == [get_loc |-> "put_loc", get_arg |-> "put_arg", get_var_ref |-> "put_var_ref",
          get_field |-> "put_field", get_length |-> "put_field", get_array_el |-> "put_array_el"]

\* Bring the values into the order that the store expects.
Rearrange ==
    [field |-> [keep_top |-> <<"insert2">>, nokeep_top |-> <<>>,
                keep_second |-> <<"perm3">>, nokeep_bottom |-> <<"swap">>],
     element |-> [keep_top |-> <<"insert3">>, nokeep_top |-> <<>>,
                  keep_second |-> <<"perm4">>, nokeep_bottom |-> <<"rot3l">>]]

put_lvalue(s, lv, special) ==
    LET moves == IF lv[1] \in Variable
                 THEN IF special = "keep_top" THEN <<"dup">> ELSE <<>>
                 ELSE IF lv[1] = "get_array_el" THEN Rearrange.element[special]
                 ELSE Rearrange.field[special]
    IN emit_op_param(emit_ops(s, moves), Store[lv[1]],
                     IF lv[1] = "get_length" THEN "length" ELSE lv[2])

----------------------------------------------------------------------------
(* Expressions.  drop says that the value is not used and that the token   *)
(* after the expression allows not to produce it (may_drop_result).        *)

RECURSIVE Expr(_, _, _)

Value(s, e) == Expr(s, e, FALSE)

js_parse_expr_comma(s, es, drop) ==
    LET Next(t, i) ==
          LET a == Expr([t EXCEPT !.dropped = FALSE], es[i], drop)
              b == IF i > 1 THEN [a EXCEPT !.last = 0] ELSE a
          IN IF ~b.dropped /\ (i < Len(es) \/ drop) THEN emit_op(b, "drop") ELSE b
    IN FoldLeftDomain(Next, s, es)

js_parse_function_decl(s, f, hoist) ==
    [s EXCEPT !.subs = Append(@, f), !.hoist = Append(@, hoist)]

FunctionExpr(s, f) ==
    emit_op_param(js_parse_function_decl(s, f, 0), "fclosure", Len(s.subs) + 1)

\* __proto__: is no field, and is written once.
ObjectLiteral(s, fields) ==
    LET IsField(f) == f[1] # "__proto__"
        n == Len(SelectSeq(fields, IsField))
        Next(t, f) ==
          LET v == Value(t, f[2])
          IN IF IsField(f) THEN emit_op_param(v, "define_field", f[1]) ELSE emit_op(v, "set_proto")
        made == FoldLeft(Next, emit_op_param(s, "object", n), fields)
    IN IF Len(fields) > n + 1 THEN js_parse_error(made) ELSE made

\* The first elements wait on the stack, the others are stored one by one.
ArrayLiteral(s, es) ==
    LET n == IF Len(es) < OnStack THEN Len(es) ELSE OnStack
        first == FoldLeft(Value, s, SubSeq(es, 1, n))
        Store1(t, i) ==
          emit_op(Value(emit_push_short_int(emit_op(t, "dup"), i - 1), es[i]), "put_array_el")
    IN FoldLeft(Store1, emit_op_param(first, "array_from", n),
                [k \in 1 .. Len(es) - n |-> n + k])

Member(s, name) ==
    IF name = "length" THEN emit_op(s, "get_length")
    ELSE emit_op_param(s, "get_field", name)

MethodOf == [get_field |-> "get_field2", get_length |-> "get_length2",
             get_array_el |-> "get_array_el2"]

\* If the function was read from an object, the object is kept as this.
Call(s, f, args) ==
    LET t == Value(s, f)
        op == get_prev_opcode(t)
        method == op \in DOMAIN MethodOf
        u == IF method THEN patch_last_op(t, MethodOf[op]) ELSE t
    IN emit_op_param(FoldLeft(Value, u, args),
                     IF method THEN "call_method" ELSE "call", Len(args))

New(s, f, args) ==
    emit_op_param(FoldLeft(Value, Value(s, f), args), "call_constructor", Len(args))

Postfix(s, op, e, drop) ==
    LET t == Value(s, e)
        u == get_lvalue(t, TRUE)
    IN IF drop
       THEN [put_lvalue(emit_op(u, op), Lvalue(t), "nokeep_top") EXCEPT !.dropped = TRUE]
       ELSE put_lvalue(emit_op(u, IF op = "inc" THEN "post_inc" ELSE "post_dec"),
                       Lvalue(t), "keep_second")

Prefix(s, op, e, drop) ==
    LET t == Value(s, e)
        u == emit_op(get_lvalue(t, TRUE), op)
    IN IF drop THEN [put_lvalue(u, Lvalue(t), "nokeep_top") EXCEPT !.dropped = TRUE]
       ELSE put_lvalue(u, Lvalue(t), "keep_top")

\* An undefined variable has a type.
TypeOf(s, e) ==
    LET t == Value(s, e)
    IN emit_op(IF get_prev_opcode(t) = "get_var_ref"
               THEN patch_last_op(t, "get_var_ref_nocheck") ELSE t, "typeof")

js_emit_delete(s) ==
    LET op == get_prev_opcode(s)
        t == remove_last_op(s)
    IN IF op \notin {"get_field", "get_length", "get_array_el"} THEN js_parse_error(s)
       ELSE emit_op(IF op = "get_field"
                    THEN js_emit_push_const(t, <<"string", s.code[s.last][2]>>)
                    ELSE IF op = "get_length"
                    THEN js_emit_push_const(t, <<"string", "length">>)
                    ELSE t, "delete")

\* A number that is no small integer is a constant like any other.
js_emit_push_number(s, v) ==
    IF v[1] = "int" THEN emit_push_short_int(s, v[2]) ELSE js_emit_push_const(s, v)

js_parse_expr_binary(s, op, e1, e2) == emit_op(Value(Value(s, e1), e2), op)

ShortCut == [and |-> "if_false", or |-> "if_true"]

\* One label for the whole chain: a && b && c.
js_parse_logical_and_or(s, op, es) ==
    LET first == Value(s, Head(es))
        l == new_label(first)
        Next(t, e) ==
          Value(emit_op(emit_goto(emit_op(t, "dup"), ShortCut[op], l), "drop"), e)
    IN emit_label(FoldLeft(Next, with_labels(first, 1), Tail(es)), l)

js_parse_cond_expr(s, c, e1, e2) ==
    LET test == Value(s, c)
        l1 == new_label(test)
        l2 == l1 + 1
        yes == Value(emit_goto(with_labels(test, 2), "if_false", l1), e1)
        no == Value(emit_label(emit_goto(yes, "goto", l2), l1), e2)
    IN emit_label(no, l2)

js_parse_assign_expr(s, op, lhs, e, drop) ==
    LET t == Value(s, lhs)
        v == Value(get_lvalue(t, op # "="), e)
        u == IF op = "=" THEN v ELSE emit_op(v, op)
    IN IF drop THEN [put_lvalue(u, Lvalue(t), "nokeep_top") EXCEPT !.dropped = TRUE]
       ELSE put_lvalue(u, Lvalue(t), "keep_top")

\* The dispatch of js_parse_postfix_expr and js_parse_unary on the token.
Expr(s, e, drop) ==
    IF s.err THEN s  \* js_parse_error has left the parser
    ELSE
    CASE e[1] = "push" -> js_emit_push_number(s, e[2])
      [] e[1] = "id" -> Identifier(s, e[2])
      [] e[1] = "this" -> emit_op(s, "push_this")
      [] e[1] = "target" -> emit_op(s, "new_target")
      [] e[1] = "paren" -> js_parse_expr_comma(s, e[2], FALSE)
      [] e[1] = "fn" -> FunctionExpr(s, e[2])
      [] e[1] = "object" -> ObjectLiteral(s, e[2])
      [] e[1] = "array" -> ArrayLiteral(s, e[2])
      [] e[1] = "dot" -> Member(Value(s, e[2]), e[3])
      [] e[1] = "at" -> emit_op(Value(Value(s, e[2]), e[3]), "get_array_el")
      [] e[1] = "call" -> Call(s, e[2], e[3])
      [] e[1] = "new" -> New(s, e[2], e[3])
      [] e[1] = "post" -> Postfix(s, e[2], e[3], drop)
      [] e[1] = "pre" -> Prefix(s, e[2], e[3], drop)
      [] e[1] = "unary" -> emit_op(Value(s, e[3]), e[2])
      [] e[1] = "void" -> emit_ops(Value(s, e[2]), <<"drop", "undefined">>)
      [] e[1] = "typeof" -> TypeOf(s, e[2])
      [] e[1] = "delete" -> js_emit_delete(Value(s, e[2]))
      [] e[1] = "binary" -> js_parse_expr_binary(s, e[2], e[3], e[4])
      [] e[1] = "logic" -> js_parse_logical_and_or(s, e[2], e[3])
      [] e[1] = "cond" -> js_parse_cond_expr(s, e[2], e[3], e[4])
      [] e[1] = "assign" -> js_parse_assign_expr(s, e[2], e[3], e[4], drop)

----------------------------------------------------------------------------
(* Leaving blocks: a BlockEnv knows what its block keeps on the stack and  *)
(* which code must run when the block is left.  0 is LABEL_NONE.           *)

push_break_entry(s, name, brk, cont, fin, drop) ==
    [s EXCEPT !.env = Append(@, [name |-> name, brk |-> brk, cont |-> cont,
                                 fin |-> fin, drop |-> drop])]

pop_break_entry(s) == [s EXCEPT !.env = Front(@)]

Times(op, n) == [i \in 1 .. n |-> op]

\* The value stays on top while every finally block on the way out is called.
emit_return(s, hasval) ==
    LET Leave(a, be) ==
          LET n == a.drops + be.drop
              v == IF a.hasval THEN a.s ELSE emit_op(a.s, "undefined")
          IN IF be.fin = 0 THEN [a EXCEPT !.drops = n]
             ELSE [s |-> emit_goto(emit_ops(v, Times("nip", n)), "gosub", be.fin),
                   drops |-> 0, hasval |-> TRUE]
        all == FoldLeft(Leave, [s |-> s, drops |-> 0, hasval |-> hasval], Reverse(s.env))
    IN emit_op(all.s, IF all.hasval THEN "return" ELSE "return_undef")

\* A break without a name is for the innermost loop or switch.
IsTarget(be, name, is_cont) ==
    /\ \/ name = None /\ ~(be.cont = 0 /\ be.drop = 0)
       \/ be.name = name
    /\ (IF is_cont THEN be.cont ELSE be.brk) # 0

\* Fault of LeaveBlock: finally blocks run only on return.
LeaveBlock_NoFinally(s, be) == emit_ops(s, Times("drop", be.drop))

\* A value takes the place of the result that the finally block expects.
LeaveBlock(s, be) ==
    LET t == emit_ops(s, Times("drop", be.drop))
    IN IF be.fin = 0 THEN t
       ELSE emit_op(emit_goto(emit_op(t, "undefined"), "gosub", be.fin), "drop")

emit_break(s, name, is_cont) ==
    LET target == SelectLastInSeq(s.env, LAMBDA be : IsTarget(be, name, is_cont))
        be == s.env[target]
        left == FoldLeft(LeaveBlock, s, Reverse(SubSeq(s.env, target + 1, Len(s.env))))
    IN IF target = 0 THEN js_parse_error(s)
       ELSE emit_goto(left, "goto", IF is_cont THEN be.cont ELSE be.brk)

----------------------------------------------------------------------------
(* Statements.                                                             *)

RECURSIVE js_parse_statement(_, _, _)

Statement(s, st) == js_parse_statement(s, st, None)

js_parse_block(s, sts) == FoldLeft(Statement, s, sts)

\* The value of the last statement is the value of the program.
set_eval_ret_undefined(s) ==
    IF s.ret = 0 THEN s ELSE emit_op_param(emit_op(s, "undefined"), "put_loc", s.ret)

ExprStatement(s, es) ==
    IF s.ret = 0 THEN js_parse_expr_comma(s, es, TRUE)
    ELSE emit_op_param(js_parse_expr_comma(s, es, FALSE), "put_loc", s.ret)

\* declarators <<x, <<>>>> or <<x, <<e>>>>
js_parse_var(s, ds) ==
    LET Declare(t, d) ==
          LET u == define_var(t, d[1])
          IN IF d[2] = <<>> THEN u ELSE put_var(Value(u, d[2][1]), d[1])
    IN FoldLeft(Declare, s, ds)

Return(s, es) ==
    IF s.eval THEN js_parse_error(s)
    ELSE emit_return(IF es = <<>> THEN s ELSE js_parse_expr_comma(s, es, FALSE), es # <<>>)

If(s, c, yes, no) ==
    LET test == Value(set_eval_ret_undefined(s), c)
        l1 == new_label(test)
        l2 == l1 + 1
        a == Statement(emit_goto(with_labels(test, 2), "if_false", l1), yes)
        b == Statement(emit_label(emit_goto(a, "goto", l2), l1), no[1])
    IN IF no = <<>> THEN emit_label(a, l1) ELSE emit_label(b, l2)

While(s, name, c, body) ==
    LET brk == new_label(s)
        cont == brk + 1
        t == push_break_entry(with_labels(s, 2), name, brk, cont, 0, 0)
        test == Value(emit_label(set_eval_ret_undefined(t), cont), c)
        loop == emit_goto(Statement(emit_goto(test, "if_false", brk), body), "goto", cont)
    IN pop_break_entry(emit_label(loop, brk))

DoWhile(s, name, body, c) ==
    LET brk == new_label(s)
        cont == brk + 1
        again == brk + 2
        t == push_break_entry(with_labels(s, 3), name, brk, cont, 0, 0)
        loop == Statement(emit_label(set_eval_ret_undefined(t), again), body)
        test == emit_goto(Value(emit_label(loop, cont), c), "if_true", again)
    IN pop_break_entry(emit_label(test, brk))

\* Fault of For: a continue goes to the test, past the third expression.
For_NoUpdate(s, name, init, test, update, body) ==
    LET brk == new_label(s)
        cont == brk + 1
        check == brk + 2
        t == set_eval_ret_undefined(push_break_entry(with_labels(s, 3), name, brk, cont, 0, 0))
        a == IF init = <<>> THEN t
             ELSE IF init[1] = "var" THEN js_parse_var(t, init[2])
             ELSE js_parse_expr_comma(t, init[2], TRUE)
        b == emit_label(emit_label(a, check), cont)
        c == IF test = <<>> THEN b
             ELSE emit_goto(js_parse_expr_comma(b, test, FALSE), "if_false", brk)
        d == Statement(c, body)
        e == IF update = <<>> THEN d ELSE js_parse_expr_comma(d, update, TRUE)
    IN pop_break_entry(emit_label(emit_goto(e, "goto", check), brk))

\* init is <<>>, <<"expr", es>> or <<"var", ds>>; the third expression is
\* read again after the body.
For(s, name, init, test, update, body) ==
    LET brk == new_label(s)
        cont == brk + 1
        check == brk + 2
        t == set_eval_ret_undefined(push_break_entry(with_labels(s, 3), name, brk, cont, 0, 0))
        a == IF init = <<>> THEN t
             ELSE IF init[1] = "var" THEN js_parse_var(t, init[2])
             ELSE js_parse_expr_comma(t, init[2], TRUE)
        b == emit_label(a, check)
        c == IF test = <<>> THEN b
             ELSE emit_goto(js_parse_expr_comma(b, test, FALSE), "if_false", brk)
        d == emit_label(Statement(c, body), cont)
        e == IF update = <<>> THEN d ELSE js_parse_expr_comma(d, update, TRUE)
    IN pop_break_entry(emit_label(emit_goto(e, "goto", check), brk))

\* The iterator stays on the stack while the loop runs.  start is
\* "for_in_start" or "for_of_start", lhs <<"var", x>> or an expression.
ForOf(s, name, start, lhs, e, body) ==
    LET brk == new_label(s)
        cont == brk + 1
        expr == brk + 2
        inside == brk + 3
        next == brk + 4
        t == set_eval_ret_undefined(push_break_entry(with_labels(s, 5), name, brk, cont, 0, 1))
        a == emit_label(emit_goto(t, "goto", expr), next)
        target == Value(a, lhs)
        b == IF lhs[1] = "var" THEN put_var(define_var(a, lhs[2]), lhs[2])
             ELSE put_lvalue(get_lvalue(target, FALSE), Lvalue(target), "nokeep_bottom")
        c == Value(emit_label(emit_goto(b, "goto", inside), expr), e)
        d == emit_label(emit_goto(emit_op(c, start), "goto", cont), inside)
        f == emit_op(emit_label(Statement(d, body), cont), "for_of_next")
        g == emit_op(emit_goto(f, "if_false", next), "drop")
    IN pop_break_entry(emit_op(emit_label(g, brk), "drop"))

\* A run of case clauses jumps to the statements after it when one matches;
\* the last one jumps to the next run otherwise (lcase).
Case(a, items, i) ==
    LET starts == i = 1 \/ items[i - 1][1] # "case"
        ends == i = Len(items) \/ items[i + 1][1] # "case"
        l == new_label(a.s)
        skip == starts /\ a.lcase # 0
        b == IF ~starts THEN a
             ELSE IF a.lcase = 0 THEN [a EXCEPT !.matched = 0]
             ELSE [a EXCEPT !.s = emit_label(emit_goto(with_labels(@, 1), "goto", l), a.lcase),
                            !.matched = l]
        test == emit_op(Value(emit_op(b.s, "dup"), items[i][2]), "strict_eq")
        m == new_label(test)
        matched == IF b.matched = 0 THEN m ELSE b.matched
        t == with_labels(test, 1)
        fail == emit_goto(t, "if_false", m)
    IN IF ends
       THEN [b EXCEPT !.s = IF b.matched = 0 THEN fail ELSE emit_label(fail, b.matched),
                      !.lcase = m]
       ELSE [b EXCEPT !.s = emit_goto(t, "if_true", matched), !.matched = matched]

Default(a) ==
    LET l == new_label(a.s)
        b == IF a.lcase # 0 THEN a
             ELSE [a EXCEPT !.s = emit_goto(with_labels(@, 1), "goto", l), !.lcase = l]
    IN IF a.default # 0 THEN [a EXCEPT !.s = js_parse_error(@)]
       ELSE [b EXCEPT !.default = Len(b.s.code) + 1]

Switch(s, e, items) ==
    LET brk == new_label(s)
        t == set_eval_ret_undefined(push_break_entry(with_labels(s, 1), None, brk, 0, 0, 1))
        Item(a, i) ==
          IF items[i][1] = "case" THEN Case(a, items, i)
          ELSE IF items[i][1] = "default" THEN Default(a)
          ELSE IF a.lcase = 0 THEN [a EXCEPT !.s = js_parse_error(@)]
          ELSE [a EXCEPT !.s = Statement(@, items[i][2])]
        a == FoldLeftDomain(Item, [s |-> Value(t, e), lcase |-> 0, matched |-> 0, default |-> 0],
                            items)
        b == IF a.default # 0 THEN emit_label_pos(a.s, a.lcase, a.default)
             ELSE IF a.lcase # 0 THEN emit_label(a.s, a.lcase) ELSE a.s
    IN pop_break_entry(emit_op(emit_label(b, brk), "drop"))

\* A block whose catch offset lies on the stack, and the call of the finally
\* block after it.
Guarded(s, sts, handler, fin) ==
    LET t == push_break_entry(emit_goto(s, "catch", handler), None, 0, 0, fin, 1)
        u == pop_break_entry(js_parse_block(t, sts))
    IN emit_op(emit_goto(emit_ops(u, <<"drop", "undefined">>), "gosub", fin), "drop")

\* handler is <<>> or <<x, statements>>, final <<>> or <<statements>>.  Without
\* a finally block the subroutine is only a return.
Try(s, sts, handler, final) ==
    LET catch == new_label(s)
        fin == catch + 1
        end == catch + 2
        catch2 == catch + 3
        a == emit_goto(Guarded(with_labels(set_eval_ret_undefined(s), 4), sts, catch, fin),
                       "goto", end)
        x == handler[1]
        b == emit_label(add_var(a, x), catch)
        c == emit_op_param(b, "put_loc", find_var(b, x) - b.argc)
        d == emit_goto(Guarded(c, handler[2], catch2, fin), "goto", end)
        rethrow == IF handler = <<>> THEN emit_label(a, catch) ELSE emit_label(d, catch2)
        f == emit_label(emit_op(emit_goto(rethrow, "gosub", fin), "throw"), fin)
        g == IF final = <<>> THEN f
             ELSE pop_break_entry(js_parse_block(push_break_entry(f, None, 0, 0, 0, 2), final[1]))
    IN IF handler # <<>> /\ (find_var(a, x) # 0 \/ find_ext_var(a, x) # 0)
       THEN js_parse_error(a)
       ELSE emit_label(emit_op(g, "ret"), end)

Labelled(s, name, st) ==
    LET brk == new_label(s)
        t == push_break_entry(with_labels(s, 1), name, brk, 0, 0, 0)
    IN IF \E i \in DOMAIN s.env : s.env[i].name = name THEN js_parse_error(s)
       ELSE IF st[1] \in {"for", "forof", "while", "do"}
       THEN js_parse_statement(s, st, name)
       ELSE pop_break_entry(emit_label(Statement(t, st), brk))

Forbidden == {"try", "for", "forof", "while", "do"}

\* name is the label in front of the statement.
js_parse_statement(s, st, name) ==
    IF s.err THEN s
    ELSE IF Deterministic /\ st[1] \in Forbidden THEN js_parse_error(s)
    ELSE
    CASE st[1] = "expr" -> ExprStatement(s, st[2])
      [] st[1] = "var" -> js_parse_var(s, st[2])
      [] st[1] = "block" -> js_parse_block(s, st[2])
      [] st[1] = "if" -> If(s, st[2], st[3], st[4])
      [] st[1] = "while" -> While(s, name, st[2], st[3])
      [] st[1] = "do" -> DoWhile(s, name, st[2], st[3])
      [] st[1] = "for" -> For(s, name, st[2], st[3], st[4], st[5])
      [] st[1] = "forof" -> ForOf(s, name, st[2], st[3], st[4], st[5])
      [] st[1] = "break" -> emit_break(s, st[2], FALSE)
      [] st[1] = "continue" -> emit_break(s, st[2], TRUE)
      [] st[1] = "label" -> Labelled(s, st[2], st[3])
      [] st[1] = "switch" -> Switch(s, st[2], st[3])
      [] st[1] = "return" -> Return(s, st[2])
      [] st[1] = "throw" -> emit_op(Value(s, st[2]), "throw")
      [] st[1] = "try" -> Try(s, st[2], st[3], st[4])
      [] st[1] = "empty" -> s

----------------------------------------------------------------------------
(* Functions.  The body of a function is compiled after the function       *)
(* around it, when all variables of that one are known.                    *)

\* A declared function is stored in its variable before the code runs.
FunctionDecl(s, f) ==
    LET t == define_var(s, f.name)
    IN js_parse_function_decl(t, f, IF s.eval THEN find_ext_var(t, f.name)
                                    ELSE find_var(t, f.name))

js_parse_source_element(s, st) ==
    IF st[1] = "decl" THEN FunctionDecl(s, st[2]) ELSE Statement(s, st)

define_hoisted_functions(s) ==
    LET Define(i) ==
          IF s.hoist[i] = 0 THEN <<>>
          ELSE << <<"fclosure", i>>, IF s.eval THEN <<"put_var_ref_nocheck", s.hoist[i]>>
                                     ELSE Slot(s, s.hoist[i], "put_arg", "put_loc") >>
        code == FlattenSeq([i \in DOMAIN s.subs |-> Define(i)])
    IN [s EXCEPT !.code = code \o @, !.lab = <<>> \o [l \in DOMAIN @ |-> @[l] + Len(code)]]

\* A variable of the function that the engine fills in before the body.
Implicit(s, x, op) ==
    LET t == add_var(s, x)
    IN emit_op_param(emit_op(t, op), "put_loc", Len(t.vars) - t.argc)

js_parse_function(f) ==
    LET s == [reset_parse_state(FALSE) EXCEPT
                !.vars = f.params, !.argc = Len(f.params), !.err = ~IsInjective(f.params)]
        a == IF "arguments" \in f.mentions THEN Implicit(s, "arguments", "arguments") ELSE s
        b == IF "self" \in f.mentions THEN Implicit(a, f.name, "this_func") ELSE a
        c == FoldLeft(js_parse_source_element, b, f.body)
    IN define_hoisted_functions(IF js_is_live_code(c) THEN emit_op(c, "return_undef") ELSE c)

\* The value of the last expression is kept in a variable without a name.
js_parse_program(body) ==
    LET s == [add_var(reset_parse_state(TRUE), "_ret_") EXCEPT !.ret = 1]
        a == FoldLeft(js_parse_source_element, s, body)
    IN define_hoisted_functions(emit_op(emit_op_param(a, "get_loc", 1), "return"))

\* A name that was used before its declaration is a variable of the function
\* after all; the other references are numbered anew.
convert_ext_vars_to_local_vars(s) ==
    LET Local(i) == find_var(s, s.ext[i].name) > s.argc
        Number(i) == Cardinality({j \in 1 .. i : ~Local(j)})
        Convert(ins) ==
          IF ins[1] \notin {"get_var_ref", "put_var_ref", "get_var_ref_nocheck", "put_var_ref_nocheck"}
          THEN ins
          ELSE IF ~Local(ins[2]) THEN <<ins[1], Number(ins[2])>>
          ELSE <<IF ins[1] \in {"get_var_ref", "get_var_ref_nocheck"} THEN "get_loc" ELSE "put_loc",
                 find_var(s, s.ext[ins[2]].name) - s.argc>>
    IN [s EXCEPT !.code = <<>> \o [p \in DOMAIN @ |-> Convert(@[p])],
                 !.ext = SelectSeq(@, LAMBDA v : find_var(s, v.name) <= s.argc)]

\* opcode_info: what an opcode pops and pushes, besides the operand of npop.
opcode_info ==
    [push_value |-> <<0, 1>>, fclosure |-> <<0, 1>>, undefined |-> <<0, 1>>, push_this |-> <<0, 1>>,
     object |-> <<0, 1>>, this_func |-> <<0, 1>>, arguments |-> <<0, 1>>, new_target |-> <<0, 1>>,
     drop |-> <<1, 0>>, nip |-> <<2, 1>>, dup |-> <<1, 2>>, dup2 |-> <<2, 4>>, insert2 |-> <<2, 3>>,
     insert3 |-> <<3, 4>>, perm3 |-> <<3, 3>>, perm4 |-> <<4, 4>>, swap |-> <<2, 2>>,
     rot3l |-> <<3, 3>>, call_constructor |-> <<1, 1>>, call |-> <<1, 1>>, call_method |-> <<2, 1>>,
     array_from |-> <<0, 1>>, return |-> <<1, 0>>, return_undef |-> <<0, 0>>, throw |-> <<1, 0>>,
     get_field |-> <<1, 1>>, get_field2 |-> <<1, 2>>, put_field |-> <<2, 0>>,
     get_array_el |-> <<2, 1>>, get_array_el2 |-> <<2, 2>>, put_array_el |-> <<3, 0>>,
     get_length |-> <<1, 1>>, get_length2 |-> <<1, 2>>, define_field |-> <<2, 1>>,
     get_loc |-> <<0, 1>>, put_loc |-> <<1, 0>>, get_arg |-> <<0, 1>>, put_arg |-> <<1, 0>>,
     get_var_ref |-> <<0, 1>>, put_var_ref |-> <<1, 0>>, get_var_ref_nocheck |-> <<0, 1>>,
     put_var_ref_nocheck |-> <<1, 0>>, if_false |-> <<1, 0>>, if_true |-> <<1, 0>>,
     goto |-> <<0, 0>>, catch |-> <<0, 1>>, gosub |-> <<0, 0>>, ret |-> <<1, 0>>,
     for_in_start |-> <<1, 1>>, for_of_start |-> <<1, 1>>, for_of_next |-> <<1, 3>>,
     neg |-> <<1, 1>>, plus |-> <<1, 1>>, dec |-> <<1, 1>>, inc |-> <<1, 1>>,
     post_dec |-> <<1, 2>>, post_inc |-> <<1, 2>>, lnot |-> <<1, 1>>, typeof |-> <<1, 1>>,
     delete |-> <<2, 1>>, mul |-> <<2, 1>>, add |-> <<2, 1>>, sub |-> <<2, 1>>, lt |-> <<2, 1>>,
     lte |-> <<2, 1>>, gt |-> <<2, 1>>, gte |-> <<2, 1>>, strict_eq |-> <<2, 1>>,
     strict_neq |-> <<2, 1>>, mod |-> <<2, 1>>, and |-> <<2, 1>>, or |-> <<2, 1>>,
     xor |-> <<2, 1>>, shl |-> <<2, 1>>, shr |-> <<2, 1>>, sar |-> <<2, 1>>, not |-> <<1, 1>>,
     in |-> <<2, 1>>, set_proto |-> <<2, 1>>]

npop == {"call_constructor", "call", "call_method", "array_from"}

\* What an opcode takes from the stack, and what it leaves on n values.
Taken(s, p) ==
    LET op == s.code[p][1]
    IN opcode_info[op][1] + (IF op \in npop THEN s.code[p][2] ELSE 0)
StackAfter(s, p, n) == n - Taken(s, p) + opcode_info[s.code[p][1]][2]

\* Fault of Successors: the return address of a subroutine is not counted.
Successors_Gosub(s, p, n) ==
    LET op == s.code[p][1]
        after == StackAfter(s, p, n)
        target == s.lab[s.code[p][2]]
    IN CASE op \in {"return", "return_undef", "throw", "ret"} -> <<after, {}>>
         [] op = "goto" -> <<after, {<<target, after>>}>>
         [] op \in {"if_true", "if_false", "gosub"} ->
              <<after, {<<target, after>>, <<p + 1, after>>}>>
         [] OTHER -> <<after, {<<p + 1, after>>}>>

\* What the analysis finds at a position: the places that come next, with the
\* number of values on the stack there.
Successors(s, p, n) ==
    LET op == s.code[p][1]
        after == StackAfter(s, p, n)
        target == s.lab[s.code[p][2]]
    IN CASE op \in {"return", "return_undef", "throw", "ret"} -> <<after, {}>>
         [] op = "goto" -> <<after, {<<target, after>>}>>
         [] op \in {"if_true", "if_false"} -> <<after, {<<target, after>>, <<p + 1, after>>}>>
         [] op = "gosub" -> <<after, {<<target, after + 1>>, <<p + 1, after>>}>>
         [] OTHER -> <<after, {<<p + 1, after>>}>>

\* compute_stack_size_push: a position gets the depth it is first reached with.
compute_stack_size_push(depth, reached) ==
    depth @@ [p \in {v[1] : v \in reached} |-> (CHOOSE v \in reached : v[1] = p)[2]]

\* One turn of the loop: an opcode, and what it reaches, with the same depth
\* as before if it was reached before.
Follow(s, found) ==
    LET p == CHOOSE q \in found.work : TRUE
        n == found.depth[p]
        next == Successors(s, p, n)
        depth == compute_stack_size_push(found.depth, next[2])
    IN [depth |-> depth,
        work |-> (found.work \cup (DOMAIN depth \ DOMAIN found.depth)) \ {p},
        size |-> IF next[1] > found.size THEN next[1] ELSE found.size,
        ok |-> n >= Taken(s, p) /\ \A v \in next[2] : depth[v[1]] = v[2]]

\* Until no position waits: at most 2^n turns.
RECURSIVE Explore(_, _, _)
Explore(s, n, found) ==
    IF found.work = {} \/ ~found.ok THEN found
    ELSE IF n = 0 THEN Follow(s, found)
    ELSE Explore(s, n - 1, Explore(s, n - 1, found))

\* The depth of the stack before each position reached, and the largest one.
\* Code with more opcodes than turns would be refused as an error.
compute_stack_size(s) ==
    LET found == Explore(s, 10, [depth |-> <<0>>, work |-> {1}, size |-> 0, ok |-> TRUE])
    IN [depth |-> found.depth, size |-> found.size, ok |-> found.ok /\ found.work = {}]

\* A free variable of f is one of the function around it, or free there too.
\* The pair of both, changed.
resolve_var_refs(f, parent) ==
    LET Resolve(a, i) ==
          LET x == a.f.ext[i].name
              v == find_var(a.parent, x)
              q == IF v = 0 /\ find_ext_var(a.parent, x) = 0
                   THEN add_ext_var(a.parent, x, "global") ELSE a.parent
              decl == IF v = 0 THEN <<"ref", find_ext_var(q, x)>>
                      ELSE Slot(a.parent, v, "arg", "var")
          IN [f |-> [a.f EXCEPT !.ext[i] = Ext(x, decl[1], decl[2])], parent |-> q]
    IN FoldLeftDomain(Resolve, [f |-> f, parent |-> parent], f.ext)

\* js_parse_local_functions: finish a function, then compile the functions of
\* its constant pool, each of which may add references to this one.
RECURSIVE Compile(_)
Compile(s) ==
    LET a == convert_ext_vars_to_local_vars(s)
        stack == compute_stack_size(a)
        start == [a EXCEPT !.subs = <<>>, !.err = @ \/ ~stack.ok]
        Local(p, f) ==
          LET r == resolve_var_refs(Compile(js_parse_function(f)), p)
          IN [r.parent EXCEPT !.subs = Append(@, r.f), !.err = @ \/ r.f.err]
        all == FoldLeft(Local, start, a.subs)
    IN [code |-> all.code, lab |-> all.lab, vars |-> all.vars, argc |-> all.argc,
        ext |-> all.ext, subs |-> all.subs, err |-> all.err,
        depth |-> stack.depth, stack_size |-> stack.size]
=============================================================================
