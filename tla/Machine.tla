------------------------------- MODULE Machine -------------------------------
(***************************************************************************)
(* The bytecode interpreter, JS_Call of core/runtime/mquickjs.c: the       *)
(* programs of an instance are compiled by Codegen and run one opcode at a *)
(* time.  Budgets and errors of the engine itself are those of Interp.     *)
(*                                                                         *)
(* A value is <<"undefined">>, <<"bool", b>>, <<"int", n>>,                *)
(* <<"string", s>>, <<"ref", k>> for the object k of the heap, or what     *)
(* only the stack holds: <<"catch", label>> and <<"uninitialized">>.       *)
(***************************************************************************)
EXTENDS Codegen

CONSTANTS
    Programs, \* bound: programs by name, each a sequence of source elements
    Code      \* by the same names, what the compiler makes of them

VARIABLES
    program,  \* the name of the program
    frames,   \* frames of JS_Call, the current one is the last
    heap,     \* objects
    refs,     \* JSVarRef: a cell, open while its variable is in a frame
    globals,  \* variables of the global object: name -> reference
    thrown,   \* ctx->current_exception, <<>> if none
    outcome   \* what JS_Eval returns, <<>> while it runs

vars == <<program, frames, heap, refs, globals, thrown, outcome>>

Num(n) == <<"int", n>>
Bool(b) == <<"bool", b>>
String(s) == <<"string", s>>
Ref(k) == <<"ref", k>>
Uninitialized == <<"uninitialized">>

Fn(path) == FoldLeft(LAMBDA f, i : f.subs[i], Code[program], path)

Top == Last(frames)
Func == Fn(heap[Top.func].path)
Instr == Func.code[Top.pc]
Stack == Top.stack
Arg == Instr[2]

\* The n-th value from the top of the stack.
Peek(n) == Stack[Len(Stack) - n + 1]
Under(n) == SubSeq(Stack, 1, Len(Stack) - n)
Operands(n) == SubSeq(Stack, Len(Stack) - n + 1, Len(Stack))

At(ops) == outcome = <<>> /\ thrown = <<>> /\ Instr[1] \in ops

----------------------------------------------------------------------------
(* Objects: [kind, props, ...] with props a sequence of <<name, value>>.   *)

Object(proto) == [kind |-> "object", props |-> <<>>, proto |-> proto]
Array(elements) == [kind |-> "array", props |-> <<>>, elements |-> elements]
Closure(path, cells) == [kind |-> "function", props |-> <<>>, path |-> path, cells |-> cells]
Iterator(array) == [kind |-> "iterator", props |-> <<>>, array |-> array, pos |-> 1]

IsObject(v) == v[1] = "ref"
IsFunction(v) == IsObject(v) /\ heap[v[2]].kind = "function"
IsArray(v) == IsObject(v) /\ heap[v[2]].kind = "array"

Slots(o, name) == SelectInSeq(o.props, LAMBDA p : p[1] = name)

RECURSIVE Find(_, _)
Find(k, name) ==
    LET o == heap[k]
    IN IF Slots(o, name) # 0 THEN o.props[Slots(o, name)][2]
       ELSE IF o.kind = "object" /\ o.proto # 0 THEN Find(o.proto, name) ELSE Undefined

\* An element inside the array, or a property.
InArray(v, key) == IsArray(v) /\ key[1] = "int" /\ key[2] \in 0 .. Len(heap[v[2]].elements) - 1

Get(v, key) ==
    IF InArray(v, key) THEN heap[v[2]].elements[key[2] + 1]
    ELSE IF IsArray(v) /\ key = String("length") THEN Num(Len(heap[v[2]].elements))
    ELSE IF key[1] = "string" THEN Find(v[2], key[2]) ELSE Undefined

\* The object after the store; only the next element extends an array.
Put(o, key, x) ==
    IF o.kind = "array" /\ key[1] = "int"
    THEN [o EXCEPT !.elements = IF key[2] < Len(@) THEN [@ EXCEPT ![key[2] + 1] = x]
                                ELSE Append(@, x)]
    ELSE LET i == Slots(o, key[2])
         IN IF i = 0 THEN [o EXCEPT !.props = Append(@, <<key[2], x>>)]
            ELSE [o EXCEPT !.props[i] = <<key[2], x>>]

\* JS_ToBool and js_operator_typeof
ToBool(v) == v \notin {Undefined, Bool(FALSE), Num(0), String("")}

TypeName(v) ==
    IF v \in {Undefined, Uninitialized} THEN "undefined"
    ELSE CASE v[1] = "bool" -> "boolean"
           [] v[1] = "int" -> "number"
           [] v[1] = "string" -> "string"
           [] OTHER -> IF IsFunction(v) THEN "function" ELSE "object"

----------------------------------------------------------------------------
(* Control.                                                                *)

SetTop(fr) == frames' = [frames EXCEPT ![Len(frames)] = fr]

\* The current frame goes on behind the instruction, or at another place.
GoTo(stack, pc) == SetTop([Top EXCEPT !.stack = stack, !.pc = pc])
Continue(stack) == GoTo(stack, Top.pc + 1)

Throw(v) ==
    /\ thrown' = <<v>>
    /\ UNCHANGED <<frames, heap, refs, globals>>

\* opcodes that only move values: how many they take, and which of those they
\* leave, counted from the bottom.
Moves ==
    [drop |-> <<>>, nip |-> <<2>>, dup |-> <<1, 1>>, dup2 |-> <<1, 2, 1, 2>>,
     insert2 |-> <<2, 1, 2>>, insert3 |-> <<3, 1, 2, 3>>, perm3 |-> <<2, 1, 3>>,
     perm4 |-> <<3, 1, 2, 4>>, swap |-> <<2, 1>>, rot3l |-> <<2, 3, 1>>]

Move ==
    /\ At(DOMAIN Moves)
    /\ LET n == opcode_info[Instr[1]][1]
           m == Moves[Instr[1]]
       IN Continue(Under(n) \o [i \in DOMAIN m |-> Operands(n)[m[i]]])
    /\ UNCHANGED <<program, heap, refs, globals, thrown, outcome>>

Push ==
    /\ At({"push_value", "undefined", "push_this", "this_func", "new_target"})
    /\ Continue(Append(Stack,
         CASE Instr[1] = "push_value" -> Arg
           [] Instr[1] = "undefined" -> Undefined
           [] Instr[1] = "push_this" -> Top.this
           [] Instr[1] = "this_func" -> Ref(Top.func)
           [] Instr[1] = "new_target" -> IF Top.ctor THEN Ref(Top.func) ELSE Undefined))
    /\ UNCHANGED <<program, heap, refs, globals, thrown, outcome>>

\* A new object, with what it takes from the stack.
Create ==
    /\ At({"object", "array_from", "arguments"})
    /\ LET n == IF Instr[1] = "array_from" THEN Arg ELSE 0
       IN /\ heap' = Append(heap, IF Instr[1] = "object" THEN Object(0)
                                  ELSE IF Instr[1] = "arguments"
                                  THEN Array(SubSeq(Top.args, 1, Top.argc))
                                  ELSE Array(Operands(n)))
          /\ Continue(Append(Under(n), Ref(Len(heap) + 1)))
    /\ UNCHANGED <<program, refs, globals, thrown, outcome>>

Locals ==
    /\ At({"get_loc", "put_loc", "get_arg", "put_arg"})
    /\ CASE Instr[1] = "get_loc" -> Continue(Append(Stack, Top.locals[Arg]))
         [] Instr[1] = "get_arg" -> Continue(Append(Stack, Top.args[Arg]))
         [] Instr[1] = "put_loc" ->
              SetTop([Top EXCEPT !.locals[Arg] = Peek(1), !.stack = Under(1), !.pc = @ + 1])
         [] Instr[1] = "put_arg" ->
              SetTop([Top EXCEPT !.args[Arg] = Peek(1), !.stack = Under(1), !.pc = @ + 1])
    /\ UNCHANGED <<program, heap, refs, globals, thrown, outcome>>

----------------------------------------------------------------------------
(* Variables of other functions.  An open reference points into a frame; a *)
(* detached one holds the value.                                           *)

Open(level, kind, i) == [open |-> TRUE, level |-> level, kind |-> kind, idx |-> i]
Detached(v) == [open |-> FALSE, val |-> v]

Cell(fr, r) == IF r.kind = "arg" THEN fr.args[r.idx] ELSE fr.locals[r.idx]

Read(r) == IF r.open THEN Cell(frames[r.level], r) ELSE r.val

VarRef == refs[heap[Top.func].cells[Arg]]

\* Fault of Missing: a variable that is not there can be used.
Missing_Never(v) == FALSE

\* The nocheck opcodes are for typeof and for declarations.
Missing(v) == v = Uninitialized /\ Instr[1] \in {"get_var_ref", "put_var_ref"}

GetVarRef ==
    /\ At({"get_var_ref", "get_var_ref_nocheck"})
    /\ LET v == Read(VarRef)
       IN IF Missing(v)
          THEN Throw(String("ReferenceError"))
          ELSE Continue(Append(Stack, v)) /\ UNCHANGED <<heap, refs, globals, thrown>>
    /\ UNCHANGED <<program, outcome>>

PutVarRef ==
    /\ At({"put_var_ref", "put_var_ref_nocheck"})
    /\ LET r == VarRef
           done == [frames EXCEPT ![Len(frames)].stack = Under(1), ![Len(frames)].pc = @ + 1]
       IN IF Missing(Read(r))
          THEN Throw(String("ReferenceError"))
          ELSE /\ IF ~r.open
                  THEN /\ refs' = [refs EXCEPT ![heap[Top.func].cells[Arg]].val = Peek(1)]
                       /\ frames' = done
                  ELSE /\ frames' = IF r.kind = "arg"
                                    THEN [done EXCEPT ![r.level].args[r.idx] = Peek(1)]
                                    ELSE [done EXCEPT ![r.level].locals[r.idx] = Peek(1)]
                       /\ UNCHANGED refs
               /\ UNCHANGED <<heap, globals, thrown>>
    /\ UNCHANGED <<program, outcome>>

\* get_var_ref: the open reference to a variable of the frame, one for all
\* closures.
SameRef(a, want) == SelectInSeq(a, LAMBDA r : r = want)

\* js_closure: [refs, globals, cells] after the references of ext are made.
CloseOver(ext, a, level, own) ==
    LET Bind(b, v) ==
          IF v.kind = "ref" THEN [b EXCEPT !.cells = Append(@, own[v.idx])]
          ELSE IF v.kind \in {"arg", "var"}
          THEN LET want == Open(level, v.kind, v.idx)
                   k == SameRef(b.refs, want)
               IN IF k # 0 THEN [b EXCEPT !.cells = Append(@, k)]
                  ELSE [b EXCEPT !.refs = Append(@, want), !.cells = Append(@, Len(b.refs) + 1)]
          ELSE LET x == IF v.kind = "declared" THEN Undefined ELSE Uninitialized
               IN \* add_global_var
                  IF v.name \in DOMAIN b.globals
                  THEN LET k == b.globals[v.name]
                       IN [b EXCEPT !.cells = Append(@, k),
                                    !.refs[k].val = IF @ = Uninitialized THEN x ELSE @]
                  ELSE [b EXCEPT !.refs = Append(@, Detached(x)),
                                 !.globals = (v.name :> Len(b.refs) + 1) @@ @,
                                 !.cells = Append(@, Len(b.refs) + 1)]
    IN FoldLeft(Bind, a @@ [cells |-> <<>>], ext)

MakeClosure ==
    /\ At({"fclosure"})
    /\ LET path == Append(heap[Top.func].path, Arg)
           a == CloseOver(Fn(path).ext, [refs |-> refs, globals |-> globals],
                          Len(frames), heap[Top.func].cells)
       IN /\ heap' = Append(heap, Closure(path, a.cells))
          /\ refs' = a.refs /\ globals' = a.globals
          /\ Continue(Append(Stack, Ref(Len(heap) + 1)))
    /\ UNCHANGED <<program, thrown, outcome>>

----------------------------------------------------------------------------
(* Properties and operators.                                               *)

\* An opcode that takes n values and puts v in their place.
Yield(n, v) == Continue(Append(Under(n), v)) /\ UNCHANGED <<heap, refs, globals, thrown>>

Key == IF Instr[1] \in {"get_length", "get_length2"} THEN String("length") ELSE String(Arg)

\* Opcodes that end in 2 leave the object where it is.
GetField ==
    /\ At({"get_field", "get_field2", "get_length", "get_length2"})
    /\ IF Peek(1) = Undefined THEN Throw(String("TypeError"))
       ELSE Yield(IF Instr[1] \in {"get_field", "get_length"} THEN 1 ELSE 0, Get(Peek(1), Key))
    /\ UNCHANGED <<program, outcome>>

GetElement ==
    /\ At({"get_array_el", "get_array_el2"})
    /\ IF Peek(2) = Undefined THEN Throw(String("TypeError"))
       ELSE Yield(IF Instr[1] = "get_array_el" THEN 2 ELSE 1, Get(Peek(2), Peek(1)))
    /\ UNCHANGED <<program, outcome>>

PutField ==
    /\ At({"put_field", "put_array_el"})
    /\ LET n == IF Instr[1] = "put_array_el" THEN 3 ELSE 2
           key == IF Instr[1] = "put_array_el" THEN Peek(2) ELSE Key
       IN IF Peek(n) = Undefined THEN Throw(String("TypeError"))
          ELSE /\ heap' = [heap EXCEPT ![Peek(n)[2]] = Put(@, key, Peek(1))]
               /\ Continue(Under(n))
               /\ UNCHANGED <<refs, globals, thrown>>
    /\ UNCHANGED <<program, outcome>>

\* The parts of an object literal: the object stays.
DefineField ==
    /\ At({"define_field"})
    /\ heap' = [heap EXCEPT ![Peek(2)[2]] = Put(@, Key, Peek(1))]
    /\ Continue(Under(1))
    /\ UNCHANGED <<program, refs, globals, thrown, outcome>>

\* What is no object is no prototype; nothing refers to the literal yet, so
\* there is no cycle.
SetProto ==
    /\ At({"set_proto"})
    /\ heap' = IF IsObject(Peek(1)) THEN [heap EXCEPT ![Peek(2)[2]].proto = Peek(1)[2]] ELSE heap
    /\ Continue(Under(1))
    /\ UNCHANGED <<program, refs, globals, thrown, outcome>>

\* JS_DeleteProperty of an object's own property.
Delete ==
    /\ At({"delete"})
    /\ heap' = [heap EXCEPT ![Peek(2)[2]].props = SelectSeq(@, LAMBDA p : p[1] # Peek(1)[2])]
    /\ Continue(Append(Under(2), Bool(TRUE)))
    /\ UNCHANGED <<program, refs, globals, thrown, outcome>>

\* Bit k of a small integer, in two's complement: bit 30 is the sign.
Bit(n, k) == (n \div 2^(IF k < 30 THEN k ELSE 30)) % 2

\* The 32 bit integer of these bits, and the number of it when it has no sign.
Word(bits) ==
    LET low == FoldLeft(LAMBDA sum, k : sum + bits[k - 1] * 2^(k - 1), 0, [k \in 1 .. 31 |-> k])
    IN low - bits[31] * 2^30 - bits[31] * 2^30

\* >>> is for results that an integer of TLC holds.
Logic(op, a, b) ==
    LET s == b % 32
    IN Word([k \in 0 .. 31 |->
         CASE op = "and" -> Bit(a, k) * Bit(b, k)
           [] op = "or" -> Bit(a, k) + Bit(b, k) - Bit(a, k) * Bit(b, k)
           [] op = "xor" -> (Bit(a, k) + Bit(b, k)) % 2
           [] op = "shl" -> IF k < s THEN 0 ELSE Bit(a, k - s)
           [] op = "shr" -> IF k + s < 32 THEN Bit(a, k + s) ELSE 0
           [] op = "sar" -> Bit(a, k + s)])

LogicOps == {"and", "or", "xor", "shl", "shr", "sar"}

\* Of a natural by a positive number.
Remainder(a, b) == a % b

Binary(op, a, b) ==
    CASE op = "strict_eq" -> Bool(a = b)
      [] op = "strict_neq" -> Bool(a # b)
      [] op = "add" -> Num(a[2] + b[2])
      [] op = "sub" -> Num(a[2] - b[2])
      [] op = "mul" -> Num(a[2] * b[2])
      [] op = "lt" -> Bool(a[2] < b[2])
      [] op = "lte" -> Bool(a[2] <= b[2])
      [] op = "gt" -> Bool(a[2] > b[2])
      [] op = "gte" -> Bool(a[2] >= b[2])
      [] op = "mod" -> Num(Remainder(a[2], b[2]))
      [] op \in LogicOps -> Num(Logic(op, a[2], b[2]))

BinaryOps ==
    {"strict_eq", "strict_neq", "add", "sub", "mul", "lt", "lte", "gt", "gte", "mod"} \cup LogicOps

Unary(op, a) ==
    CASE op = "neg" -> Num(-a[2])
      [] op = "not" -> Num(-a[2] - 1)
      [] op \in {"inc", "post_inc"} -> Num(a[2] + 1)
      [] op \in {"dec", "post_dec"} -> Num(a[2] - 1)
      [] op = "lnot" -> Bool(~ToBool(a))
      [] op = "typeof" -> String(TypeName(a))

\* post_inc and post_dec leave the old value below the new one.
Operate ==
    /\ \/ At(BinaryOps) /\ Yield(2, Binary(Instr[1], Peek(2), Peek(1)))
       \/ At({"neg", "not", "inc", "dec", "lnot", "typeof"}) /\ Yield(1, Unary(Instr[1], Peek(1)))
       \/ At({"post_inc", "post_dec"}) /\ Yield(0, Unary(Instr[1], Peek(1)))
    /\ UNCHANGED <<program, outcome>>

\* JS_HasProperty: up the chain of prototypes.  The elements of an array are no
\* properties here: no index is in it.
RECURSIVE Has(_, _)
Has(k, name) ==
    LET o == heap[k]
    IN Slots(o, name) # 0 \/ (o.kind = "object" /\ o.proto # 0 /\ Has(o.proto, name))

js_operator_in ==
    /\ At({"in"})
    /\ IF ~IsObject(Peek(1)) THEN Throw(String("TypeError"))
       ELSE Yield(2, Bool(Peek(2)[1] = "string" /\ Has(Peek(1)[2], Peek(2)[2])))
    /\ UNCHANGED <<program, outcome>>

----------------------------------------------------------------------------
(* Jumps.                                                                  *)

Target == Func.lab[Arg]

\* Where the subroutine of a finally block returns to.
ReturnAddress == Top.pc + 1

Jump ==
    /\ \/ At({"goto"}) /\ GoTo(Stack, Target)
       \/ At({"if_false"}) /\ GoTo(Under(1), IF ToBool(Peek(1)) THEN Top.pc + 1 ELSE Target)
       \/ At({"if_true"}) /\ GoTo(Under(1), IF ToBool(Peek(1)) THEN Target ELSE Top.pc + 1)
       \/ At({"catch"}) /\ Continue(Append(Stack, <<"catch", Arg>>))
       \/ At({"gosub"}) /\ GoTo(Append(Stack, Num(ReturnAddress)), Target)
    /\ UNCHANGED <<program, heap, refs, globals, thrown, outcome>>

\* The address is checked: it must be an integer.
Ret ==
    /\ At({"ret"})
    /\ IF Peek(1)[1] # "int" THEN Throw(String("InternalError"))
       ELSE GoTo(Under(1), Peek(1)[2]) /\ UNCHANGED <<heap, refs, globals, thrown>>
    /\ UNCHANGED <<program, outcome>>

\* js_for_of_start: for...in walks over the names of the object.
IterStart ==
    /\ At({"for_of_start", "for_in_start"})
    /\ LET o == heap[Peek(1)[2]]
           names == Array([i \in DOMAIN o.props |-> String(o.props[i][1])])
           n == Len(heap)
       IN IF Instr[1] = "for_of_start" /\ ~IsArray(Peek(1)) THEN Throw(String("TypeError"))
          ELSE /\ heap' = heap \o (IF Instr[1] = "for_in_start" THEN <<names, Iterator(n + 1)>>
                                   ELSE <<Iterator(Peek(1)[2])>>)
               /\ Continue(Append(Under(1), Ref(Len(heap'))))
               /\ UNCHANGED <<refs, globals, thrown>>
    /\ UNCHANGED <<program, outcome>>

\* The value, and whether the iteration is done.
js_for_of_next(k) ==
    LET it == heap[k]
        array == heap[it.array].elements
    IN IF it.pos > Len(array)
       THEN Continue(Stack \o <<Undefined, Bool(TRUE)>>) /\ UNCHANGED heap
       ELSE /\ Continue(Stack \o <<array[it.pos], Bool(FALSE)>>)
            /\ heap' = [heap EXCEPT ![k].pos = @ + 1]

IterNext ==
    /\ At({"for_of_next"})
    /\ js_for_of_next(Peek(1)[2])
    /\ UNCHANGED <<program, refs, globals, thrown, outcome>>

----------------------------------------------------------------------------
(* Calls.                                                                  *)

Frame(func, path, this, args, ctor) ==
    LET f == Fn(path)
    IN [func |-> func, pc |-> 1, stack |-> <<>>, this |-> this, ctor |-> ctor,
        argc |-> Len(args), locals |-> [i \in 1 .. Len(f.vars) - f.argc |-> Undefined],
        args |-> args \o [i \in 1 .. f.argc - Len(args) |-> Undefined]]

\* The caller waits at the call with its operands gone.
Enter(n, func, this, args, ctor) ==
    frames' = Append([frames EXCEPT ![Len(frames)].stack = Under(n)],
                     Frame(func, heap[func].path, this, args, ctor))

\* call: func args; call_method: this func args; call_constructor: func args,
\* with a new object that has the function's prototype.
CallOp ==
    /\ At({"call", "call_method", "call_constructor"})
    /\ LET args == Operands(Arg)
           f == Peek(Arg + 1)
           proto == Find(f[2], "prototype")
       IN IF ~IsFunction(f) THEN Throw(String("TypeError"))
          ELSE /\ CASE Instr[1] = "call" ->
                         Enter(Arg + 1, f[2], Undefined, args, FALSE) /\ UNCHANGED heap
                    [] Instr[1] = "call_method" ->
                         Enter(Arg + 2, f[2], Peek(Arg + 2), args, FALSE) /\ UNCHANGED heap
                    [] Instr[1] = "call_constructor" ->
                         /\ heap' = Append(heap, Object(IF IsObject(proto) THEN proto[2] ELSE 0))
                         /\ Enter(Arg + 1, f[2], Ref(Len(heap) + 1), args, TRUE)
               /\ UNCHANGED <<refs, globals, thrown>>
    /\ UNCHANGED <<program, outcome>>

\* The variables of a frame that ends live on in the references to them.
Detach ==
    [k \in DOMAIN refs |-> IF refs[k].open /\ refs[k].level = Len(frames)
                           THEN Detached(Read(refs[k])) ELSE refs[k]]

\* The frame ends; the caller, if it is a script, goes on behind the call.
Leave(v) ==
    LET n == Len(frames) - 1
    IN /\ refs' = Detach
       /\ frames' = IF n = 0 THEN <<>>
                    ELSE [Front(frames) EXCEPT ![n].stack = Append(@, v), ![n].pc = @ + 1]
       /\ outcome' = IF n = 0 THEN <<"value", v>> ELSE outcome

ReturnOp ==
    /\ At({"return", "return_undef"})
    /\ LET v == IF Instr[1] = "return" THEN Peek(1) ELSE Undefined
       IN Leave(IF Top.ctor /\ ~IsObject(v) THEN Top.this ELSE v)
    /\ UNCHANGED <<program, heap, globals, thrown>>

ThrowOp ==
    /\ At({"throw"})
    /\ Throw(Peek(1))
    /\ UNCHANGED <<program, outcome>>

\* exception: the values of the frame are dropped down to a catch offset;
\* without one the frame ends and its caller has the exception.
Catch ==
    /\ outcome = <<>> /\ thrown # <<>>
    /\ LET k == SelectLastInSeq(Stack, LAMBDA v : v[1] = "catch")
       IN IF k # 0
          THEN /\ GoTo(Append(SubSeq(Stack, 1, k - 1), thrown[1]), Func.lab[Stack[k][2]])
               /\ thrown' = <<>>
               /\ UNCHANGED <<refs, outcome>>
          ELSE /\ frames' = Front(frames)
               /\ refs' = Detach
               /\ outcome' = IF Len(frames) = 1 THEN <<"throw", thrown[1]>> ELSE outcome
               /\ UNCHANGED thrown
    /\ UNCHANGED <<program, heap, globals>>

\* JS_Eval: a closure of the program without a frame around it.  A program
\* that does not parse is a SyntaxError.
Init ==
    /\ program \in DOMAIN Programs
    /\ LET a == CloseOver(Code[program].ext, [refs |-> <<>>, globals |-> <<>>], 0, <<>>)
       IN /\ heap = <<Closure(<<>>, a.cells)>>
          /\ refs = a.refs /\ globals = a.globals
    /\ thrown = <<>>
    /\ IF Code[program].err
       THEN frames = <<>> /\ outcome = <<"throw", String("SyntaxError")>>
       ELSE frames = <<Frame(1, <<>>, Undefined, <<>>, FALSE)>> /\ outcome = <<>>

Next ==
    \/ Move \/ Push \/ Create \/ Locals
    \/ GetVarRef \/ PutVarRef \/ MakeClosure
    \/ GetField \/ GetElement \/ PutField \/ DefineField \/ SetProto \/ Delete
    \/ Operate \/ js_operator_in
    \/ Jump \/ Ret \/ IterStart \/ IterNext
    \/ CallOp \/ ReturnOp \/ ThrowOp \/ Catch

Spec == Init /\ [][Next]_vars /\ WF_vars(Next)
=============================================================================
