------------------------------- MODULE Calls -------------------------------
(***************************************************************************)
(* How the interpreter calls functions: one stack for the operands and the *)
(* arguments of all frames, the flags of a call, and tail calls, which let *)
(* an accessor and the built-in functions call, apply and bind start a     *)
(* function of the script without recursion in C.                          *)
(*                                                                         *)
(* An opcode leaves the interpreter in a callee and must find its stack,   *)
(* its program counter and its result when the callee returns.  What an    *)
(* opcode is for is kept in `due` when it starts, and compared when the    *)
(* frame runs again.  Gas, stack overflow and handlers are in Interp.      *)
(***************************************************************************)
EXTENDS Integers, Sequences

CONSTANTS
  Closures,         \* functions of the script
  ParameterCount,   \* of each of them
  Accessors,        \* the functions that properties have as getter and setter
  MaxCalls,         \* bound: opcodes the script executes
  MaxDepth          \* bound: frames of the script

VARIABLES
  stack,     \* every frame's words, the top first
  frames,    \* the frames of the script's functions, the running one first
  calling,   \* the flags of the call being set up, or None
  bound,     \* the functions that bind has made
  due,       \* what each frame's opcode is to end with, the last first
  calls      \* the opcodes executed

vars == <<stack, frames, calling, bound, due, calls>>

(***************************************************************************)
(* Values.                                                                 *)
(***************************************************************************)
Undefined == <<"undefined">>
Value(name) == <<"value", name>>
List(items) == <<"list", items>>
Closure(f) == <<"closure", f>>
Builtin(name) == <<"builtin", name>>
Bound(i) == <<"bound", i>>

None == [argc |-> -1, pop |-> FALSE, one |-> FALSE]

\* The flags of a call: how many arguments, whether the result is dropped, and
\* whether the opcode that called has no operand in the code.
Flags(argc, pop, one) == [argc |-> argc, pop |-> pop, one |-> one]

Drop(s, n) == SubSeq(s, n + 1, Len(s))

Padded(args, n) ==
  IF Len(args) >= n THEN args ELSE args \o [i \in 1 .. n - Len(args) |-> Undefined]

(***************************************************************************)
(* A frame: its program counter, the words that its call took, and flags.  *)
(***************************************************************************)
Frame(flags, width) ==
  [pc |-> 0, flags |-> flags, below |-> Len(stack) - (2 + flags.argc), width |-> width]

Running == frames[1]

\* The function that a call comes down to, with its `this` and arguments.
RECURSIVE Target(_, _, _)
Target(f, this, args) ==
  CASE f[1] = "bound" ->
         LET b == bound[f[2]] IN Target(b.func, b.this, b.args \o args)
    [] f = Builtin("call") ->
         LET a == Padded(args, 1) IN Target(this, a[1], Tail(a))
    [] f = Builtin("apply") ->
         LET a == Padded(args, 2)
         IN  IF a[2][1] = "list" THEN Target(this, a[1], a[2][2]) ELSE <<Undefined>>
    [] OTHER -> <<f, this, args>>

(***************************************************************************)
(* Opcodes of the running frame.  `s` is the stack with the operands, the  *)
(* top first; `rest` what the opcode leaves under its result.              *)
(***************************************************************************)
CanExecute ==
  /\ calling = None
  /\ frames # <<>>
  /\ calls < MaxCalls
  /\ Len(frames) <= MaxDepth
  /\ calls' = calls + 1

Due(rest, length, pushes, target) ==
  LET olds == IF Len(due) = Len(frames) THEN Tail(due) ELSE due
  IN  due' = <<[rest |-> rest, pc |-> Running.pc + length, pushes |-> pushes,
                target |-> target]>> \o olds

\* The call's pc is saved after the opcode, before its operand.
StartCall(s, flags) ==
  /\ stack' = s
  /\ calling' = flags
  /\ frames' = [frames EXCEPT ![1].pc = @ + 1]
  /\ UNCHANGED bound

\* A property that holds a value: the opcode ends at once.
Ends(s, length) ==
  /\ stack' = s
  /\ frames' = [frames EXCEPT ![1].pc = @ + length]
  /\ UNCHANGED <<calling, bound>>

\* get_field and get_field2 have the name in the code, get_array_el and
\* get_array_el2 on the stack; those with a 2 keep the object for a method call.
Get(object, getter, inCode, keeps) ==
  LET rest == IF keeps THEN <<object>> \o stack ELSE stack
      length == IF inCode THEN 3 ELSE 1
  IN  /\ CanExecute
      /\ Due(rest, length, TRUE, Target(getter, object, <<>>))
      /\ IF getter = Undefined THEN Ends(<<Value("data")>> \o rest, length)
         ELSE StartCall(<<object, getter>> \o rest, Flags(0, FALSE, ~inCode))

\* Fault of Put: the setter's result is not dropped.
Put_Pushes(object, setter, v, inCode) ==
  /\ CanExecute
  /\ Due(stack, IF inCode THEN 3 ELSE 1, FALSE, Target(setter, object, <<v>>))
  /\ setter # Undefined
  /\ StartCall(<<object, setter, v>> \o stack, Flags(1, FALSE, ~inCode))

Put(object, setter, v, inCode) ==
  LET length == IF inCode THEN 3 ELSE 1
  IN  /\ CanExecute
      /\ Due(stack, length, FALSE, Target(setter, object, <<v>>))
      /\ IF setter = Undefined THEN Ends(stack, length)
         ELSE StartCall(<<object, setter, v>> \o stack, Flags(1, TRUE, ~inCode))

\* call and call_method: the script pushes the object, the function and the
\* arguments, or only the last two, and the opcode reverses them.
CallMethod(object, f, args) ==
  /\ CanExecute
  /\ Due(stack, 3, TRUE, Target(f, object, args))
  /\ StartCall(<<object, f>> \o args \o stack, Flags(Len(args), FALSE, FALSE))

(***************************************************************************)
(* The call: `this`, the function and the arguments are on the stack.      *)
(***************************************************************************)
\* The result reaches the frame that waits for it.
ReturnTo(fs, below, flags, v) ==
  /\ stack' = IF flags.pop THEN below ELSE <<v>> \o below
  /\ frames' = [fs EXCEPT ![1].pc = @ + IF flags.one THEN 0 ELSE 2]

Fails ==
  /\ frames' = <<>> /\ stack' = <<>> /\ due' = <<>>
  /\ UNCHANGED bound

Callee == stack[2]

Args == SubSeq(stack, 3, 2 + calling.argc)

CallClosure ==
  LET f == Callee[2]
      width == 2 + IF calling.argc > ParameterCount[f] THEN calling.argc
                                                       ELSE ParameterCount[f]
  IN  /\ Callee[1] = "closure"
      /\ frames' = <<Frame(calling, width)>> \o frames
      /\ stack' = SubSeq(stack, 1, 2) \o Padded(Args, width - 2)
                    \o Drop(stack, 2 + calling.argc)
      /\ UNCHANGED <<bound, due>>

\* A built-in function that calls another: its frame is replaced by the new
\* arguments, and the flags of its own call are forgotten.
TailCall(this, f, args) ==
  /\ stack' = <<this, f>> \o args \o Drop(stack, 2 + calling.argc)
  /\ calling' = Flags(Len(args), FALSE, FALSE)
  /\ UNCHANGED <<frames, bound, due>>

js_function_call ==
  LET argv == Padded(Args, 1)
  IN  Callee = Builtin("call") /\ TailCall(argv[1], stack[1], Tail(argv))

js_function_apply ==
  LET argv == Padded(Args, 2)
  IN  /\ Callee = Builtin("apply")
      /\ IF argv[2][1] = "list"
         THEN TailCall(argv[1], stack[1], argv[2][2])
         ELSE Fails /\ calling' = None

js_function_bound ==
  /\ Callee[1] = "bound"
  /\ LET b == bound[Callee[2]] IN TailCall(b.this, b.func, b.args \o Args)

js_function_bind ==
  LET argv == Padded(Args, 1)
  IN  /\ Callee = Builtin("bind")
      /\ bound' = Append(bound, [func |-> stack[1], this |-> argv[1], args |-> Tail(argv)])
      /\ ReturnTo(frames, Drop(stack, 2 + calling.argc), calling, Bound(Len(bound) + 1))
      /\ calling' = None
      /\ UNCHANGED due

Call ==
  /\ calling # None
  /\ UNCHANGED calls
  /\ \/ CallClosure /\ calling' = None
     \/ js_function_call
     \/ js_function_apply
     \/ js_function_bound
     \/ js_function_bind
     \/ Callee[1] \notin {"closure", "builtin", "bound"} /\ Fails /\ calling' = None

Return(v) ==
  /\ calling = None /\ Len(frames) > 1
  /\ ReturnTo(Tail(frames), SubSeq(stack, Len(stack) - Running.below + 1, Len(stack)),
              Running.flags, v)
  /\ due' = IF Len(due) = Len(frames) THEN Tail(due) ELSE due
  /\ UNCHANGED <<calling, bound, calls>>

(***************************************************************************)
(* The specification.                                                      *)
(***************************************************************************)
Functions == {Closure(f) : f \in Closures} \cup {Bound(i) : i \in 1 .. Len(bound)}

Arguments == {<<>>, <<Value("a")>>, <<Value("a"), List(<<Value("b")>>)>>}

\* The functions that the accessors may be, of those there are.
AccessorFunctions ==
  {Undefined} \cup {f \in Functions : f[1] \in Accessors}

Init ==
  /\ stack = <<>>
  /\ frames = <<[pc |-> 0, flags |-> None, below |-> 0, width |-> 0]>>
  /\ calling = None
  /\ bound = <<>>
  /\ due = <<>>
  /\ calls = 0

Next ==
  \/ \E f \in AccessorFunctions, inCode, keeps \in BOOLEAN : Get(Value("o"), f, inCode, keeps)
  \/ \E f \in AccessorFunctions, inCode \in BOOLEAN : Put(Value("o"), f, Value("v"), inCode)
  \/ \E f \in Functions \cup {Value("o")}, args \in Arguments :
       \/ CallMethod(Undefined, f, args)
       \/ \E name \in {"call", "apply", "bind"} : CallMethod(f, Builtin(name), args)
  \/ Call
  \/ frames # <<>> /\ Return(Value("r"))

Spec == Init /\ [][Next]_vars

(***************************************************************************)
(* Properties.                                                             *)
(***************************************************************************)
TypeOK ==
  /\ calling = None \/ calling.argc \in 0 .. Len(stack) - 2
  /\ Len(due) <= Len(frames)
  /\ \A i \in 1 .. Len(frames) : frames[i].below + frames[i].width <= Len(stack)

\* When a frame runs again after an opcode that called, whatever was called in
\* between, it is at the next opcode, and its stack has lost the operands and
\* got the result of an opcode that has one.
OpcodesLand ==
  calling = None /\ frames # <<>> /\ Len(due) = Len(frames) =>
    /\ Running.pc = due[1].pc
    /\ IF due[1].pushes THEN Tail(stack) = due[1].rest ELSE stack = due[1].rest

\* The function which a call comes down to through call, apply and bind starts
\* with the `this` and the arguments those were given, the inner ones first.
CalleesGetTheirArguments ==
  calling = None /\ Len(frames) > 1 /\ Running.pc = 0 /\ Len(due) = Len(frames) - 1 =>
    LET t == due[1].target
    IN  /\ t[1] = stack[2]
        /\ t[2] = stack[1]
        /\ SubSeq(stack, 3, Running.width) = Padded(t[3], Running.width - 2)
=============================================================================
