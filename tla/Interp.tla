------------------------------- MODULE Interp -------------------------------
(***************************************************************************)
(* JS_Call of core/runtime/mquickjs.c: frames, builtins that call back,    *)
(* gas, the interrupt handler and the unwinding of exceptions.             *)
(*                                                                         *)
(* A function is a sequence of instructions, of which only what touches    *)
(* control is kept.  Of a value it only matters whether the interpreter    *)
(* takes it for an exception ("exception"), for a tail call ("call": its   *)
(* bits read as a special value >= JS_EX_CALL, as those of true, of an     *)
(* integer >= 16 or of a pointer do) or for neither ("plain").             *)
(***************************************************************************)
EXTENDS Naturals, SequencesExt, FiniteSets

CONSTANTS
    Programs,   \* bound: programs, functions from names to instructions
    GasLimit,   \* ctx->gas_limit
    PollEvery,  \* JS_INTERRUPT_COUNTER_INIT
    MaxCalls,   \* JS_MAX_CALL_RECURSE
    MaxLevels   \* frames the stack has memory for

Main == "main"

\* Instruction i of function f is one the compiler emits: what it names is
\* there, and only a return, a throw or a jump ends a function.
Emitted(program, f, i) ==
    LET instr == program[f][i] IN
    /\ instr.op \in {"op", "return", "throw", "call", "get", "each", "sort", "if", "goto", "catch", "drop"}
    /\ instr.op \in {"op", "return"} => instr.result \in {"plain", "call"}
    /\ instr.op \in {"call", "get", "each", "sort"} => instr.f \in DOMAIN program
    /\ instr.op \in {"each", "sort"} => instr.times \in Nat
    /\ instr.op \in {"if", "goto", "catch"} => instr.to \in 1 .. Len(program[f])
    /\ i = Len(program[f]) => instr.op \in {"return", "throw", "goto"}

ASSUME InterpAssumption ==
    /\ GasLimit \in Nat /\ PollEvery \in Nat \ {0}
    /\ MaxCalls \in Nat \ {0} /\ MaxLevels \in Nat /\ MaxLevels >= 2
    /\ \A program \in Programs :
          /\ Main \in DOMAIN program
          /\ \A f \in DOMAIN program :
                /\ Len(program[f]) \in Nat \ {0} /\ DOMAIN program[f] = 1 .. Len(program[f])
                /\ \A i \in 1 .. Len(program[f]) : Emitted(program, f, i)

VARIABLES
    code,        \* the program
    callFrames,  \* the stack of frames, the host's call at the bottom
    mode,        \* where in JS_Call the control is
    val,         \* the variable val
    tail,        \* the function a tail call names
    thrown,      \* ctx->current_exception
    uncatchable, \* ctx->current_exception_is_uncatchable
    gas,         \* ctx->gas_used
    counter,     \* ctx->interrupt_counter
    rec          \* ctx->js_call_rec_count

loopVars == <<code, callFrames, mode, val, tail, thrown, uncatchable, gas, counter, rec>>

----------------------------------------------------------------------------

Current == callFrames[Len(callFrames)]
Below == callFrames[Len(callFrames) - 1]
Instr == code[Current.fn][Current.pc]

Frame(f) == [kind |-> "js", fn |-> f, pc |-> 1, catch |-> <<>>]
\* What the builtin calls, how often at most, and whether it is sort.
Builtin(f, n, sorts) == [kind |-> "builtin", fn |-> f, left |-> n, sorts |-> sorts]
Host == [kind |-> "host"]

WithTop(fr) == [callFrames EXCEPT ![Len(callFrames)] = fr]
NextPc(fr) == [fr EXCEPT !.pc = @ + 1]
Popped == Front(callFrames)

\* The host calls a function of the script; earlier calls have used gas and
\* left the countdown anywhere, 0 in a new context.
LoopInit ==
    /\ code \in Programs
    /\ callFrames = <<Host, Frame(Main)>>
    /\ mode = "run"
    /\ val = "plain" /\ tail = Main
    /\ thrown = "none" /\ uncatchable = FALSE
    /\ gas \in 0 .. GasLimit /\ counter \in 0 .. PollEvery
    /\ rec = 1

\* JS_Throw
Throw(e) == thrown' = e /\ uncatchable' = FALSE

\* An opcode that throws: val is JS_EXCEPTION.
ThrowValue(e) == Throw(e) /\ val' = "exception" /\ mode' = "exception"

OutOfGas == gas >= GasLimit

\* POLL_INTERRUPT, and Go after it.  Without gas an error is thrown, and val
\* keeps the value it happens to have.
Poll(Go) ==
    \/ /\ OutOfGas
       /\ Throw("gas")
       /\ mode' = "exception"
       /\ UNCHANGED <<callFrames, val, tail, gas, counter, rec>>
    \/ /\ ~OutOfGas
       /\ gas' = gas + 1
       /\ counter' = IF counter <= 1 THEN PollEvery ELSE counter - 1
       /\ \/ Go
          \/ /\ counter <= 1
             /\ thrown' = "interrupted" /\ uncatchable' = TRUE
             /\ val' = "exception" /\ mode' = "exception"
             /\ UNCHANGED <<callFrames, tail, rec>>

\* JS_StackCheck fails: without room on the stack it throws, for a frame that
\* exceeds the heap budget it does not.  current_exception then holds none, or
\* an old one; "unthrown" stands for none, to tell it from other causes.
StackCheckFails ==
    \/ Len(callFrames) >= MaxLevels /\ Throw("memory")
    \/ /\ thrown' = IF thrown = "none" THEN "unthrown" ELSE thrown
       /\ UNCHANGED uncatchable

\* function_call: the frame of the function, if the stack has room for it.
EnterFrame(fr) ==
    \/ /\ Len(callFrames) < MaxLevels
       /\ callFrames' = Append(callFrames, fr)
       /\ mode' = IF fr.kind = "js" THEN "run" ELSE "builtin"
       /\ val' = IF fr.kind = "js" THEN val ELSE "plain"
       /\ UNCHANGED <<tail, thrown, uncatchable, rec>>
    \/ /\ StackCheckFails
       /\ val' = "exception" /\ mode' = "exception"
       /\ UNCHANGED <<callFrames, tail, rec>>

At(op) == mode = "run" /\ Instr.op = op

\* Any opcode that only computes a value.
Compute ==
    /\ At("op")
    /\ val' = Instr.result
    /\ callFrames' = WithTop(NextPc(Current))
    /\ UNCHANGED <<code, mode, tail, thrown, uncatchable, gas, counter, rec>>

\* OP_throw, and any opcode that fails
Fails ==
    /\ At("throw")
    /\ ThrowValue("error")
    /\ UNCHANGED <<code, callFrames, tail, gas, counter, rec>>

\* Where a jump leads; OP_if_true and OP_if_false may fall through.
Jumps ==
    /\ \/ callFrames' = WithTop([Current EXCEPT !.pc = Instr.to])
       \/ Instr.op = "if" /\ callFrames' = WithTop(NextPc(Current))
    /\ UNCHANGED <<mode, val, tail, thrown, uncatchable, rec>>

\* OP_goto, OP_if_true and OP_if_false
Jump ==
    /\ At("goto") \/ At("if")
    /\ Poll(Jumps)
    /\ UNCHANGED code

\* OP_call and its variants
CallFunction ==
    /\ At("call")
    /\ Poll(EnterFrame(Frame(Instr.f)))
    /\ UNCHANGED code

\* .. of a builtin that calls a function for each element of an array, or to
\* compare two of them
CallBuiltin ==
    /\ At("each") \/ At("sort")
    /\ Poll(EnterFrame(Builtin(Instr.f, Instr.times, Instr.op = "sort")))
    /\ UNCHANGED code

\* A property with a getter: JS_GetProperty leaves the call to JS_Call.
GetProperty ==
    /\ At("get")
    /\ val' = "call" /\ tail' = Instr.f
    /\ mode' = "exception"
    /\ UNCHANGED <<code, callFrames, thrown, uncatchable, gas, counter, rec>>

\* OP_catch, and OP_drop at the end of the block
PushCatch ==
    /\ At("catch")
    /\ callFrames' = WithTop([NextPc(Current) EXCEPT !.catch = Append(@, Instr.to)])
    /\ UNCHANGED <<code, mode, val, tail, thrown, uncatchable, gas, counter, rec>>

DropCatch ==
    /\ At("drop")
    /\ callFrames' = WithTop([NextPc(Current) EXCEPT !.catch = Front(@)])
    /\ UNCHANGED <<code, mode, val, tail, thrown, uncatchable, gas, counter, rec>>

ReturnValue ==
    /\ At("return")
    /\ val' = Instr.result
    /\ mode' = "return"
    /\ UNCHANGED <<code, callFrames, tail, thrown, uncatchable, gas, counter, rec>>

\* The label exception: a tail call ..
TailCall ==
    /\ mode = "exception" /\ val = "call"
    /\ Poll(EnterFrame(Frame(tail)))
    /\ UNCHANGED code

CatchException ==
    /\ callFrames' = WithTop([Current EXCEPT !.pc = Last(Current.catch), !.catch = Front(@)])
    /\ thrown' = "none" /\ mode' = "run"

LeaveFrame == mode' = "return" /\ UNCHANGED <<callFrames, thrown>>

\* Fault of Unwind: what must not be caught is caught.
Unwind_Catches ==
    /\ mode = "exception" /\ val # "call"
    /\ IF Current.catch = <<>> THEN LeaveFrame ELSE CatchException
    /\ UNCHANGED <<code, val, tail, uncatchable, gas, counter, rec>>

\* .. or the frame's innermost catch, or the end of the frame.
Unwind ==
    /\ mode = "exception" /\ val # "call"
    /\ IF uncatchable \/ Current.catch = <<>> THEN LeaveFrame ELSE CatchException
    /\ UNCHANGED <<code, val, tail, uncatchable, gas, counter, rec>>

\* The calling function goes on behind the call, or unwinds in its turn.
Resume(v) ==
    IF v = "exception"
    THEN mode' = "exception" /\ callFrames' = Popped
    ELSE mode' = "run" /\ callFrames' = [Popped EXCEPT ![Len(Popped)] = NextPc(@)]

\* Fault of Return: an exception leaves JS_Call by a way of its own.
Return_Uncounted ==
    /\ mode = "return"
    /\ IF Below.kind = "js"
       THEN Resume(val) /\ UNCHANGED rec
       ELSE /\ callFrames' = Popped
            /\ mode' = IF Below.kind = "host" THEN "done" ELSE "builtin"
            /\ rec' = IF val = "exception" THEN rec ELSE rec - 1
    /\ UNCHANGED <<code, val, tail, thrown, uncatchable, gas, counter>>

\* generic_return; the frame below may be that of the C code JS_Call was
\* called from.
Return ==
    /\ mode = "return"
    /\ IF Below.kind = "js"
       THEN Resume(val) /\ UNCHANGED rec
       ELSE /\ callFrames' = Popped
            /\ mode' = IF Below.kind = "host" THEN "done" ELSE "builtin"
            /\ rec' = rec - 1
    /\ UNCHANGED <<code, val, tail, thrown, uncatchable, gas, counter>>

\* JS_Call from the builtin on top: it refuses to nest too deep, or to leave
\* the stack.
NestedCall ==
    LET waiting == WithTop([Current EXCEPT !.left = @ - 1]) IN
    \/ /\ rec < MaxCalls /\ Len(callFrames) < MaxLevels
       /\ callFrames' = Append(waiting, Frame(Current.fn))
       /\ rec' = rec + 1
       /\ val' = "plain" /\ mode' = "run"
       /\ UNCHANGED <<thrown, uncatchable>>
    \/ /\ IF rec >= MaxCalls THEN Throw("recursion") ELSE StackCheckFails
       /\ val' = "exception"
       /\ callFrames' = waiting
       /\ UNCHANGED <<mode, rec>>

\* A builtin calls the function it was given for its next element.  To sort,
\* an exception of the function is one of its answers, and the next call is
\* made while it is pending.
CallBack ==
    /\ mode = "builtin" /\ Current.left > 0 /\ (val = "exception" => Current.sorts)
    /\ NestedCall
    /\ UNCHANGED <<code, tail, gas, counter>>

\* What sort does not lose: its own stack check failed, it sorts no array, or
\* an answer is no number.
SortFails ==
    /\ mode = "builtin" /\ Current.sorts
    /\ \/ Current.left > 0 /\ StackCheckFails
       \/ val # "exception" /\ Throw("error")
    /\ val' = "exception"
    /\ Resume(val')
    /\ UNCHANGED <<code, tail, gas, counter, rec>>

\* return_call of a builtin: the function it called threw, or it is through,
\* perhaps before the last element (every, some), with the result true.
BuiltinReturns ==
    /\ mode = "builtin"
    /\ \/ val = "exception" /\ ~Current.sorts /\ UNCHANGED val
       \/ (val = "exception" => Current.sorts) /\ val' = "call"
    /\ Resume(val')
    /\ UNCHANGED <<code, tail, thrown, uncatchable, gas, counter, rec>>

LoopNext == \/ Compute \/ Fails \/ Jump \/ CallFunction \/ CallBuiltin \/ GetProperty
        \/ PushCatch \/ DropCatch \/ ReturnValue
        \/ TailCall \/ Unwind \/ Return \/ CallBack \/ SortFails \/ BuiltinReturns

LoopSpec == LoopInit /\ [][LoopNext]_loopVars

----------------------------------------------------------------------------

LoopTypeOK ==
    /\ mode \in {"run", "exception", "return", "builtin", "done"}
    /\ val \in {"plain", "call", "exception"}
    /\ thrown \in {"none", "error", "gas", "interrupted", "memory", "recursion", "unthrown"}
    /\ uncatchable \in BOOLEAN
    /\ gas \in 0 .. GasLimit
    /\ counter \in 0 .. PollEvery
    /\ Len(callFrames) \in 1 .. MaxLevels
    /\ \A k \in 2 .. Len(callFrames) : callFrames[k].kind # "host"

\* js_call_rec_count is the number of JS_Calls under way, on whatever path
\* the ones that ended have left: else the host's calls run out.
RecursionIsCounted ==
    rec = Cardinality({k \in DOMAIN callFrames : callFrames[k].kind \in {"host", "builtin"}})
          - (IF mode \in {"builtin", "done"} THEN 1 ELSE 0)

\* JS_EXCEPTION is never returned without a pending exception, but where the
\* heap budget refused a frame.
ExceptionIsPending ==
    mode \in {"exception", "return", "builtin", "done"} /\ val = "exception"
       => thrown # "none"

\* Both: on every way out of JS_Call the count and the exception are right.
CallsAreCounted == RecursionIsCounted /\ ExceptionIsPending

\* A script that is interrupted runs no instruction any more, in whatever try
\* block or callback of a builtin it was, until the interruption has come to a
\* sort: sort calls its comparator again, and returns as if nothing had happened.
InterruptIsFinal ==
    [][uncatchable /\ val = "exception" /\ ~(mode = "builtin" /\ Current.sorts)
         => uncatchable' /\ val' = "exception" /\ mode' # "run"]_loopVars

\* core/runtime/mquickjs.h:260 on what the handler returns: "!= 0 if the JS code needs
\* to be interrupted".  Not so in the comparator of a sort.
InterruptStops ==
    [][uncatchable => uncatchable' /\ mode' # "run"]_loopVars

\* The call of the host is over; or the gas is used up while val reads as a
\* tail call.
CallOver == mode = "done" \/ (thrown = "gas" /\ val = "call")

\* requirements/TECHSPECV5.md: when the gas is used up the VM must terminate
\* with the deterministic error value.
ExhaustedGasTerminates ==
    thrown = "gas" ~> mode = "done" /\ thrown = "gas" /\ val = "exception"
=============================================================================
