-------------------------------- MODULE Heap --------------------------------
(***************************************************************************)
(* The memory of a context of core/runtime/mquickjs.c: the heap grows up,  *)
(* the stack down, and check_free_mem keeps a distance between the heap    *)
(* and stack_bottom, the depth the stack was last promised.                *)
(*                                                                         *)
(* Amounts are words.  A position on the stack is its depth, the words     *)
(* between it and stack_top, so ``lower'' in the code is ``more'' here.    *)
(***************************************************************************)
EXTENDS Integers, Sequences

CONSTANTS
    MemSize,  \* words for heap and stack
    CtxSize,  \* words of the JSContext in front of them
    Slack,    \* JS_STACK_SLACK
    MinFree,  \* JS_MIN_FREE_SIZE
    Critical, \* JS_MIN_CRITICAL_FREE_SIZE
    Message,  \* size of the message of an out of memory error
    Object,   \* size of its object
    Entry,    \* words a call pushes before it checks the stack
    MarkRoom, \* words the collector needs to rescan the heap
    Sizes,    \* bound: sizes of allocations
    Needs,    \* bound: words a call reserves
    MaxFrames \* bound: calls under way

ASSUME HeapAssumption ==
    /\ MemSize \in Nat /\ CtxSize \in Nat /\ Slack \in Nat
    /\ Critical \in Nat /\ MinFree \in Nat
    /\ Message \in Nat /\ Object \in Nat
    /\ Entry \in Nat /\ MarkRoom \in Nat /\ Entry + MarkRoom <= Critical
    /\ Sizes \subseteq Nat \ {0} /\ Needs \subseteq Nat
    /\ MinFree <= MemSize /\ MaxFrames \in Nat
    /\ Critical + Message + Object <= MinFree /\ Object > 0

VARIABLES
    live,    \* words of the heap in use
    garbage, \* words of the heap nobody uses
    errors,  \* words of out of memory errors in use
    exc,     \* the value JS_ThrowOutOfMemory threw last
    sp,      \* depth of the stack
    bottom,  \* depth of stack_bottom
    frames   \* the calls under way

vars == <<live, garbage, errors, exc, sp, bottom, frames>>
heap == <<live, garbage, errors, exc>>
stack == <<sp, bottom, frames>>

Top == frames[Len(frames)]

----------------------------------------------------------------------------

\* heap_free - heap_base
HeapSize == live + garbage + errors

Init ==
    /\ live = 0 /\ garbage = 0 /\ errors = 0 /\ exc = "none"
    /\ sp = 0 /\ bottom = 0 /\ frames = <<>>

\* size words behind h leave the reserve above depth b free.
Fits(h, b, size, reserve) == h + size + reserve + b <= MemSize

OverBudget(size) == HeapSize + size > CtxSize + MemSize

\* Fault of ThrowOutOfMemory: the error needs the usual distance, too.
ThrowOutOfMemory_NoReserve ==
    LET message == IF Fits(live + errors, bottom, Message, MinFree) THEN Message ELSE 0
        object  == Fits(live + errors + message, bottom, Object, MinFree)
    IN  /\ garbage' = IF object THEN 0 ELSE message
        /\ errors' = errors + IF object THEN message + Object ELSE 0
        /\ exc' = IF object THEN "object" ELSE "null"
        /\ UNCHANGED live

\* After a collection.  An allocation that fails in here throws null, and the
\* object does without a message.
ThrowOutOfMemory ==
    LET message == IF Fits(live + errors, bottom, Message, Critical) THEN Message ELSE 0
        object  == Fits(live + errors + message, bottom, Object, Critical)
    IN  /\ garbage' = IF object THEN 0 ELSE message
        /\ errors' = errors + IF object THEN message + Object ELSE 0
        /\ exc' = IF object THEN "object" ELSE "null"
        /\ UNCHANGED live

\* check_free_mem grants the request, and collects if that is needed ..
Granted(b, size) ==
    /\ ~OverBudget(size)
    /\ \/ Fits(HeapSize, b, size, MinFree) /\ UNCHANGED garbage
       \/ /\ ~Fits(HeapSize, b, size, MinFree)
          /\ Fits(live + errors, b, size, MinFree)
          /\ garbage' = 0
    /\ UNCHANGED <<errors, exc>>

\* .. or refuses it: at once, or because a collection did not help.
Refused(b, size) ==
    \/ OverBudget(size) /\ UNCHANGED heap
    \/ /\ ~OverBudget(size)
       /\ ~Fits(HeapSize, b, size, MinFree)
       /\ ~Fits(live + errors, b, size, MinFree)
       /\ ThrowOutOfMemory

js_malloc(size) ==
    /\ \/ Granted(bottom, size) /\ live' = live + size
       \/ Refused(bottom, size)
    /\ UNCHANGED stack

\* A block of n words is dropped, or js_shrink or js_free leaves it behind ..
Forget(n) ==
    /\ n <= live
    /\ live' = live - n /\ garbage' = garbage + n
    /\ UNCHANGED <<errors, exc, stack>>

\* .. or js_free gives it back, when it is the last one.
js_free(n) ==
    /\ n <= live
    /\ live' = live - n
    /\ UNCHANGED <<garbage, errors, exc, stack>>

ForgetErrors ==
    /\ garbage' = garbage + errors /\ errors' = 0 /\ exc' = "none"
    /\ UNCHANGED <<live, stack>>

JS_GC == garbage' = 0 /\ UNCHANGED <<live, errors, exc, stack>>

\* JS_StackCheck with e words more on the stack, and what follows if it is
\* granted.
JS_StackCheck(e, len, Go) ==
    LET b == sp + e + len + Slack
    IN  \/ /\ Granted(b, len + Slack)
           /\ bottom' = b
           /\ UNCHANGED live
           /\ Go
       \/ /\ Refused(b, len + Slack)
          /\ UNCHANGED stack

CallFrame(e, len) ==
    [kind |-> "call", from |-> sp, base |-> sp + e, limit |-> sp + e + len]

CanEnter == Len(frames) < MaxFrames /\ (frames # <<>> => Top.kind = "call")

\* A call: of a function, or of the C code that pushes its arguments.
Enter(e, len) ==
    /\ CanEnter
    /\ JS_StackCheck(e, len, /\ frames' = Append(frames, CallFrame(e, len))
                             /\ sp' = sp + e)

\* Within its reservation it pushes without a check.
JS_PushArg ==
    /\ frames # <<>> /\ Top.kind = "call" /\ sp < Top.limit
    /\ sp' = sp + 1
    /\ UNCHANGED <<heap, bottom, frames>>

Pop ==
    /\ frames # <<>> /\ Top.kind = "call" /\ sp > Top.base
    /\ sp' = sp - 1
    /\ UNCHANGED <<heap, bottom, frames>>

\* Its end, or that of the parser: stack_bottom stays where it is.
Leave ==
    /\ frames # <<>>
    /\ sp' = Top.from
    /\ frames' = SubSeq(frames, 1, Len(frames) - 1)
    /\ UNCHANGED <<heap, bottom>>

\* A parser checks push by push, and moves stack_bottom with it.
StartParser ==
    /\ CanEnter
    /\ frames' = Append(frames, [kind |-> "parser", from |-> sp, base |-> sp, limit |-> sp])
    /\ UNCHANGED <<heap, sp, bottom>>

\* Fault of js_parse_push_val: the word at stack_bottom is taken for free.
js_parse_push_val_Late ==
    /\ frames # <<>> /\ Top.kind = "parser"
    /\ sp' = sp + 1 /\ UNCHANGED <<heap, bottom, frames>>

js_parse_push_val ==
    /\ frames # <<>> /\ Top.kind = "parser"
    /\ IF sp >= bottom
       THEN JS_StackCheck(0, 1, sp' = sp + 1 /\ UNCHANGED frames)
       ELSE sp' = sp + 1 /\ UNCHANGED <<heap, bottom, frames>>

js_parse_pop_val ==
    /\ frames # <<>> /\ Top.kind = "parser" /\ sp > Top.base
    /\ sp' = sp - 1
    /\ bottom' = IF sp - 1 + Slack < bottom THEN sp - 1 + Slack ELSE bottom
    /\ UNCHANGED <<heap, frames>>

Next ==
    \/ \E size \in Sizes : js_malloc(size) \/ Forget(size) \/ js_free(size)
    \/ ForgetErrors \/ JS_GC
    \/ \E e \in 0 .. Entry, len \in Needs : Enter(e, len)
    \/ JS_PushArg \/ Pop \/ Leave
    \/ StartParser \/ js_parse_push_val \/ js_parse_pop_val

Spec == Init /\ [][Next]_vars

----------------------------------------------------------------------------

TypeOK ==
    /\ live \in Nat /\ garbage \in Nat /\ errors \in Nat
    /\ HeapSize + bottom + Critical <= MemSize
    /\ exc \in {"none", "object", "null"}
    /\ sp \in Nat /\ bottom \in Nat
    /\ frames \in Seq([kind : {"call", "parser"}, from : Nat, base : Nat, limit : Nat])

\* The collector marks with a stack that lies between the heap and sp: there
\* is always room for it, also in the middle of a call, and so heap and stack
\* never overlap.
RoomToMark == HeapSize + sp + Entry + MarkRoom <= MemSize

\* An out of memory error is an object, unless an earlier one is still in use.
OutOfMemoryIsAnObject == exc = "null" => errors > 0
=============================================================================
