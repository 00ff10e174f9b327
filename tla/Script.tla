------------------------------- MODULE Script -------------------------------
(***************************************************************************)
(* Programs from their source to their result: compiled by Codegen, run by *)
(* Machine, and compared with what Meaning says of their tree.             *)
(***************************************************************************)
EXTENDS Machine

CONSTANT Meanings  \* by name, what every program comes to: [s, x, v]

Reference == INSTANCE Meaning

\* The values of the constants: every program, compiled, and what the reference
\* says of its tree.
CompiledPrograms == <<>> @@ [i \in DOMAIN Programs |-> Compile(js_parse_program(Programs[i]))]
MeaningsOfPrograms == <<>> @@ [i \in DOMAIN Programs |-> Reference!Meaning(Programs[i])]

----------------------------------------------------------------------------
\* What scripts can hold; catch offsets and what marks a missing variable are
\* for the stack and for references only.
Values ==
    {Undefined, Bool(TRUE), Bool(FALSE)}
    \cup ({"int"} \X Int) \cup ({"string"} \X STRING) \cup ({"ref"} \X DOMAIN heap)

\* The type of the state: no catch offset and no uninitialized variable gets
\* into a variable, a property or an element (JS_Call, OP_get_var_ref).
TypeOK ==
    /\ program \in DOMAIN Programs
    /\ \A k \in DOMAIN heap :
          /\ heap[k].kind \in {"object", "array", "function", "iterator"}
          /\ \A i \in DOMAIN heap[k].props : heap[k].props[i][2] \in Values
          /\ heap[k].kind = "array" =>
               \A i \in DOMAIN heap[k].elements : heap[k].elements[i] \in Values
          /\ heap[k].kind = "function" =>
               \A i \in DOMAIN heap[k].cells : heap[k].cells[i] \in DOMAIN refs
    /\ \A k \in DOMAIN frames :
          /\ frames[k].pc \in DOMAIN Fn(heap[frames[k].func].path).code
          /\ \A i \in DOMAIN frames[k].locals : frames[k].locals[i] \in Values
          /\ \A i \in DOMAIN frames[k].args : frames[k].args[i] \in Values
    /\ \A k \in DOMAIN refs : ~refs[k].open => refs[k].val \in Values \cup {Uninitialized}
    /\ \A x \in DOMAIN globals : globals[x] \in DOMAIN refs
    /\ Len(thrown) <= 1
    /\ outcome = <<>> \/ (outcome[1] \in {"value", "throw"} /\ outcome[2] \in Values)

\* At every place that compute_stack_size reached, the stack is as high as it
\* found, and within what JS_Call reserved for the function: expressions, loops
\* that keep an iterator, blocks left by break, return or an exception, and the
\* subroutines of finally blocks.  It does not follow OP_catch into the code of
\* a handler, so of those places this says nothing: see ReserveIsTheMost.
StackIsReserved ==
    \A k \in DOMAIN frames :
        LET f == Fn(heap[frames[k].func].path)
        IN frames[k].pc \in DOMAIN f.depth =>
             /\ Len(frames[k].stack) <= f.stack_size
             /\ k = Len(frames) /\ thrown = <<>> => Len(frames[k].stack) = f.depth[frames[k].pc]

\* The stack size of a function is its "maximum stack size"
\* (core/runtime/mquickjs.c:391), wherever it is.  The code of a handler is not
\* counted, so it can take the frame past what JS_Call checked.
ReserveIsTheMost ==
    \A k \in DOMAIN frames : Len(frames[k].stack) <= Fn(heap[frames[k].func].path).stack_size

\* A variable that a closure refers to in a frame is in a frame that is still
\* there: what ends the frame, a return or an exception, detached it.
ReferencesOutliveFrames ==
    \A k \in DOMAIN refs : refs[k].open => refs[k].level <= Len(frames)

\* A value without addresses: the elements of an array count.
Plain(h, v) ==
    LET Flat(w) == IF w[1] = "ref" THEN <<h[w[2]].kind>> ELSE w
    IN IF v[1] # "ref" \/ h[v[2]].kind # "array" THEN Flat(v)
       ELSE [i \in DOMAIN h[v[2]].elements |-> Flat(h[v[2]].elements[i])]

\* The compiled program does what the source says: the same outcome, value or
\* exception, and the same things seen on the way, in the same order.
CompiledRunsAsWritten ==
    outcome # <<>> =>
        LET m == Meanings[program]
        IN <<outcome[1], Plain(heap, outcome[2])>> =
           <<IF m.x THEN "throw" ELSE "value", Plain(m.s.heap, m.v)>>

\* Every program of the instance ends: no jump of the generated code goes
\* around for ever.
ProgramsEnd == <>(outcome # <<>>)
=============================================================================
