----------------------------- MODULE GcCompact -----------------------------
(***************************************************************************)
(* gc_compact_heap of core/runtime/mquickjs.c: Jonkers' compaction.  It    *)
(* has no memory of its own: the places that refer to a block are threaded *)
(* onto the block's header word, and the header waits at the end of that   *)
(* chain until the new address of the block is known.                      *)
(*                                                                         *)
(* Memory is a function from addresses to words.  The heap starts at 1;    *)
(* the roots are the words that follow it.                                 *)
(***************************************************************************)
EXTENDS Naturals, FiniteSets

CONSTANTS
    Layouts, \* bound: the heaps: where they end, the sizes of their blocks
             \* by address, and which blocks are live
    Roots    \* number of roots

Words(l, b) == b .. b + l.size[b] - 1

\* A heap is block after block: no word is in none, or in two.
IsLayout(l) ==
    /\ l.end \in Nat \ {0}
    /\ DOMAIN l.size \subseteq Nat \ {0}
    /\ l.size \in [DOMAIN l.size -> Nat \ {0}]
    /\ l.live \subseteq DOMAIN l.size
    /\ \A a \in 1 .. l.end - 1 : \E b \in DOMAIN l.size : a \in Words(l, b)
    /\ \A b \in DOMAIN l.size : b + l.size[b] <= l.end
    /\ \A b, c \in DOMAIN l.size : b < c => b + l.size[b] <= c

ASSUME GcCompactAssumption ==
    /\ Roots \in Nat
    /\ \A l \in Layouts : IsLayout(l)

VARIABLES
    layout, \* the heap as the sweep left it
    before, \* memory as the sweep left it
    mem,    \* memory
    free,   \* ctx->heap_free
    pc,
    ptr,    \* the block looked at
    new,    \* where it goes
    pos     \* next root, or next field of the block

compactVars == <<layout, before, mem, free, pc, ptr, new, pos>>

----------------------------------------------------------------------------

Pointer(a) == [tag |-> "pointer", n |-> a]
Header(l, b) == [tag |-> IF b \in l.live THEN "header" ELSE "free", n |-> l.size[b]]
Plain == [tag |-> "value", n |-> 0]

\* JS_IsPtr; the mark bit of a header is clear, so a header is no pointer.
IsPtr(w) == w.tag = "pointer"

\* get_mblock_size, of a block whose header is in its place
SizeAt(a) == mem[a].n

RootWords(l) == l.end .. l.end + Roots - 1
LiveWords(l) == UNION {Words(l, b) : b \in l.live}
Fields(l) == LiveWords(l) \ l.live
Places(l) == Fields(l) \cup RootWords(l)

\* Which block a place refers to, if any: a live one, and never the block
\* the field is in.
References(l) ==
    {to \in [Places(l) -> {0} \cup l.live] :
        \A a \in Places(l) : to[a] # 0 => a \notin Words(l, to[a])}

\* What the sweep leaves.  A free block still holds what was in it.
Memory(l, to) ==
    [a \in 1 .. l.end + Roots - 1 |->
        IF a \in Places(l) THEN IF to[a] = 0 THEN Plain ELSE Pointer(to[a])
        ELSE IF a \in DOMAIN l.size THEN Header(l, a)
             ELSE Pointer(1)]

CompactInit ==
    /\ layout \in Layouts
    /\ \E to \in References(layout) : before = Memory(layout, to)
    /\ mem = before
    /\ free = layout.end
    /\ pc = "roots"
    /\ ptr = 1 /\ new = 1
    /\ pos = layout.end

\* The place a joins the chain of the block it refers to.
gc_thread_pointer(a) ==
    mem' = IF IsPtr(mem[a])
           THEN [mem EXCEPT ![a] = mem[mem[a].n], ![mem[a].n] = Pointer(a)]
           ELSE mem

ThreadRoot ==
    /\ pc = "roots"
    /\ IF pos \in RootWords(layout)
       THEN gc_thread_pointer(pos) /\ pos' = pos + 1 /\ UNCHANGED pc
       ELSE pc' = "pass1" /\ UNCHANGED <<mem, pos>>
    /\ UNCHANGED <<layout, before, free, ptr, new>>

\* Fault of Unthread: the block's old address is stored.
Unthread_Old ==
    /\ pc \in {"pass1", "pass2"}
    /\ ptr < free
    /\ IsPtr(mem[ptr])
    /\ mem' = [mem EXCEPT ![ptr] = mem[mem[ptr].n], ![mem[ptr].n] = Pointer(ptr)]
    /\ UNCHANGED <<layout, before, free, pc, ptr, new, pos>>

\* gc_update_threaded_pointers, one turn of its loop: a place leaves the
\* chain with the address the block will have.
Unthread ==
    /\ pc \in {"pass1", "pass2"}
    /\ ptr < free
    /\ IsPtr(mem[ptr])
    /\ mem' = [mem EXCEPT ![ptr] = mem[mem[ptr].n], ![mem[ptr].n] = Pointer(new)]
    /\ UNCHANGED <<layout, before, free, pc, ptr, new, pos>>

\* The header is back in its place: look at the block.
AtBlock == ptr < free /\ ~IsPtr(mem[ptr])

SkipFree ==
    /\ pc \in {"pass1", "pass2"} /\ AtBlock
    /\ mem[ptr].tag = "free"
    /\ ptr' = ptr + SizeAt(ptr)
    /\ UNCHANGED <<layout, before, mem, free, pc, new, pos>>

\* gc_thread_block reads what kind of block it is first; its fields follow.
BeginThread ==
    /\ pc = "pass1" /\ AtBlock
    /\ mem[ptr].tag = "header"
    /\ pc' = "thread"
    /\ pos' = ptr + 1
    /\ UNCHANGED <<layout, before, mem, free, ptr, new>>

ThreadField ==
    /\ pc = "thread"
    /\ IF pos < ptr + SizeAt(ptr)
       THEN /\ gc_thread_pointer(pos)
            /\ pos' = pos + 1
            /\ UNCHANGED <<pc, ptr, new>>
       ELSE /\ pc' = "pass1"
            /\ ptr' = ptr + SizeAt(ptr)
            /\ new' = new + SizeAt(ptr)
            /\ UNCHANGED <<mem, pos>>
    /\ UNCHANGED <<layout, before, free>>

BeginPass2 ==
    /\ pc = "pass1" /\ ptr = free
    /\ pc' = "pass2"
    /\ ptr' = 1 /\ new' = 1
    /\ UNCHANGED <<layout, before, mem, free, pos>>

\* The words of a block, at the place where it goes.
Slid(m, from, to, size) ==
    [a \in DOMAIN m |-> IF a \in to .. to + size - 1 THEN m[from + (a - to)] ELSE m[a]]

\* Pass 2 moves the block once its header and its own place are final.
Move ==
    /\ pc = "pass2" /\ AtBlock
    /\ mem[ptr].tag = "header"
    /\ mem' = Slid(mem, ptr, new, SizeAt(ptr))
    /\ ptr' = ptr + SizeAt(ptr)
    /\ new' = new + SizeAt(ptr)
    /\ UNCHANGED <<layout, before, free, pc, pos>>

Compacted ==
    /\ pc = "pass2" /\ ptr = free
    /\ free' = new
    /\ pc' = "done"
    /\ UNCHANGED <<layout, before, mem, ptr, new, pos>>

CompactNext ==
    \/ ThreadRoot \/ Unthread \/ SkipFree \/ BeginThread \/ ThreadField
    \/ BeginPass2 \/ Move \/ Compacted

CompactSpec == CompactInit /\ [][CompactNext]_compactVars

----------------------------------------------------------------------------

\* Where a block goes: behind the live words in front of it.
NewStart(l, b) == 1 + Cardinality({a \in LiveWords(l) : a < b})

\* A word as it must read when every block has moved.
Relocated(w) == IF IsPtr(w) THEN Pointer(NewStart(layout, w.n)) ELSE w

CompactTypeOK ==
    /\ layout \in Layouts
    /\ DOMAIN mem = 1 .. layout.end + Roots - 1
    /\ \A a \in DOMAIN mem : /\ mem[a].tag \in {"pointer", "header", "free", "value"}
                             /\ mem[a].n \in Nat
                             /\ IsPtr(mem[a]) => mem[a].n \in DOMAIN mem
    /\ pc \in {"roots", "pass1", "thread", "pass2", "done"}
    /\ new <= ptr /\ ptr <= layout.end /\ free <= layout.end

\* The program sees no difference: the live blocks slide down in their
\* order, without gaps, and every field and root refers to what it did.
HeapIsTheSame ==
    pc = "done" =>
       /\ free = NewStart(layout, layout.end)
       /\ \A b \in layout.live : \A d \in 0 .. layout.size[b] - 1 :
             mem[NewStart(layout, b) + d] = Relocated(before[b + d])
       /\ \A a \in RootWords(layout) : mem[a] = Relocated(before[a])

\* Where the chain that starts in word a ends.
ChainEnd(a) ==
    LET follow[n \in Nat] ==
          IF n = 0 THEN a
          ELSE LET last == follow[n - 1]
               IN  IF IsPtr(mem[last]) THEN mem[last].n ELSE last
    IN  follow[Cardinality(DOMAIN mem)]

\* No header is lost on the way: from a block that has not moved yet its
\* chain leads to its own header.
HeaderIsKept ==
    pc # "done" =>
       \A b \in layout.live :
          pc # "pass2" \/ b >= ptr => mem[ChainEnd(b)] = Header(layout, b)

\* The compaction is over.
CompactionOver == pc = "done"
=============================================================================
