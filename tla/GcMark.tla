------------------------------- MODULE GcMark -------------------------------
(***************************************************************************)
(* The mark and sweep phases of the collector: gc_mark_all and what it     *)
(* calls, in core/runtime/mquickjs.c.                                      *)
(*                                                                         *)
(* The blocks of the heap are 1 .. N in address order.  A field holds the  *)
(* number of a block, or 0 for a value that is no pointer into the heap.   *)
(* The mark stack lives in the free memory between the heap and the value  *)
(* stack, so it has whatever room is left there: a block that finds none   *)
(* is marked without being pushed, "overflow" is set, and once the roots   *)
(* are through the whole heap is walked again until nothing overflows.     *)
(***************************************************************************)
EXTENDS Naturals, Sequences, FiniteSets

CONSTANTS
    N,         \* blocks in the heap
    KindLists, \* bound: kinds of the blocks
    Lengths,   \* bound: numbers of fields a block may have
    RootLists, \* bound: values of the roots, in the order they are marked
    Tables,    \* bound: where unique_strings may be, 0 for JS_NULL
    Room       \* words between heap_free and sp

Blocks == 1 .. N
Values == 0 .. N

Kinds == {"leaf", "object", "array", "free"}

\* JS_StackCheck and js_malloc leave min_free_size (512) bytes, at least the
\* 256 of JS_MIN_CRITICAL_FREE_SIZE: never less than two words.
ASSUME GcMarkAssumption ==
    /\ N \in Nat /\ Room \in Nat /\ Room >= 2
    /\ KindLists \subseteq [Blocks -> Kinds]
    /\ Lengths \subseteq Nat /\ RootLists \subseteq Seq(Values)
    /\ Tables \subseteq Values

VARIABLES
    mtag,           \* what each block is: leaf, object, array or free
    refs,           \* its fields, in the order the collector visits them
    rootList,       \* the roots
    uniqueStrings,  \* ctx->unique_strings
    strPos,         \* string_pos_cache[].str
    marked,         \* blocks with gc_mark = 1
    gsp,            \* the mark stack: block and, for an array, next element
    room,           \* gsp - gs_bottom
    overflow,       \* s->overflow
    cur,            \* the object whose fields are being marked, and the next one
    place,          \* next root, or next block of the rescan
    keptStrings,    \* unique strings kept so far
    cut,            \* has the table of unique strings been shrunk?
    phase,
    finalized       \* blocks whose finalizer the sweep called

shape == <<mtag, refs, rootList, uniqueStrings, strPos>>
mark == <<marked, gsp, room, overflow>>
markVars == <<shape, mark, cur, place, keptStrings, cut, phase, finalized>>

FieldLists == UNION {[1 .. n -> Values] : n \in Lengths \cup {0}}
NoBlock == [blk |-> 0, pos |-> 1]

----------------------------------------------------------------------------

\* mtag_has_references
HasReferences(b) == mtag[b] \in {"object", "array"}

\* A value array is pushed with the index of its next element.
Width(b) == IF mtag[b] = "array" THEN 2 ELSE 1

\* A heap the mutator can have built: only what has references has fields,
\* nothing refers to a free block, and the table of unique strings is
\* reached through its own field of the context alone.
WellFormed(k, r, rs, t) ==
    /\ \A b \in Blocks : k[b] \in {"leaf", "free"} => r[b] = <<>>
    /\ \A b \in Blocks : \A i \in DOMAIN r[b] :
          r[b][i] # 0 => k[r[b][i]] # "free" /\ r[b][i] # t
    /\ \A i \in DOMAIN rs : rs[i] # 0 => k[rs[i]] # "free" /\ rs[i] # t
    /\ t # 0 => /\ k[t] = "array"
                /\ \A i \in DOMAIN r[t] : r[t][i] # 0 => k[r[t][i]] = "leaf"

\* JS_GC is called: whatever heap, roots and free memory the script left.
MarkInit ==
    /\ mtag \in KindLists
    /\ refs \in [Blocks -> FieldLists]
    /\ rootList \in RootLists
    /\ uniqueStrings \in Tables
    /\ WellFormed(mtag, refs, rootList, uniqueStrings)
    /\ strPos \in {0} \cup {b \in Blocks : mtag[b] = "leaf"}
    /\ marked = {} /\ gsp = <<>> /\ room = Room /\ overflow = FALSE
    /\ cur = NoBlock /\ place = 1
    /\ keptStrings = <<>> /\ cut = FALSE
    /\ phase = "roots"
    /\ finalized = {}

\* gc_mark(v), with the stack at s and m words left.
gc_mark(v, s, m) ==
    LET new == v # 0 /\ v \notin marked
        push == new /\ HasReferences(v)
        fits == push /\ m >= Width(v)
    IN  /\ marked' = IF new THEN marked \cup {v} ELSE marked
        /\ gsp' = IF fits THEN Append(s, [blk |-> v, pos |-> 1]) ELSE s
        /\ room' = IF fits THEN m - Width(v) ELSE m
        /\ overflow' = (overflow \/ (push /\ ~fits))

MarkTop == gsp[Len(gsp)]
MarkPopped == SubSeq(gsp, 1, Len(gsp) - 1)
Flushed == gsp = <<>> /\ cur.blk = 0

\* gc_mark_root, once the stack of the root before is flushed.
MarkRoot ==
    /\ phase = "roots" /\ Flushed
    /\ place <= Len(rootList)
    /\ gc_mark(rootList[place], gsp, room)
    /\ place' = place + 1
    /\ UNCHANGED <<shape, cur, keptStrings, cut, phase, finalized>>

\* The loops of gc_mark_flush.  An object's fields are all marked at once ..
PopObject ==
    /\ cur.blk = 0 /\ gsp # <<>>
    /\ mtag[MarkTop.blk] # "array"
    /\ gsp' = MarkPopped
    /\ room' = room + 1
    /\ cur' = IF refs[MarkTop.blk] = <<>> THEN NoBlock ELSE [blk |-> MarkTop.blk, pos |-> 1]
    /\ UNCHANGED <<shape, marked, overflow, place, keptStrings, cut, phase, finalized>>

MarkField ==
    /\ cur.blk # 0
    /\ gc_mark(refs[cur.blk][cur.pos], gsp, room)
    /\ cur' = IF cur.pos < Len(refs[cur.blk])
              THEN [blk |-> cur.blk, pos |-> cur.pos + 1] ELSE NoBlock
    /\ UNCHANGED <<shape, place, keptStrings, cut, phase, finalized>>

\* .. an array's one by one, and the array stays below the element.
Pending(e) == {i \in e.pos .. Len(refs[e.blk]) : refs[e.blk][i] # 0}

\* Fault of Remaining: the element that is marked is not left behind.
Remaining_Same(i) == [blk |-> MarkTop.blk, pos |-> i]

\* What of an array waits when its element i is marked.
Remaining(i) == [blk |-> MarkTop.blk, pos |-> i + 1]

PopArray ==
    /\ cur.blk = 0 /\ gsp # <<>>
    /\ mtag[MarkTop.blk] = "array"
    /\ \/ /\ Pending(MarkTop) = {}
          /\ gsp' = MarkPopped
          /\ room' = room + 2
          /\ UNCHANGED <<marked, overflow>>
       \/ \E i \in Pending(MarkTop) :
             /\ \A j \in Pending(MarkTop) : i <= j
             /\ IF i < Len(refs[MarkTop.blk])
                THEN gc_mark(refs[MarkTop.blk][i], Append(MarkPopped, Remaining(i)), room)
                ELSE gc_mark(refs[MarkTop.blk][i], MarkPopped, room + 2)
    /\ UNCHANGED <<shape, cur, place, keptStrings, cut, phase, finalized>>

\* Fault of PassEnds: one rescan is thought to be enough.
PassEnds_OneRescan ==
    /\ \/ phase = "roots" /\ place > Len(rootList)
       \/ phase = "rescan" /\ place > N
    /\ Flushed
    /\ IF overflow /\ phase = "roots"
       THEN phase' = "rescan" /\ place' = 1
       ELSE phase' = "weak" /\ place' = 1
    /\ overflow' = FALSE
    /\ UNCHANGED <<shape, marked, gsp, room, cur, keptStrings, cut, finalized>>

\* All roots are marked, or the heap has been walked: walk it, again, if
\* the stack overflowed in the meantime.
PassEnds ==
    /\ \/ phase = "roots" /\ place > Len(rootList)
       \/ phase = "rescan" /\ place > N
    /\ Flushed
    /\ IF overflow
       THEN phase' = "rescan" /\ place' = 1
       ELSE phase' = "weak" /\ place' = 1
    /\ overflow' = FALSE
    /\ UNCHANGED <<shape, marked, gsp, room, cur, keptStrings, cut, finalized>>

\* Fault of Rescan: every block with references is pushed, marked or not.
Rescan_All ==
    /\ phase = "rescan" /\ Flushed
    /\ place <= N
    /\ IF HasReferences(place)
       THEN /\ gsp' = Append(gsp, [blk |-> place, pos |-> 1])
            /\ room' = room - Width(place)
       ELSE UNCHANGED <<gsp, room>>
    /\ place' = place + 1
    /\ UNCHANGED <<shape, marked, overflow, cur, keptStrings, cut, phase, finalized>>

\* The rescan pushes without asking for room: the stack is empty then.
Rescan ==
    /\ phase = "rescan" /\ Flushed
    /\ place <= N
    /\ IF place \in marked /\ HasReferences(place)
       THEN /\ gsp' = Append(gsp, [blk |-> place, pos |-> 1])
            /\ room' = room - Width(place)
       ELSE UNCHANGED <<gsp, room>>
    /\ place' = place + 1
    /\ UNCHANGED <<shape, marked, overflow, cur, keptStrings, cut, phase, finalized>>

\* gc_mb_is_marked
Survives(v) == v # 0 /\ v \in marked

\* Fault of ClearedPos: the entry of a dead string is forgotten about.
ClearedPos_Kept == strPos

ClearedPos == IF Survives(strPos) THEN strPos ELSE 0

\* The unique strings that survive are moved to the front of their table.
KeepString ==
    /\ phase = "weak" /\ uniqueStrings # 0
    /\ place <= Len(refs[uniqueStrings])
    /\ keptStrings' = IF Survives(refs[uniqueStrings][place])
                    THEN Append(keptStrings, refs[uniqueStrings][place]) ELSE keptStrings
    /\ place' = place + 1
    /\ UNCHANGED <<shape, mark, cur, cut, phase, finalized>>

\* The table is shrunk to them, and goes when there are none; the position
\* caches of dead strings are cleared.
WeakReferences ==
    /\ phase = "weak"
    /\ uniqueStrings # 0 => place > Len(refs[uniqueStrings])
    /\ IF keptStrings = <<>>
       THEN uniqueStrings' = 0 /\ UNCHANGED <<refs, marked, cut>>
       ELSE /\ refs' = [refs EXCEPT ![uniqueStrings] = keptStrings]
            /\ cut' = (Len(keptStrings) < Len(refs[uniqueStrings]))
            /\ marked' = marked \cup {uniqueStrings}
            /\ UNCHANGED uniqueStrings
    /\ strPos' = ClearedPos
    /\ phase' = "sweep"
    /\ UNCHANGED <<mtag, rootList, gsp, room, overflow, cur, place, keptStrings, finalized>>

\* The block a run of dead ones starts with.  What was cut off the table is
\* a free block of its own, and the run that follows starts with it.
StartsRun(b) ==
    /\ b \notin marked
    /\ b > 1 => b - 1 \in marked /\ ~(cut /\ b - 1 = uniqueStrings)

\* The sweep turns every run of dead blocks into one free block; of a run
\* only the first block is looked at for a finalizer.
Sweep ==
    /\ phase = "sweep"
    /\ finalized' = {b \in Blocks : mtag[b] = "object" /\ StartsRun(b)}
    /\ mtag' = [b \in Blocks |-> IF b \in marked THEN mtag[b] ELSE "free"]
    /\ refs' = [b \in Blocks |-> IF b \in marked THEN refs[b] ELSE <<>>]
    /\ phase' = "swept"
    /\ UNCHANGED <<rootList, uniqueStrings, strPos, mark, cur, place, keptStrings, cut>>

Flush == PopObject \/ MarkField \/ PopArray

MarkNext == \/ MarkRoot \/ Flush \/ PassEnds \/ Rescan
            \/ KeepString \/ WeakReferences \/ Sweep

MarkSpec == MarkInit /\ [][MarkNext]_markVars

----------------------------------------------------------------------------

MarkTypeOK ==
    /\ mtag \in [Blocks -> Kinds]
    /\ refs \in [Blocks -> Seq(Values)]
    /\ rootList \in Seq(Values) /\ uniqueStrings \in Values /\ strPos \in Values
    /\ marked \subseteq Blocks
    /\ gsp \in Seq([blk : Blocks, pos : Nat \ {0}])
    /\ room \in 0 .. Room
    /\ overflow \in BOOLEAN /\ cut \in BOOLEAN
    /\ cur \in [blk : Values, pos : Nat \ {0}]
    /\ place \in Nat \ {0} /\ keptStrings \in Seq(Values)
    /\ phase \in {"roots", "rescan", "weak", "sweep", "swept"}
    /\ finalized \subseteq Blocks

\* C holds the roots and whatever a member refers to.
ClosedFromRoots(C) ==
    /\ \A i \in DOMAIN rootList : rootList[i] # 0 => rootList[i] \in C
    /\ \A b \in C : \A i \in DOMAIN refs[b] : refs[b][i] # 0 => refs[b][i] \in C

\* Nothing is kept that the program cannot reach: marked blocks are in every
\* set that holds the roots and is closed under references, during the
\* rescans too.  (The table of unique strings is kept for its strings.)
OnlyReachableMarked ==
    \A C \in SUBSET Blocks : ClosedFromRoots(C) => marked \ {uniqueStrings} \subseteq C

\* Nothing the program can reach is freed: when marking is over, however
\* often the stack overflowed, the marked blocks hold the roots and are
\* closed under references.
ReachableIsMarked ==
    phase \in {"weak", "sweep", "swept"} => ClosedFromRoots(marked)

\* After the sweep no weak reference is left to a freed block.
NoDanglingWeakReference ==
    phase = "swept" =>
       /\ strPos # 0 => mtag[strPos] # "free"
       /\ uniqueStrings # 0 => \A i \in DOMAIN refs[uniqueStrings] :
                         refs[uniqueStrings][i] # 0 /\ mtag[refs[uniqueStrings][i]] # "free"

\* The collection is over.
CollectionOver == phase = "swept"

\* The comment in the sweep says that it calls the user finalizer if needed;
\* of two dead objects side by side only the first one's is called.
EveryDeadObjectFinalized ==
    [][phase = "sweep" => {b \in Blocks : mtag[b] = "object"} \ marked
                         \subseteq finalized']_markVars
=============================================================================
