------------------------------ MODULE MCMemory ------------------------------
(* The memory of a context and what guards it, for TLC: the heap and the    *)
(* stack that grow towards each other (Heap), the marking of what is alive  *)
(* (GcMark), the compaction of the heap (GcCompact), the property tables,   *)
(* which a compaction leaves hashed by old addresses (PropertyTable), the   *)
(* views of array buffers (TypedArrays) and the loop that counts calls, gas *)
(* and the depth of the recursion (Interp).  A behaviour is one of them;    *)
(* the others stay as they began, or are not there.                         *)
EXTENDS Heap, MCGcMark, GcCompact, TypedArrays, Interp, TLC

CONSTANTS
    Parts,          \* which of the components
    TableHashes     \* Hashes of PropertyTable

VARIABLES
    part,
    table, hash

\* A free block before, between and behind live ones, blocks that refer
\* forwards and backwards and to one another, and several places that refer
\* to the same block.
MCLayouts ==
    {[end |-> 11, size |-> 1 :> 1 @@ 2 :> 3 @@ 5 :> 2 @@ 7 :> 2 @@ 9 :> 2, live |-> {2, 5, 9}],
     [end |-> 11, size |-> 1 :> 2 @@ 3 :> 2 @@ 5 :> 2 @@ 7 :> 3 @@ 10 :> 1, live |-> {1, 5, 7}],
     [end |-> 11, size |-> 1 :> 3 @@ 4 :> 2 @@ 6 :> 1 @@ 7 :> 4, live |-> {4, 6, 7}]}

\* Keys that collide in small tables and others that do not, before and after
\* a collection.  A literal with room for eight properties is compacted when
\* all but one are deleted.
MCHashes == {[a |-> 0, b |-> 1, c |-> 2],
             [a |-> 0, b |-> 2, c |-> 0]}

\* Bytes of four values, elements of one and of two bytes.
MCSize == "uint8c" :> 1 @@ "int16" :> 2
MCSigned == "uint8c" :> FALSE @@ "int16" :> TRUE
MCNumbers == {-3, 14}
MCIndices == {-2, 0, 2, 4}

\* Words for instructions.
Op(r) == [op |-> "op", result |-> r]
Ret(r) == [op |-> "return", result |-> r]
Call(f) == [op |-> "call", f |-> f]
Get(f) == [op |-> "get", f |-> f]
Each(f, n) == [op |-> "each", f |-> f, times |-> n]
Sort(f, n) == [op |-> "sort", f |-> f, times |-> n]
If(l) == [op |-> "if", to |-> l]
Goto(l) == [op |-> "goto", to |-> l]
Catch(l) == [op |-> "catch", to |-> l]
Drop == [op |-> "drop"]
Raise == [op |-> "throw"]

\* Recursion through a conditional, and a throw on the way.
Recursive(r) ==
    (Main :> <<Call("f"), Op(r), Call("f"), Ret(r)>>) @@
    ("f" :> <<If(4), Call("f"), Ret(r), If(6), Ret(r), Raise>>)

\* A builtin calls back a function that calls one.
CallBacks(r) ==
    (Main :> <<Each("f", 2), Op("plain"), Call("g"), Ret(r)>>) @@
    ("f" :> <<If(3), Each("g", 2), Call("g"), Ret(r)>>) @@
    ("g" :> <<If(3), Raise, Ret(r)>>)

\* A sort whose comparator throws, or not, or is interrupted, in a handler and
\* below another builtin.
Sorts ==
    (Main :> <<Catch(4), Each("f", 1), Drop, Sort("g", 2), Ret("plain")>>) @@
    ("f" :> <<Sort("g", 2), Ret("call")>>) @@
    ("g" :> <<If(3), Raise, Op("plain"), Ret("plain")>>)

Getter ==
    (Main :> <<Get("g"), Op("plain"), Call("g"), Ret("plain")>>) @@
    ("g" :> <<If(3), Op("plain"), Ret("plain")>>)

\* Precompiled code has loops and handlers, which the parser refuses.
Loops ==
    (Main :> <<Catch(5), Call("f"), Drop, Ret("plain"), If(2), Ret("plain")>>) @@
    ("f" :> <<Catch(4), Each("g", 1), Drop, Goto(1)>>) @@
    ("g" :> <<If(3), Raise, If(1), Ret("plain")>>)

MCPrograms == {Recursive("plain"), Recursive("call"), CallBacks("plain"),
               CallBacks("call"), Sorts, Getter, Loops}
\* No handler and no builtin: only the gas matters.
MCGas == {Recursive("plain"), Recursive("call")}

Table == INSTANCE PropertyTable WITH
    Keys <- {"a", "b", "c"}, RomKeys <- {"a"}, Values <- {"v", "w"}, Hashes <- TableHashes,
    Prealloc <- {8}, MaxSlots <- 4, props <- table

heapVars == vars
tableVars == <<table, hash>>
allVars == <<part, heapVars, markVars, compactVars, tableVars, typedVars, loopVars>>

\* What the parts that are not there have for state.
Off == <<>>

InitAll ==
    /\ part \in Parts
    /\ Init
    /\ \/ part = "mark" /\ MarkInit
       \/ part # "mark" /\ mtag = Off /\ refs = [b \in Blocks |-> Off] /\ rootList = Off
                        /\ uniqueStrings = 0 /\ strPos = 0 /\ marked = {} /\ gsp = Off
                        /\ room = 0 /\ overflow = FALSE /\ cur = NoBlock /\ place = 0
                        /\ keptStrings = Off /\ cut = FALSE /\ phase = "off" /\ finalized = {}
    /\ \/ part = "compact" /\ CompactInit
       \/ part # "compact" /\ layout = Off /\ before = Off /\ mem = Off /\ free = Off
                           /\ pc = "off" /\ ptr = Off /\ new = Off /\ pos = Off
    /\ \/ part = "table" /\ Table!Init
       \/ part # "table" /\ table = Table!EmptyProps /\ hash = CHOOSE h \in TableHashes : TRUE
    /\ TypedInit
    /\ \/ part = "loop"
       \/ part # "loop" /\ code = (CHOOSE p \in Programs : TRUE) /\ gas = 0 /\ counter = 0
    /\ LoopInit

HeapStep ==
    /\ part = "heap" /\ Next
    /\ UNCHANGED <<part, markVars, compactVars, tableVars, typedVars, loopVars>>
MarkStep ==
    /\ part = "mark" /\ MarkNext
    /\ UNCHANGED <<part, heapVars, compactVars, tableVars, typedVars, loopVars>>
CompactStep ==
    /\ part = "compact" /\ CompactNext
    /\ UNCHANGED <<part, heapVars, markVars, tableVars, typedVars, loopVars>>
TableStep ==
    /\ part = "table" /\ Table!Next
    /\ UNCHANGED <<part, heapVars, markVars, compactVars, typedVars, loopVars>>
TypedStep ==
    /\ part = "typed" /\ TypedNext
    /\ UNCHANGED <<part, heapVars, markVars, compactVars, tableVars, loopVars>>
LoopStep ==
    /\ part = "loop" /\ LoopNext
    /\ UNCHANGED <<part, heapVars, markVars, compactVars, tableVars, typedVars>>

NextAll == HeapStep \/ MarkStep \/ CompactStep \/ TableStep \/ TypedStep \/ LoopStep

\* A call of the collector does not stop half way, and the interpreter is one
\* loop of one thread.
SpecAll == InitAll /\ [][NextAll]_allVars /\ WF_allVars(MarkStep \/ CompactStep \/ LoopStep)

-----------------------------------------------------------------------------
\* The constants of the tables are what their module assumes.
ASSUME TableAssumption == Table!PropertyAssumption

(* What the run checks; the parts are named in the components' modules.     *)

\* The types of the states; no header is lost while pointers are threaded, and
\* the slots and the buckets of a table agree.
TypesOK ==
    /\ TypeOK
    /\ part = "compact" => CompactTypeOK /\ HeaderIsKept
    /\ part = "table" => Table!TypeOK /\ Table!FindsWhatIsThere /\ Table!FreeIsFree
    /\ TypedTypeOK /\ LoopTypeOK

\* A collection comes to its end however often its stack overflows, as each
\* rescan marks one block more; so does the threading of pointers, as no chain is
\* a loop; and so does every call of the host, as every cycle of a program passes
\* a poll, but for a gas error whose val reads as a tail call (CallOver).
CollectionsAndCallsEnd ==
    <>(/\ part = "mark" => CollectionOver
       /\ part = "compact" => CompactionOver
       /\ part = "loop" => CallOver)

\* A table is the ordered list of properties that a script sees, through every
\* order of additions, deletions and collections.
ImplementsList == Table!ImplementsList

\* A copy between views that share no bytes is complete, and an element is
\* stored without a change of another.
ElementsAreStored == CopiesAreWhole /\ ElementsAreSeparate
=============================================================================
