---------------------------- MODULE PropertyTable ----------------------------
(***************************************************************************)
(* The properties of one object of core/runtime/mquickjs.c: a JSValueArray *)
(* with a count, a hash table and slots in the order of creation.  A key   *)
(* is hashed by its address, which every collection may change.            *)
(*                                                                         *)
(* Slots are numbered from 1, and 0 ends a chain; the code has the indices *)
(* of their words.  The last slot, while unused, holds the first free one. *)
(***************************************************************************)
EXTENDS Naturals, Sequences, FiniteSets, SequencesExt, FiniteSetsExt

CONSTANTS
    Keys,     \* property keys: strings and atoms
    RomKeys,  \* those that are atoms in ROM and never move
    Values,   \* values of properties
    Hashes,   \* bound: hash values keys may get, functions from Keys
    Prealloc, \* bound: properties an object literal has room for
    MaxSlots  \* bound: slots of a table

PropertyAssumption ==
    /\ RomKeys \subseteq Keys
    /\ Hashes \subseteq [Keys -> Nat]
    /\ \A f, g \in Hashes : \A k \in RomKeys : f[k] = g[k]
    /\ Prealloc \subseteq Nat /\ MaxSlots \in Nat

VARIABLES
    props, \* p->props
    hash   \* hash_prop of every key

vars == <<props, hash>>

Uninit == "uninitialized"  \* JS_UNINITIALIZED
Undef == "undefined"       \* JS_UNDEFINED

----------------------------------------------------------------------------

\* get_prop_hash_size_log2, as a number of buckets
HashSize(n) ==
    IF n <= 1 THEN 1
    ELSE CHOOSE s \in {2 ^ e : e \in 0 .. n} : s <= n - 1 /\ n - 1 < 2 * s

Words(t) == 2 + t.buckets + 3 * Len(t.slots)

Slot(k) == [key |-> k, value |-> Undef, next |-> 0]

\* ctx->empty_props, shared by all objects
EmptyProps == [rom |-> FALSE, count |-> 0, buckets |-> 1,
               heads |-> [b \in {0} |-> 0], slots |-> <<>>]

\* js_alloc_props
Allocated(n) ==
    [rom |-> FALSE, count |-> 0, buckets |-> HashSize(n),
     heads |-> [b \in 0 .. HashSize(n) - 1 |-> 0],
     slots |-> [i \in 1 .. n |-> [Slot(Uninit) EXCEPT !.next = IF i = n THEN 1 ELSE 0]]]

Bucket(t, f, k) == f[k] % t.buckets

\* The slots the loops ``j < prop_count'' come to.
Counted(t) ==
    {i \in DOMAIN t.slots :
        /\ t.slots[i].key # Uninit
        /\ Cardinality({j \in 1 .. i : t.slots[j].key # Uninit}) <= t.count}

\* The last of a set of slots, or none.
LastOf(S) == Max(S \cup {0})

\* js_rehash_props under the hash values f
js_rehash_props(t, f) ==
    LET in(b) == {i \in Counted(t) : Bucket(t, f, t.slots[i].key) = b}
        before(i) == {j \in in(Bucket(t, f, t.slots[i].key)) : j < i}
    IN  [t EXCEPT !.heads = [b \in 0 .. t.buckets - 1 |-> LastOf(in(b))],
                  !.slots = [i \in DOMAIN @ |->
                     IF i \in Counted(t) THEN [@[i] EXCEPT !.next = LastOf(before(i))]
                     ELSE @[i]]]

\* Fault of Collected: the table is left as it is.
Collected_NotRehashed(t, f) == t

\* The end of gc_compact_heap: a table in ROM, or with one bucket, stays.
Collected(t, f) == IF t.rom \/ t.buckets = 1 THEN t ELSE js_rehash_props(t, f)

----------------------------------------------------------------------------

\* The walk along a chain: where it stands after n steps, and the slot before.
Walk(t, f, k) ==
    LET walk[n \in 0 .. Len(t.slots)] ==
          IF n = 0 THEN [at |-> t.heads[Bucket(t, f, k)], last |-> 0]
          ELSE LET w == walk[n - 1]
               IN  IF w.at = 0 \/ t.slots[w.at].key = k THEN w
                   ELSE [at |-> t.slots[w.at].next, last |-> w.at]
    IN  walk[Len(t.slots)]

\* find_own_property: the slot of a key, 0 if there is none
find_own_property(t, f, k) == Walk(t, f, k).at

\* get_first_free
get_first_free(s) ==
    IF s # <<>> /\ Last(s).key = Uninit THEN Last(s).next ELSE Len(s) + 1

WithFirstFree(s, first) ==
    IF first <= Len(s) THEN [s EXCEPT ![Len(s)].next = first] ELSE s

Full(t) == t.slots = <<>> \/ Last(t.slots).key # Uninit

\* Fault of Extended: the buckets double, and the chains are left as they are.
Extended_NotRehashed(t, f) ==
    LET n == Len(t.slots)
        b == IF t.count + 1 > 2 * t.buckets THEN 2 * t.buckets ELSE t.buckets
        room == Max({n + 1, (Words(t) + Words(t) \div 2 - (2 + b) + 2) \div 3})
    IN  IF t = EmptyProps THEN Allocated(1)
        ELSE [t EXCEPT !.buckets = b,
                       !.heads = [c \in 0 .. b - 1 |-> IF c < t.buckets THEN @[c] ELSE 0],
                       !.slots = @ \o [i \in 1 .. room - n |->
                                         Slot(IF i = room - n THEN Uninit ELSE Undef)]]

\* js_create_property, a full table: room for one property or half as much
\* again, and twice the buckets when there are more than two per bucket.  Of
\* the new slots only the last is marked unused; it is also the first that
\* may be written next, or holds what will be.
Extended(t, f) ==
    LET n == Len(t.slots)
        b == IF t.count + 1 > 2 * t.buckets THEN 2 * t.buckets ELSE t.buckets
        room == Max({n + 1, (Words(t) + Words(t) \div 2 - (2 + b) + 2) \div 3})
        wider == [t EXCEPT !.buckets = b,
                           !.slots = @ \o [i \in 1 .. room - n |->
                                             Slot(IF i = room - n THEN Uninit ELSE Undef)]]
    IN  IF t = EmptyProps THEN Allocated(1)
        ELSE IF b = t.buckets THEN wider ELSE js_rehash_props(wider, f)

\* .. and the property: the slot first joins the chain of its bucket.
Created(t, f, k, v, first) ==
    LET b == Bucket(t, f, k)
        slot == [key |-> k, value |-> v, next |-> t.heads[b]]
    IN  [t EXCEPT !.count = @ + 1,
                  !.heads[b] = first,
                  !.slots = WithFirstFree([@ EXCEPT ![first] = slot], first + 1)]

\* js_create_property; a table that must grow may be collected before.
js_create_property(t, f, k, v) ==
    IF Full(t) THEN Created(Extended(t, f), f, k, v, Len(t.slots) + 1)
    ELSE Created(t, f, k, v, get_first_free(t.slots))

\* js_compact_props: the slots in use move together.
js_compact_props(t, f) ==
    LET b == Min({t.buckets, HashSize(t.count)})
        used == SetToSortSeq(Counted(t), <)
        small == [t EXCEPT !.buckets = b, !.slots = [i \in DOMAIN used |-> @[used[i]]]]
    IN  IF t.count = 0 THEN EmptyProps
        ELSE IF Words(small) >= Words(t) THEN t ELSE js_rehash_props(small, f)

\* JS_DeleteProperty: the slot leaves its chain, and the unused slots in
\* front of the first free one are free again.
Removed(t, f, k) ==
    LET w == Walk(t, f, k)
        unlinked == IF w.last = 0
                    THEN [t EXCEPT !.heads[Bucket(t, f, k)] = t.slots[w.at].next]
                    ELSE [t EXCEPT !.slots[w.last].next = t.slots[w.at].next]
        holed == [unlinked.slots EXCEPT ![w.at].key = Uninit, ![w.at].value = Undef]
        first == LastOf({i \in 1 .. get_first_free(t.slots) - 1 : holed[i].key # Uninit}) + 1
    IN  [unlinked EXCEPT !.count = @ - 1, !.slots = WithFirstFree(holed, first)]

\* .. and a table more than half empty is compacted; the count tested is the
\* one before, and f has the hash values of now.
Deleted(t, h, f, k) ==
    IF 2 + t.buckets + 3 * t.count < Words(t) \div 2
    THEN js_compact_props(Removed(t, h, k), f) ELSE Removed(t, h, k)

----------------------------------------------------------------------------

\* The properties of a class are in ROM, in a table without room, those of
\* another object in RAM.
RomTable(keys, v, f) ==
    js_rehash_props([rom |-> TRUE, count |-> Len(keys), buckets |-> HashSize(Len(keys)),
                     heads |-> <<>>,
                     slots |-> [i \in DOMAIN keys |-> [Slot(keys[i]) EXCEPT !.value = v]]], f)

Init ==
    /\ hash \in Hashes
    /\ props \in {EmptyProps} \cup {Allocated(n) : n \in Prealloc \ {0}}
                 \cup {RomTable(SetToSeq(RomKeys), v, hash) : v \in Values}

Has(k) == find_own_property(props, hash, k) # 0

InRam(t) == [t EXCEPT !.rom = FALSE]

\* What an allocation may leave: table and hash values as they are, or those
\* after a collection.
Allocations ==
    {[table |-> props, hash |-> hash]}
    \cup {[table |-> Collected(props, f), hash |-> f] : f \in Hashes}

JS_GC ==
    \E a \in Allocations :
       /\ props' = a.table
       /\ hash' = a.hash

\* JS_DefinePropertyInternal that moves the table to RAM and then fails: for
\* want of memory, or as the property is of another kind.
DefineFails ==
    /\ props.rom
    /\ \E a \in Allocations :
          /\ props' = InRam(a.table)
          /\ hash' = a.hash

\* JS_SetPropertyInternal, JS_DefinePropertyInternal, of a property that is
\* there: only a table in ROM makes them allocate.
SetProperty(k, v) ==
    /\ Has(k)
    /\ \E a \in Allocations :
          /\ ~props.rom => a.hash = hash
          /\ props' = [InRam(a.table) EXCEPT
                          !.slots[find_own_property(a.table, a.hash, k)].value = v]
          /\ hash' = a.hash

\* .. of one that is not: the table moved to RAM, a pair of accessors, the
\* variable of a global, and a larger table are allocated.
AddProperty(k, v) ==
    /\ ~Has(k)
    /\ Full(props) => Len(props.slots) < MaxSlots
    /\ \E a \in Allocations :
          /\ props' = js_create_property(InRam(a.table), a.hash, k, v)
          /\ hash' = a.hash

\* The chain, and the slot in it, are those found before the allocation.
JS_DeleteProperty(k) ==
    /\ Has(k)
    /\ \E a \in Allocations :
          /\ ~props.rom => a.hash = hash
          /\ props' = Deleted(InRam(a.table), hash, a.hash, k)
          /\ hash' = a.hash

Next ==
    \/ JS_GC
    \/ DefineFails
    \/ \E k \in Keys, v \in Values : SetProperty(k, v) \/ AddProperty(k, v)
    \/ \E k \in Keys : JS_DeleteProperty(k)

Spec == Init /\ [][Next]_vars

----------------------------------------------------------------------------

Used == {i \in DOMAIN props.slots : props.slots[i].key \in Keys}

TypeOK ==
    /\ hash \in Hashes
    /\ props.rom \in BOOLEAN /\ props.count \in Nat /\ props.buckets \in Nat \ {0}
    /\ props.heads \in [0 .. props.buckets - 1 -> 0 .. Len(props.slots)]
    /\ props.slots \in Seq([key : Keys \cup {Uninit, Undef},
                            value : Values \cup {Undef}, next : Nat])

\* The object of the script: whatever was added, deleted, grown, compacted
\* and rehashed, the slots in use are its properties in order of creation.
InOrder == SetToSortSeq(Used, <)
Promise == INSTANCE PropertyList WITH
    list <- [i \in DOMAIN InOrder |-> [key |-> props.slots[InOrder[i]].key,
                                       value |-> props.slots[InOrder[i]].value]]
ImplementsList == Promise!Spec

\* The hash table agrees with the slots: a key is found where it is, and
\* only there, also after a collection has moved it.
FindsWhatIsThere ==
    \A k \in Keys :
       /\ Has(k) <=> \E i \in Used : props.slots[i].key = k
       /\ Has(k) => props.slots[find_own_property(props, hash, k)].key = k

\* The next slot to be written is not in use, no slot behind it is, and the
\* count the loops rely on is that of the slots in use.
FreeIsFree ==
    /\ \A i \in Used : i < get_first_free(props.slots)
    /\ props.count = Cardinality(Used)
    /\ Counted(props) = Used
=============================================================================
