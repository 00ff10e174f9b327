-------------------------- MODULE GcCompactProofs --------------------------
(***************************************************************************)
(* Proofs about GcCompact: the compaction leaves the graph of the live     *)
(* blocks as it was, for every heap, every graph and every number of roots.*)
(*                                                                         *)
(* The state alone does not show who is on which chain, so the invariant   *)
(* says that there is a family of chains that explains memory.             *)
(***************************************************************************)
EXTENDS GcCompact, Sequences, FiniteSetTheorems, TLAPS

WordType == [tag : {"pointer", "header", "free", "value"}, n : Nat]
Addresses(l) == 1 .. l.end + Roots - 1

\* What memory is made of before the first step, and stays in ``before''.
Graph ==
    /\ layout \in Layouts
    /\ before \in [Addresses(layout) -> WordType]
    /\ \A a \in Places(layout) :
          \/ before[a] = Plain
          \/ \E b \in layout.live : before[a] = Pointer(b) /\ a \notin Words(layout, b)
    /\ \A b \in DOMAIN layout.size : before[b] = Header(layout, b)

Passed == pc \in {"pass2", "done"}

\* Where the two passes are.
Progress ==
    /\ pc \in {"roots", "pass1", "thread", "pass2", "done"}
    /\ ptr \in DOMAIN layout.size \cup {layout.end}
    /\ new = NewStart(layout, ptr)
    /\ pc = "roots" => ptr = 1 /\ pos \in layout.end .. layout.end + Roots
    /\ pc = "thread" => ptr \in layout.live /\ pos \in ptr + 1 .. ptr + layout.size[ptr]
    /\ pc # "done" => free = layout.end
    /\ pc = "done" => ptr = layout.end /\ free = new

\* The words that pass 2 has not come to yet.
Here(a) == Passed => a >= ptr

\* The places that have been threaded, and may be back since.
Threaded(a) ==
    \/ Passed
    \/ a \in RootWords(layout) /\ (pc = "roots" => a < pos)
    \/ a \in Fields(layout) /\ ((pc = "pass1" /\ a < ptr) \/ (pc = "thread" /\ a < pos))

\* The word i steps from block b on its chain.
On(c, b, i) == IF i = 0 THEN b ELSE c[b][i]

\* A place on the chain of a block refers to it; from the time the first pass
\* leaves the block it is a field behind it, and there is none when the second
\* pass does.
Member(b, a) ==
    /\ before[a] = Pointer(b)
    /\ Threaded(a)
    /\ Passed \/ (pc # "roots" /\ b < ptr) => b < a /\ a < layout.end
    /\ ~(Passed /\ b < ptr)
    /\ ~(pc = "thread" /\ b = ptr)

Members(c) ==
    \A b \in layout.live : \A i \in 1 .. Len(c[b]) :
       /\ Member(b, c[b][i])
       /\ \A j \in 1 .. Len(c[b]) : c[b][i] = c[b][j] => i = j

\* The chain leads to the header.
Linked(c) ==
    \A b \in layout.live : Here(b) =>
       \A i \in 0 .. Len(c[b]) :
          mem[On(c, b, i)] = IF i = Len(c[b]) THEN Header(layout, b) ELSE Pointer(c[b][i + 1])

\* What is on no chain reads as before, or as it must in the end.
Settled(c) ==
    \A a \in Places(layout) :
       Here(a) /\ (\A b \in layout.live : \A i \in 1 .. Len(c[b]) : c[b][i] # a)
         => mem[a] = IF Threaded(a) THEN Relocated(before[a]) ELSE before[a]

Chains(c) ==
    /\ c \in [layout.live -> Seq(Places(layout))]
    /\ Members(c)
    /\ Linked(c)
    /\ Settled(c)

\* The rest of memory.
FreeHeaders ==
    \A b \in DOMAIN layout.size \ layout.live : Here(b) => mem[b] = Header(layout, b)

Copied ==
    Passed => \A b \in layout.live : b < ptr =>
       \A d \in 0 .. layout.size[b] - 1 :
          mem[NewStart(layout, b) + d] = Relocated(before[b + d])

MemType ==
    /\ mem \in [Addresses(layout) -> WordType]
    /\ \A a \in Addresses(layout) : IsPtr(mem[a]) => mem[a].n \in Addresses(layout)

IInv ==
    /\ Graph /\ Progress /\ MemType /\ FreeHeaders /\ Copied
    /\ \E c : Chains(c)

----------------------------------------------------------------------------
(* Heaps that are block after block.                                        *)

LEMMA BlockFacts ==
    ASSUME NEW l, IsLayout(l), NEW b \in DOMAIN l.size
    PROVE  /\ b \in Nat /\ b >= 1
           /\ l.size[b] \in Nat /\ l.size[b] >= 1
           /\ l.end \in Nat /\ l.end >= 1
           /\ b + l.size[b] <= l.end
           /\ b < l.end
  BY DEF IsLayout

\* Behind a block there is another, or the end of the heap.
LEMMA NextBlock ==
    ASSUME NEW l, IsLayout(l), NEW b \in DOMAIN l.size
    PROVE  b + l.size[b] \in DOMAIN l.size \cup {l.end}
<1>1. SUFFICES ASSUME b + l.size[b] # l.end
               PROVE  b + l.size[b] \in DOMAIN l.size
  OBVIOUS
<1>2. b + l.size[b] \in 1 .. l.end - 1
  BY <1>1, BlockFacts
<1>3. PICK c \in DOMAIN l.size : b + l.size[b] \in Words(l, c)
  BY <1>2 DEF IsLayout
<1>4. /\ b \in Nat /\ c \in Nat /\ l.size[b] \in Nat /\ l.size[c] \in Nat
      /\ c <= b + l.size[b] /\ b + l.size[b] < c + l.size[c]
      /\ l.size[b] >= 1 /\ l.size[c] >= 1
  BY <1>3, BlockFacts DEF Words
<1>5. b < c => b + l.size[b] <= c
  BY DEF IsLayout
<1>6. c < b => c + l.size[c] <= b
  BY DEF IsLayout
<1>7. b # c
  BY <1>4
<1>8. b + l.size[b] = c
  BY <1>4, <1>5, <1>6, <1>7
<1> QED BY <1>8

\* The heap begins with a block, or is empty.
LEMMA FirstBlock ==
    ASSUME NEW l, IsLayout(l)
    PROVE  1 \in DOMAIN l.size \cup {l.end}
<1>1. SUFFICES ASSUME l.end # 1 PROVE 1 \in DOMAIN l.size
  OBVIOUS
<1>2. 1 \in 1 .. l.end - 1
  BY <1>1 DEF IsLayout
<1>3. PICK c \in DOMAIN l.size : 1 \in Words(l, c)
  BY <1>2 DEF IsLayout
<1>4. c = 1
  BY <1>3, BlockFacts DEF Words
<1> QED BY <1>4

\* A word is in one block.
LEMMA SameBlock ==
    ASSUME NEW l, IsLayout(l), NEW b \in DOMAIN l.size, NEW c \in DOMAIN l.size,
           NEW a, a \in Words(l, b), a \in Words(l, c)
    PROVE  b = c
<1>1. /\ b \in Nat /\ c \in Nat /\ l.size[b] \in Nat /\ l.size[c] \in Nat
  BY BlockFacts
<1>2. /\ b < c => b + l.size[b] <= c
      /\ c < b => c + l.size[c] <= b
  BY DEF IsLayout
<1> QED BY <1>1, <1>2 DEF Words

\* A block and a word that is in no block before or in another.
LEMMA BlockOrder ==
    ASSUME NEW l, IsLayout(l), NEW b \in DOMAIN l.size, NEW c \in DOMAIN l.size \cup {l.end}
    PROVE  /\ b < c => b + l.size[b] <= c
           /\ c \in Nat /\ c >= 1 /\ c <= l.end
<1>1. l.end \in Nat /\ l.end >= 1 /\ b + l.size[b] <= l.end
  BY BlockFacts
<1>2. CASE c = l.end
  BY <1>1, <1>2
<1>3. CASE c \in DOMAIN l.size
  BY <1>1, <1>3, BlockFacts DEF IsLayout
<1> QED BY <1>2, <1>3

LEMMA FieldFacts ==
    ASSUME NEW l, IsLayout(l), NEW a \in Fields(l)
    PROVE  /\ a \in Nat /\ a >= 1 /\ a < l.end
           /\ a \notin DOMAIN l.size
           /\ \E b \in l.live : a \in Words(l, b) /\ b < a /\ a < b + l.size[b]
<1>1. PICK b \in l.live : a \in Words(l, b)
  BY DEF Fields, LiveWords
<1>2. b \in DOMAIN l.size
  BY DEF IsLayout
<1>3. /\ b \in Nat /\ l.size[b] \in Nat /\ b + l.size[b] <= l.end
      /\ l.end \in Nat /\ b >= 1
  BY <1>2, BlockFacts
<1>4. a \in Nat /\ b <= a /\ a < b + l.size[b]
  BY <1>1, <1>3 DEF Words
<1>5. a # b
  BY DEF Fields
<1>6. a \notin DOMAIN l.size
  <2>1. SUFFICES ASSUME a \in DOMAIN l.size PROVE FALSE
    OBVIOUS
  <2>2. a \in Words(l, a)
    BY <2>1, BlockFacts DEF Words
  <2> QED BY <1>1, <1>2, <1>5, <2>1, <2>2, SameBlock
<1> QED BY <1>1, <1>3, <1>4, <1>5, <1>6

LEMMA RootFacts ==
    ASSUME NEW l, IsLayout(l), NEW a \in RootWords(l)
    PROVE  a \in Nat /\ a >= l.end /\ a <= l.end + Roots - 1 /\ l.end \in Nat /\ l.end >= 1
  BY GcCompactAssumption DEF RootWords, IsLayout

LEMMA PlaceFacts ==
    ASSUME NEW l, IsLayout(l), NEW a \in Places(l)
    PROVE  /\ a \in Nat /\ a \in Addresses(l)
           /\ a \notin DOMAIN l.size
<1> USE GcCompactAssumption
<1>0. l.end \in Nat /\ l.end >= 1
  BY DEF IsLayout
<1>1. CASE a \in Fields(l)
  BY <1>0, <1>1, FieldFacts DEF Addresses
<1>2. CASE a \in RootWords(l)
  <2>1. a \in Nat /\ a >= l.end /\ a <= l.end + Roots - 1
    BY <1>2, RootFacts
  <2>2. a \notin DOMAIN l.size
    BY <2>1, BlockFacts
  <2> QED BY <1>0, <2>1, <2>2 DEF Addresses
<1> QED BY <1>1, <1>2 DEF Places

LEMMA BlockIsAddress ==
    ASSUME NEW l, IsLayout(l), NEW b \in DOMAIN l.size
    PROVE  b \in Addresses(l)
  BY BlockFacts, GcCompactAssumption DEF Addresses

----------------------------------------------------------------------------
(* Where the blocks go.                                                     *)

LEMMA LiveBelow ==
    ASSUME NEW l, IsLayout(l), NEW n \in Nat
    PROVE  /\ IsFiniteSet({a \in LiveWords(l) : a < n})
           /\ Cardinality({a \in LiveWords(l) : a < n}) \in Nat
           /\ n >= 1 => Cardinality({a \in LiveWords(l) : a < n}) <= n - 1
<1>1. \A a \in LiveWords(l) : a \in Nat /\ a >= 1
  <2>1. SUFFICES ASSUME NEW b \in l.live, NEW a \in Words(l, b) PROVE a \in Nat /\ a >= 1
    BY DEF LiveWords
  <2>2. b \in DOMAIN l.size
    BY DEF IsLayout
  <2> QED BY <2>2, BlockFacts DEF Words
<1>2. {a \in LiveWords(l) : a < n} \in SUBSET (1 .. n - 1)
  BY <1>1
<1>3. IsFiniteSet(1 .. n - 1) /\ (n >= 1 => Cardinality(1 .. n - 1) = n - 1)
  <2>1. 1 \in Int /\ n - 1 \in Int
    OBVIOUS
  <2>2. IsFiniteSet(1 .. n - 1) /\ Cardinality(1 .. n - 1) = IF 1 > n - 1 THEN 0 ELSE (n - 1) - 1 + 1
    BY <2>1, FS_Interval
  <2> QED BY <2>2
<1>4. /\ IsFiniteSet({a \in LiveWords(l) : a < n})
      /\ Cardinality({a \in LiveWords(l) : a < n}) <= Cardinality(1 .. n - 1)
  BY <1>2, <1>3, FS_Subset
<1>5. Cardinality({a \in LiveWords(l) : a < n}) \in Nat
  BY <1>4, FS_CardinalityType
<1> QED BY <1>3, <1>4, <1>5

LEMMA NewStartBound ==
    ASSUME NEW l, IsLayout(l), NEW n \in Nat, n >= 1
    PROVE  NewStart(l, n) \in Nat /\ NewStart(l, n) >= 1 /\ NewStart(l, n) <= n
<1> DEFINE S == {a \in LiveWords(l) : a < n}
<1>1. Cardinality(S) \in Nat /\ Cardinality(S) <= n - 1
  BY LiveBelow
<1>2. NewStart(l, n) = 1 + Cardinality(S)
  BY DEF NewStart
<1> HIDE DEF S
<1> QED BY <1>1, <1>2

LEMMA NewStartFirst ==
    ASSUME NEW l, IsLayout(l)
    PROVE  NewStart(l, 1) = 1
  BY NewStartBound

LEMMA NewStartMonotone ==
    ASSUME NEW l, IsLayout(l), NEW m \in Nat, NEW n \in Nat, m <= n
    PROVE  NewStart(l, m) <= NewStart(l, n)
<1> DEFINE S == {a \in LiveWords(l) : a < m}
           T == {a \in LiveWords(l) : a < n}
<1>1. S \in SUBSET T
  <2>1. \A a \in LiveWords(l) : a \in Nat
    BY BlockFacts DEF LiveWords, Words, IsLayout
  <2> QED BY <2>1
<1>2. IsFiniteSet(T) /\ Cardinality(T) \in Nat /\ Cardinality(S) \in Nat
  BY LiveBelow
<1>3. NewStart(l, m) = 1 + Cardinality(S) /\ NewStart(l, n) = 1 + Cardinality(T)
  BY DEF NewStart
<1> HIDE DEF S, T
<1>4. Cardinality(S) <= Cardinality(T)
  BY <1>1, <1>2, FS_Subset
<1> QED BY <1>2, <1>3, <1>4

LEMMA NewStartFree ==
    ASSUME NEW l, IsLayout(l), NEW b \in DOMAIN l.size \ l.live
    PROVE  NewStart(l, b + l.size[b]) = NewStart(l, b)
<1>1. {a \in LiveWords(l) : a < b + l.size[b]} = {a \in LiveWords(l) : a < b}
  <2>1. SUFFICES ASSUME NEW c \in l.live, NEW a \in Words(l, c)
                 PROVE  a < b + l.size[b] <=> a < b
    BY DEF LiveWords
  <2>2. c \in DOMAIN l.size
    BY DEF IsLayout
  <2>3. /\ b \in Nat /\ l.size[b] \in Nat /\ c \in Nat /\ l.size[c] \in Nat
    BY <2>2, BlockFacts
  <2>4. a \notin Words(l, b)
    BY <2>2, SameBlock
  <2> QED BY <2>3, <2>4 DEF Words
<1> QED BY <1>1 DEF NewStart

LEMMA NewStartLive ==
    ASSUME NEW l, IsLayout(l), NEW b \in l.live
    PROVE  NewStart(l, b + l.size[b]) = NewStart(l, b) + l.size[b]
<1> DEFINE S == {a \in LiveWords(l) : a < b}
           T == Words(l, b)
<1>0. b \in DOMAIN l.size /\ b \in Nat /\ l.size[b] \in Nat /\ l.size[b] >= 1
  BY BlockFacts DEF IsLayout
<1>1. {a \in LiveWords(l) : a < b + l.size[b]} = S \cup T
  BY <1>0, BlockFacts DEF LiveWords, Words, IsLayout
<1>2. S \cap T = {}
  BY <1>0 DEF Words
<1>3. IsFiniteSet(T) /\ Cardinality(T) = l.size[b]
  <2>1. b \in Int /\ b + l.size[b] - 1 \in Int /\ ~(b > b + l.size[b] - 1)
    BY <1>0
  <2>2. IsFiniteSet(T) /\ Cardinality(T) = (b + l.size[b] - 1) - b + 1
    BY <2>1, FS_Interval DEF Words
  <2> QED BY <1>0, <2>2
<1>4. IsFiniteSet(S) /\ Cardinality(S) \in Nat
  BY <1>0, LiveBelow
<1>5. Cardinality(S \cup T) = Cardinality(S) + Cardinality(T) - Cardinality(S \cap T)
  BY <1>3, <1>4, FS_Union
<1>6. Cardinality(S \cap T) = 0
  BY <1>2, FS_EmptySet
<1> HIDE DEF S, T
<1>7. Cardinality(S \cup T) = Cardinality(S) + l.size[b]
  BY <1>0, <1>3, <1>4, <1>5, <1>6
<1>8. NewStart(l, b + l.size[b]) = 1 + Cardinality(S \cup T) /\ NewStart(l, b) = 1 + Cardinality(S)
  BY <1>1 DEF NewStart, S
<1> QED BY <1>0, <1>4, <1>7, <1>8

----------------------------------------------------------------------------
(* Words, and the chain with one place more or less.                        *)

LEMMA WordFacts ==
    /\ \A a : IsPtr(Pointer(a)) /\ Pointer(a).n = a
    /\ \A l, b : /\ ~IsPtr(Header(l, b)) /\ Header(l, b).n = l.size[b]
                 /\ b \in l.live => Header(l, b).tag = "header"
                 /\ b \notin l.live => Header(l, b).tag = "free"
    /\ ~IsPtr(Plain)
    /\ \A a \in Nat : Pointer(a) \in WordType
  BY DEF IsPtr, Pointer, Header, Plain, WordType

LEMMA Prepended ==
    ASSUME NEW S, NEW s \in Seq(S), NEW a \in S
    PROVE  /\ <<a>> \o s \in Seq(S)
           /\ Len(<<a>> \o s) = Len(s) + 1
           /\ (<<a>> \o s)[1] = a
           /\ \A i \in 1 .. Len(s) : (<<a>> \o s)[i + 1] = s[i]
  OBVIOUS

LEMMA Shortened ==
    ASSUME NEW S, NEW s \in Seq(S), Len(s) >= 1
    PROVE  /\ Tail(s) \in Seq(S)
           /\ Len(Tail(s)) = Len(s) - 1
           /\ \A i \in 1 .. Len(s) - 1 : Tail(s)[i] = s[i + 1]
  OBVIOUS

\* What the invariant says of the chain of one block.
LEMMA ChainFacts ==
    ASSUME Graph, NEW c, Chains(c), NEW b \in layout.live
    PROVE  /\ IsLayout(layout)
           /\ b \in DOMAIN layout.size /\ b \in Nat /\ b \in Addresses(layout)
           /\ c[b] \in Seq(Places(layout)) /\ Len(c[b]) \in Nat
           /\ \A i \in 1 .. Len(c[b]) :
                 /\ c[b][i] \in Places(layout) /\ c[b][i] \in Addresses(layout)
                 /\ c[b][i] \in Nat /\ c[b][i] \notin DOMAIN layout.size
                 /\ Member(b, c[b][i])
           /\ \A e \in layout.live : \A i \in 1 .. Len(c[b]), j \in 1 .. Len(c[e]) :
                 c[b][i] = c[e][j] => b = e /\ i = j
<1>1. IsLayout(layout)
  BY GcCompactAssumption DEF Graph
<1>2. b \in DOMAIN layout.size
  BY <1>1 DEF IsLayout
<1>3. b \in Nat /\ b \in Addresses(layout)
  BY <1>1, <1>2, BlockFacts, BlockIsAddress
<1>4. \A e \in layout.live : c[e] \in Seq(Places(layout))
  BY DEF Chains
<1>5. \A e \in layout.live : Len(c[e]) \in Nat /\ \A i \in 1 .. Len(c[e]) : c[e][i] \in Places(layout)
  BY <1>4
<1>6. ASSUME NEW i \in 1 .. Len(c[b])
      PROVE  /\ c[b][i] \in Places(layout) /\ c[b][i] \in Addresses(layout)
             /\ c[b][i] \in Nat /\ c[b][i] \notin DOMAIN layout.size
             /\ Member(b, c[b][i])
  <2>1. c[b][i] \in Places(layout)
    BY <1>5
  <2>2. Member(b, c[b][i])
    BY DEF Chains, Members
  <2> QED BY <1>1, <2>1, <2>2, PlaceFacts
<1>7. ASSUME NEW e \in layout.live, NEW i \in 1 .. Len(c[b]), NEW j \in 1 .. Len(c[e]),
             c[b][i] = c[e][j]
      PROVE  b = e /\ i = j
  <2>1. before[c[b][i]] = Pointer(b) /\ before[c[e][j]] = Pointer(e)
    BY DEF Chains, Members, Member
  <2>2. b = e
    BY <1>7, <2>1, WordFacts
  <2> QED BY <1>7, <2>2 DEF Chains, Members
<1> QED BY <1>1, <1>2, <1>3, <1>4, <1>5, <1>6, <1>7

----------------------------------------------------------------------------
(* What the steps do to the chains.                                         *)

\* A place on no chain reads as it did, or as it must in the end.
LEMMA Alone ==
    ASSUME NEW c, Chains(c), NEW a \in Places(layout), Here(a),
           \A b \in layout.live : \A i \in 1 .. Len(c[b]) : c[b][i] # a
    PROVE  mem[a] = IF Threaded(a) THEN Relocated(before[a]) ELSE before[a]
  BY DEF Chains, Settled

\* A place that was not threaded joins the chain of its block, if it has one.
LEMMA Threading ==
    ASSUME Graph, MemType, FreeHeaders, ~Passed,
           NEW c, Chains(c),
           NEW a \in Places(layout), ~Threaded(a), gc_thread_pointer(a),
           UNCHANGED <<layout, before>>, ~Passed',
           \A x \in Places(layout) : Threaded(x)' <=> Threaded(x) \/ x = a,
           \A b \in layout.live, x \in Places(layout) : Member(b, x) => Member(b, x)',
           \A b \in layout.live : before[a] = Pointer(b) => Member(b, a)'
    PROVE  /\ MemType' /\ FreeHeaders'
           /\ \E d : Chains(d)'
<1>1. IsLayout(layout)
  BY GcCompactAssumption DEF Graph
<1>2. /\ a \in Addresses(layout) /\ a \notin DOMAIN layout.size
      /\ layout.live \subseteq DOMAIN layout.size
  BY <1>1, PlaceFacts DEF IsLayout
<1>3. \A b \in layout.live : \A i \in 1 .. Len(c[b]) : c[b][i] # a
  BY DEF Chains, Members, Member
<1>4. mem[a] = before[a]
  BY <1>3, Alone DEF Here
<1>5. CASE before[a] = Plain
  <2>1. mem' = mem
    BY <1>4, <1>5, WordFacts DEF gc_thread_pointer
  <2>2. MemType' /\ FreeHeaders'
    BY <2>1 DEF MemType, FreeHeaders, Here
  <2>3. Members(c)'
    BY ChainFacts DEF Members, Chains
  <2>4. Linked(c)'
    BY <2>1 DEF Chains, Linked, On, Here
  <2>5. Settled(c)'
    <3>1. SUFFICES ASSUME NEW x \in Places(layout),
                          \A b \in layout.live : \A i \in 1 .. Len(c[b]) : c[b][i] # x
                   PROVE  mem[x] = IF Threaded(x)' THEN Relocated(before[x]) ELSE before[x]
      BY <2>1 DEF Settled, Relocated
    <3>2. mem[x] = IF Threaded(x) THEN Relocated(before[x]) ELSE before[x]
      BY <3>1, Alone DEF Here
    <3>3. Relocated(before[a]) = before[a]
      BY <1>5, WordFacts DEF Relocated
    <3> QED BY <3>2, <3>3
  <2>6. (c \in [layout.live -> Seq(Places(layout))])'
    BY DEF Chains
  <2> QED BY <2>2, <2>3, <2>4, <2>5, <2>6 DEF Chains
<1>6. CASE before[a] # Plain
  <2>1. PICK b \in layout.live : before[a] = Pointer(b) /\ a \notin Words(layout, b)
    BY <1>6 DEF Graph
  <2>2. PICK d : d = [c EXCEPT ![b] = <<a>> \o c[b]]
    OBVIOUS
  <2>3. /\ b \in Addresses(layout) /\ b \in Nat /\ b # a
        /\ c[b] \in Seq(Places(layout)) /\ Len(c[b]) \in Nat
    BY <1>2, ChainFacts
  <2>4. mem' = [mem EXCEPT ![a] = mem[b], ![b] = Pointer(a)]
    <3>1. mem[a] = Pointer(b)
      BY <1>4, <2>1
    <3>2. IsPtr(mem[a]) /\ mem[a].n = b
      BY <3>1, WordFacts
    <3> QED BY <3>2 DEF gc_thread_pointer
  <2>5. mem \in [Addresses(layout) -> WordType]
    BY DEF MemType
  <2>6. /\ mem' \in [Addresses(layout) -> WordType]
        /\ mem'[a] = mem[b] /\ mem'[b] = Pointer(a)
        /\ \A x \in Addresses(layout) : x # a /\ x # b => mem'[x] = mem[x]
    BY <1>1, <1>2, <2>3, <2>4, <2>5, PlaceFacts, WordFacts
  <2>7. MemType'
    <3>1. ASSUME NEW x \in Addresses(layout), IsPtr(mem'[x])
          PROVE  mem'[x].n \in Addresses(layout)
      <4>1. CASE x = b
        BY <1>2, <2>6, <4>1, WordFacts
      <4>2. CASE x = a
        BY <2>3, <2>6, <3>1, <4>2 DEF MemType
      <4>3. CASE x # a /\ x # b
        BY <2>6, <3>1, <4>3 DEF MemType
      <4> QED BY <4>1, <4>2, <4>3
    <3> QED BY <2>6, <3>1 DEF MemType, IsPtr
  <2>8. FreeHeaders'
    <3>1. SUFFICES ASSUME NEW x \in DOMAIN layout.size \ layout.live
                   PROVE  mem'[x] = Header(layout, x)
      BY DEF FreeHeaders
    <3>2. x # a /\ x # b /\ x \in Addresses(layout)
      BY <1>1, <1>2, BlockIsAddress
    <3>3. mem[x] = Header(layout, x)
      BY DEF FreeHeaders, Here
    <3> QED BY <2>6, <3>2, <3>3
  <2>9. /\ d \in [layout.live -> Seq(Places(layout))]
        /\ d[b] = <<a>> \o c[b]
        /\ \A e \in layout.live : e # b => d[e] = c[e]
    <3>1. <<a>> \o c[b] \in Seq(Places(layout))
      BY <2>3
    <3>2. c \in [layout.live -> Seq(Places(layout))]
      BY DEF Chains
    <3> QED BY <2>2, <3>1, <3>2
  <2>10. /\ Len(d[b]) = Len(c[b]) + 1
         /\ d[b][1] = a
         /\ \A i \in 1 .. Len(c[b]) : d[b][i + 1] = c[b][i]
    BY <2>3, <2>9, Prepended
  <2>11. Members(d)'
    <3>1. SUFFICES ASSUME NEW e \in layout.live, NEW i \in 1 .. Len(d[e])
                   PROVE  /\ Member(e, d[e][i])'
                          /\ \A j \in 1 .. Len(d[e]) : d[e][i] = d[e][j] => i = j
      BY DEF Members
    <3>2. CASE e # b
      <4>1. d[e] = c[e] /\ i \in 1 .. Len(c[e])
        BY <2>9, <3>2
      <4>2. /\ c[e][i] \in Places(layout) /\ Member(e, c[e][i])
            /\ \A j \in 1 .. Len(c[e]) : c[e][i] = c[e][j] => i = j
        BY <4>1, ChainFacts
      <4> QED BY <4>1, <4>2
    <3>3. CASE e = b
      <4>1. \A j \in 1 .. Len(d[b]) : j = 1 \/ (j - 1 \in 1 .. Len(c[b]) /\ d[b][j] = c[b][j - 1])
        <5>1. SUFFICES ASSUME NEW j \in 1 .. Len(d[b]), j # 1
                       PROVE  j - 1 \in 1 .. Len(c[b]) /\ d[b][j] = c[b][j - 1]
          OBVIOUS
        <5>2. j - 1 \in 1 .. Len(c[b]) /\ (j - 1) + 1 = j
          BY <2>3, <2>10, <5>1
        <5> QED BY <2>10, <5>2
      <4>2. Member(b, d[b][i])'
        <5>1. CASE i = 1
          BY <2>1, <2>10, <5>1
        <5>2. CASE i - 1 \in 1 .. Len(c[b]) /\ d[b][i] = c[b][i - 1]
          BY <5>2, ChainFacts
        <5> QED BY <3>3, <4>1, <5>1, <5>2
      <4>3. ASSUME NEW j \in 1 .. Len(d[b]), d[b][i] = d[b][j]
            PROVE  i = j
        <5>1. i \in 1 .. Len(d[b]) /\ i \in Nat /\ j \in Nat
          BY <3>3, <2>3, <2>10
        <5>2. CASE i = 1
          BY <1>3, <2>10, <4>1, <4>3, <5>1, <5>2
        <5>3. CASE j = 1
          BY <1>3, <2>10, <4>1, <4>3, <5>1, <5>3
        <5>4. CASE i # 1 /\ j # 1
          <6>1. /\ i - 1 \in 1 .. Len(c[b]) /\ j - 1 \in 1 .. Len(c[b])
                /\ c[b][i - 1] = c[b][j - 1]
            BY <4>1, <4>3, <5>1, <5>4
          <6>2. \A p, q \in 1 .. Len(c[b]) : c[b][p] = c[b][q] => p = q
            BY ChainFacts
          <6>3. i - 1 = j - 1
            BY <6>1, <6>2
          <6> QED BY <5>1, <6>3
        <5> QED BY <5>2, <5>3, <5>4
      <4> QED BY <3>3, <4>2, <4>3
    <3> QED BY <3>2, <3>3
  <2>12. Linked(d)'
    <3>1. SUFFICES ASSUME NEW e \in layout.live, NEW i \in 0 .. Len(d[e])
                   PROVE  mem'[On(d, e, i)] = IF i = Len(d[e]) THEN Header(layout, e)
                                              ELSE Pointer(d[e][i + 1])
      BY DEF Linked, On
    <3>2. \A g \in layout.live : \A j \in 0 .. Len(c[g]) :
             mem[On(c, g, j)] = IF j = Len(c[g]) THEN Header(layout, g) ELSE Pointer(c[g][j + 1])
      BY DEF Chains, Linked, Here
    <3>3. \A g \in layout.live : \A j \in 0 .. Len(c[g]) :
             /\ On(c, g, j) \in Addresses(layout) /\ On(c, g, j) # a
             /\ (g # b \/ j # 0) => On(c, g, j) # b
      <4>1. SUFFICES ASSUME NEW g \in layout.live, NEW j \in 0 .. Len(c[g])
                     PROVE  /\ On(c, g, j) \in Addresses(layout) /\ On(c, g, j) # a
                            /\ (g # b \/ j # 0) => On(c, g, j) # b
        OBVIOUS
      <4>2. CASE j = 0
        BY <1>2, <4>2, ChainFacts DEF On
      <4>3. CASE j # 0
        <5>1. j \in 1 .. Len(c[g])
          BY <4>3, ChainFacts
        <5> QED BY <1>2, <1>3, <4>3, <5>1, ChainFacts DEF On
      <4> QED BY <4>2, <4>3
    <3>4. CASE e # b
      <4>1. d[e] = c[e] /\ On(d, e, i) = On(c, e, i)
        BY <2>9, <3>4 DEF On
      <4> QED BY <2>6, <3>2, <3>3, <3>4, <4>1
    <3>5. CASE e = b /\ i = 0
      BY <2>3, <2>6, <2>10, <3>5 DEF On
    <3>6. CASE e = b /\ i # 0
      <4>1. i - 1 \in 0 .. Len(c[b]) /\ i \in 1 .. Len(c[b]) + 1 /\ i \in Nat
        BY <2>3, <2>10, <3>6
      <4>2. mem'[On(d, b, i)] = mem[On(c, b, i - 1)]
        <5>1. CASE i = 1
          BY <2>6, <2>10, <5>1 DEF On
        <5>2. CASE i # 1
          <6>1. i - 1 \in 1 .. Len(c[b]) /\ (i - 1) + 1 = i /\ i # 0 /\ i - 1 # 0
            BY <4>1, <5>2, <2>3
          <6>2. On(d, b, i) = On(c, b, i - 1)
            BY <2>10, <6>1 DEF On
          <6> QED BY <2>6, <3>3, <4>1, <6>1, <6>2
        <5> QED BY <5>1, <5>2
      <4>3. mem[On(c, b, i - 1)] = IF i - 1 = Len(c[b]) THEN Header(layout, b)
                                   ELSE Pointer(c[b][(i - 1) + 1])
        BY <3>2, <4>1
      <4>4. i = Len(d[b]) <=> i - 1 = Len(c[b])
        BY <2>3, <2>10, <4>1
      <4>5. i - 1 # Len(c[b]) => c[b][(i - 1) + 1] = d[b][i + 1]
        BY <2>3, <2>10, <4>1
      <4> QED BY <3>6, <4>2, <4>3, <4>4, <4>5
    <3> QED BY <3>4, <3>5, <3>6
  <2>13. Settled(d)'
    <3>1. SUFFICES ASSUME NEW x \in Places(layout),
                          \A e \in layout.live : \A i \in 1 .. Len(d[e]) : d[e][i] # x
                   PROVE  mem'[x] = IF Threaded(x)' THEN Relocated(before[x]) ELSE before[x]
      BY DEF Settled, Relocated
    <3>2. x # a
      BY <2>3, <2>10, <3>1
    <3>3. \A e \in layout.live : \A i \in 1 .. Len(c[e]) : c[e][i] # x
      <4>1. \A i \in 1 .. Len(c[b]) : c[b][i] # x
        <5>1. \A i \in 1 .. Len(c[b]) : i + 1 \in 1 .. Len(d[b])
          BY <2>3, <2>10
        <5> QED BY <2>10, <3>1, <5>1
      <4>2. \A e \in layout.live : e # b => \A i \in 1 .. Len(c[e]) : c[e][i] # x
        BY <2>9, <3>1
      <4> QED BY <4>1, <4>2
    <3>4. mem[x] = IF Threaded(x) THEN Relocated(before[x]) ELSE before[x]
      BY <3>3, Alone DEF Here
    <3>5. x \in Addresses(layout) /\ x # b
      BY <1>1, <1>2, PlaceFacts
    <3> QED BY <2>6, <3>2, <3>4, <3>5
  <2>14. Chains(d)'
    BY <2>9, <2>11, <2>12, <2>13 DEF Chains
  <2> QED BY <2>7, <2>8, <2>14
<1> QED BY <1>5, <1>6

\* A place leaves the chain of its block with the address the block will have.
LEMMA Unthreading ==
    ASSUME Graph, Progress, MemType, FreeHeaders, Copied, NEW c, Chains(c), Unthread
    PROVE  /\ MemType' /\ FreeHeaders' /\ Copied'
           /\ \E d : Chains(d)'
<1>0. /\ UNCHANGED <<layout, before, free, pc, ptr, new, pos>>
      /\ pc \in {"pass1", "pass2"} /\ ptr < free /\ IsPtr(mem[ptr])
      /\ mem' = [mem EXCEPT ![ptr] = mem[mem[ptr].n], ![mem[ptr].n] = Pointer(new)]
  BY DEF Unthread
<1>1. IsLayout(layout)
  BY GcCompactAssumption DEF Graph
<1>2. /\ ptr \in DOMAIN layout.size /\ ptr \in Nat /\ ptr >= 1
      /\ layout.live \subseteq DOMAIN layout.size
      /\ layout.end \in Nat
  <2>1. ptr # layout.end
    BY <1>0, <1>1 DEF Progress, IsLayout
  <2>2. ptr \in DOMAIN layout.size
    BY <2>1 DEF Progress
  <2> QED BY <1>1, <2>2, BlockFacts DEF IsLayout
<1>3. Here(ptr)
  BY <1>2 DEF Here
<1>4. ptr \in layout.live
  <2>1. SUFFICES ASSUME ptr \notin layout.live PROVE FALSE
    OBVIOUS
  <2>2. mem[ptr] = Header(layout, ptr)
    BY <1>2, <1>3, <2>1 DEF FreeHeaders
  <2> QED BY <1>0, <2>2, WordFacts
<1>5. /\ ptr \in Addresses(layout) /\ c[ptr] \in Seq(Places(layout)) /\ Len(c[ptr]) \in Nat
  BY <1>4, ChainFacts
<1>6. \A g \in layout.live : Here(g) => \A j \in 0 .. Len(c[g]) :
         mem[On(c, g, j)] = IF j = Len(c[g]) THEN Header(layout, g) ELSE Pointer(c[g][j + 1])
  BY DEF Chains, Linked
<1>7. Len(c[ptr]) >= 1 /\ mem[ptr] = Pointer(c[ptr][1])
  <2>1. 0 \in 0 .. Len(c[ptr]) /\ On(c, ptr, 0) = ptr
    BY <1>5 DEF On
  <2>2. mem[ptr] = IF 0 = Len(c[ptr]) THEN Header(layout, ptr) ELSE Pointer(c[ptr][0 + 1])
    BY <1>3, <1>4, <1>6, <2>1
  <2> QED BY <1>0, <1>5, <2>2, WordFacts
<1>8. PICK a : a = c[ptr][1]
  OBVIOUS
<1>9. PICK d : d = [c EXCEPT ![ptr] = Tail(c[ptr])]
  OBVIOUS
<1>10. /\ a \in Places(layout) /\ a \in Addresses(layout) /\ a \in Nat /\ a \notin DOMAIN layout.size
       /\ Member(ptr, a) /\ a # ptr
  <2>1. 1 \in 1 .. Len(c[ptr])
    BY <1>5, <1>7
  <2> QED BY <1>2, <1>4, <1>8, <2>1, ChainFacts
<1>11. mem' = [mem EXCEPT ![ptr] = mem[a], ![a] = Pointer(new)]
  BY <1>0, <1>7, <1>8, WordFacts
<1>12. new \in Nat /\ new >= 1 /\ new <= ptr /\ new \in Addresses(layout)
  <2>1. new \in Nat /\ new >= 1 /\ new <= ptr
    BY <1>1, <1>2, NewStartBound DEF Progress
  <2>2. ptr < layout.end
    BY <1>1, <1>2, BlockFacts
  <2> QED BY <1>2, <2>1, <2>2, GcCompactAssumption DEF Addresses
<1>13. /\ mem' \in [Addresses(layout) -> WordType]
       /\ mem'[ptr] = mem[a] /\ mem'[a] = Pointer(new)
       /\ \A x \in Addresses(layout) : x # a /\ x # ptr => mem'[x] = mem[x]
  <2>1. mem \in [Addresses(layout) -> WordType]
    BY DEF MemType
  <2> QED BY <1>5, <1>10, <1>11, <1>12, <2>1, WordFacts
<1>14. MemType'
  <2>1. ASSUME NEW x \in Addresses(layout), IsPtr(mem'[x])
        PROVE  mem'[x].n \in Addresses(layout)
    <3>1. CASE x = a
      BY <1>12, <1>13, <3>1, WordFacts
    <3>2. CASE x = ptr
      BY <1>10, <1>13, <2>1, <3>2 DEF MemType
    <3>3. CASE x # a /\ x # ptr
      BY <1>13, <2>1, <3>3 DEF MemType
    <3> QED BY <3>1, <3>2, <3>3
  <2> QED BY <1>0, <1>13, <2>1 DEF MemType, IsPtr
<1>15. FreeHeaders'
  <2>1. SUFFICES ASSUME NEW x \in DOMAIN layout.size \ layout.live, Here(x)
                 PROVE  mem'[x] = Header(layout, x)
    BY <1>0 DEF FreeHeaders, Here, Passed
  <2>2. x # a /\ x # ptr /\ x \in Addresses(layout)
    BY <1>1, <1>4, <1>10, BlockIsAddress
  <2>3. mem[x] = Header(layout, x)
    BY <2>1 DEF FreeHeaders
  <2> QED BY <1>13, <2>2, <2>3
<1>16. Copied'
  <2>1. SUFFICES ASSUME Passed, NEW b \in layout.live, b < ptr, NEW k \in 0 .. layout.size[b] - 1
                 PROVE  mem'[NewStart(layout, b) + k] = Relocated(before[b + k])
    <3>1. /\ layout' = layout /\ before' = before /\ ptr' = ptr /\ pc' = pc
      BY <1>0
    <3> QED BY <3>1, Zenon DEF Copied, Passed, Relocated
  <2>2. mem[NewStart(layout, b) + k] = Relocated(before[b + k])
    BY <2>1 DEF Copied
  <2>3. /\ b \in Nat /\ b >= 1 /\ layout.size[b] \in Nat /\ b \in DOMAIN layout.size
        /\ b + layout.size[b] <= ptr
    BY <1>1, <1>2, <2>1, BlockFacts, BlockOrder
  <2>4. NewStart(layout, b) + layout.size[b] <= new
    <3>1. NewStart(layout, b + layout.size[b]) = NewStart(layout, b) + layout.size[b]
      BY <1>1, NewStartLive
    <3>2. NewStart(layout, b + layout.size[b]) <= NewStart(layout, ptr)
      BY <1>1, <1>2, <2>3, NewStartMonotone
    <3> QED BY <3>1, <3>2 DEF Progress
  <2>5. NewStart(layout, b) \in Nat /\ NewStart(layout, b) >= 1
    BY <1>1, <2>3, NewStartBound
  <2>6. /\ NewStart(layout, b) + k \in Nat /\ NewStart(layout, b) + k >= 1
        /\ NewStart(layout, b) + k < ptr
    BY <1>12, <1>2, <2>3, <2>4, <2>5
  <2>7. ptr < a
    BY <1>10, <2>1 DEF Member
  <2>8. NewStart(layout, b) + k \in Addresses(layout)
    BY <1>1, <1>2, <2>6, BlockFacts, GcCompactAssumption DEF Addresses
  <2> QED BY <1>2, <1>10, <1>13, <2>2, <2>6, <2>7, <2>8
<1>17. /\ d \in [layout.live -> Seq(Places(layout))]
       /\ d[ptr] = Tail(c[ptr])
       /\ \A e \in layout.live : e # ptr => d[e] = c[e]
  <2>1. Tail(c[ptr]) \in Seq(Places(layout))
    BY <1>5, <1>7, Shortened
  <2>2. c \in [layout.live -> Seq(Places(layout))]
    BY DEF Chains
  <2> QED BY <1>4, <1>9, <2>1, <2>2
<1>18. /\ Len(d[ptr]) = Len(c[ptr]) - 1
       /\ \A i \in 1 .. Len(d[ptr]) : i + 1 \in 1 .. Len(c[ptr]) /\ d[ptr][i] = c[ptr][i + 1]
  BY <1>5, <1>7, <1>17, Shortened
<1>19. \A g \in layout.live : \A x : Member(g, x) => Member(g, x)'
  BY <1>0 DEF Member, Threaded, Passed
<1>20. Members(d)'
  <2>1. SUFFICES ASSUME NEW e \in layout.live, NEW i \in 1 .. Len(d[e])
                 PROVE  /\ Member(e, d[e][i])'
                        /\ \A j \in 1 .. Len(d[e]) : d[e][i] = d[e][j] => i = j
    BY <1>0 DEF Members
  <2>2. CASE e # ptr
    <3>1. d[e] = c[e] /\ i \in 1 .. Len(c[e])
      BY <1>17, <2>2
    <3>2. /\ Member(e, c[e][i])
          /\ \A j \in 1 .. Len(c[e]) : c[e][i] = c[e][j] => i = j
      BY <1>4, <3>1, ChainFacts
    <3> QED BY <1>19, <3>1, <3>2
  <2>3. CASE e = ptr
    <3>1. i + 1 \in 1 .. Len(c[ptr]) /\ d[ptr][i] = c[ptr][i + 1]
      BY <1>18, <2>3
    <3>2. Member(e, d[e][i])'
      <4>1. d[e][i] = c[e][i + 1] /\ Member(e, c[e][i + 1])
        BY <1>4, <2>3, <3>1, ChainFacts
      <4> QED BY <1>19, <4>1
    <3>3. \A p, q \in 1 .. Len(c[ptr]) : c[ptr][p] = c[ptr][q] => p = q
      BY <1>4, ChainFacts
    <3>4. ASSUME NEW j \in 1 .. Len(d[ptr]), d[ptr][i] = d[ptr][j]
          PROVE  i = j
      <4>1. j + 1 \in 1 .. Len(c[ptr]) /\ d[ptr][j] = c[ptr][j + 1]
        BY <1>18
      <4>2. i + 1 = j + 1
        <5>1. c[ptr][i + 1] = c[ptr][j + 1]
          BY <3>1, <3>4, <4>1
        <5> QED BY <3>1, <3>3, <4>1, <5>1
      <4>3. i \in Nat /\ j \in Nat
        BY <1>5, <1>18, <2>3
      <4> QED BY <4>2, <4>3
    <3>5. \A j \in 1 .. Len(d[ptr]) : d[ptr][i] = d[ptr][j] => i = j
      BY <3>4
    <3> QED BY <2>3, <3>2, <3>5
  <2> QED BY <2>2, <2>3
<1>21. Linked(d)'
  <2>1. SUFFICES ASSUME NEW e \in layout.live, Here(e), NEW i \in 0 .. Len(d[e])
                 PROVE  mem'[On(d, e, i)] = IF i = Len(d[e]) THEN Header(layout, e)
                                            ELSE Pointer(d[e][i + 1])
    <3>1. /\ layout' = layout /\ ptr' = ptr /\ pc' = pc
      BY <1>0
    <3> QED BY <3>1, Zenon DEF Linked, On, Here, Passed
  <2>2. CASE e # ptr
    <3>1. d[e] = c[e] /\ On(d, e, i) = On(c, e, i)
      BY <1>17, <2>2 DEF On
    <3>2. On(c, e, i) \in Addresses(layout) /\ On(c, e, i) # a /\ On(c, e, i) # ptr
      <4>1. CASE i = 0
        BY <1>2, <1>10, <2>2, <4>1, ChainFacts DEF On
      <4>2. CASE i # 0
        <5>1. i \in 1 .. Len(c[e]) /\ On(c, e, i) = c[e][i] /\ 1 \in 1 .. Len(c[ptr])
          BY <1>5, <1>7, <3>1, <4>2, ChainFacts DEF On
        <5> QED BY <1>2, <1>4, <1>8, <2>2, <5>1, ChainFacts
      <4> QED BY <4>1, <4>2
    <3> QED BY <1>6, <1>13, <2>1, <3>1, <3>2
  <2>3. CASE e = ptr
    <3>1. i \in Nat /\ i + 1 \in 0 .. Len(c[ptr]) /\ i + 1 # 0 /\ i + 1 \in 1 .. Len(c[ptr])
      BY <1>5, <1>7, <1>18, <2>3
    <3>2. mem[c[ptr][i + 1]] = IF i + 1 = Len(c[ptr]) THEN Header(layout, ptr)
                               ELSE Pointer(c[ptr][(i + 1) + 1])
      BY <1>3, <1>4, <1>6, <3>1 DEF On
    <3>3. mem'[On(d, ptr, i)] = mem[c[ptr][i + 1]]
      <4>1. CASE i = 0
        BY <1>8, <1>13, <4>1 DEF On
      <4>2. CASE i # 0
        <5>1. On(d, ptr, i) = c[ptr][i + 1]
          BY <1>5, <1>18, <2>3, <3>1, <4>2 DEF On
        <5>2. c[ptr][i + 1] \in Addresses(layout) /\ c[ptr][i + 1] \notin DOMAIN layout.size
          BY <1>4, <3>1, ChainFacts
        <5>3. c[ptr][i + 1] # a
          <6>1. \A p, q \in 1 .. Len(c[ptr]) : c[ptr][p] = c[ptr][q] => p = q
            BY <1>4, ChainFacts, SMTT(20)
          <6>2. 1 \in 1 .. Len(c[ptr]) /\ i + 1 # 1
            <7>1. i \in Nat /\ Len(c[ptr]) \in Nat /\ Len(c[ptr]) >= 1
              BY <1>5, <1>7, <3>1
            <7> QED BY <4>2, <7>1
          <6> QED BY <1>8, <3>1, <6>1, <6>2
        <5> QED BY <1>2, <1>13, <5>1, <5>2, <5>3
      <4> QED BY <4>1, <4>2
    <3>4. i = Len(d[ptr]) <=> i + 1 = Len(c[ptr])
      BY <1>5, <1>18, <3>1
    <3>5. i # Len(d[ptr]) => d[ptr][i + 1] = c[ptr][(i + 1) + 1]
      <4>1. SUFFICES ASSUME i # Len(d[ptr]) PROVE i + 1 \in 1 .. Len(d[ptr])
        BY <1>18
      <4> QED BY <1>5, <1>18, <2>3, <3>1, <4>1
    <3> QED BY <2>3, <3>2, <3>3, <3>4, <3>5
  <2> QED BY <2>2, <2>3
<1>22. Settled(d)'
  <2>1. SUFFICES ASSUME NEW x \in Places(layout), Here(x),
                        \A e \in layout.live : \A i \in 1 .. Len(d[e]) : d[e][i] # x
                 PROVE  mem'[x] = IF Threaded(x) THEN Relocated(before[x]) ELSE before[x]
    BY <1>0 DEF Settled, Relocated, Here, Passed, Threaded
  <2>2. CASE x = a
    <3>1. Threaded(a) /\ before[a] = Pointer(ptr)
      BY <1>10 DEF Member
    <3>2. Relocated(before[a]) = Pointer(new)
      BY <3>1, WordFacts DEF Relocated, Progress
    <3> QED BY <1>13, <2>2, <3>1, <3>2
  <2>3. CASE x # a
    <3>1. \A e \in layout.live : \A i \in 1 .. Len(c[e]) : c[e][i] # x
      <4>1. \A e \in layout.live : e # ptr => \A i \in 1 .. Len(c[e]) : c[e][i] # x
        BY <1>17, <2>1
      <4>2. ASSUME NEW i \in 1 .. Len(c[ptr]) PROVE c[ptr][i] # x
        <5>1. CASE i = 1
          BY <1>8, <2>3, <5>1
        <5>2. CASE i # 1
          <6>1. i - 1 \in 1 .. Len(d[ptr]) /\ (i - 1) + 1 = i
            BY <1>5, <1>18, <5>2
          <6> QED BY <1>4, <1>18, <2>1, <6>1
        <5> QED BY <5>1, <5>2
      <4> QED BY <4>1, <4>2
    <3>2. mem[x] = IF Threaded(x) THEN Relocated(before[x]) ELSE before[x]
      BY <2>1, <3>1, Alone
    <3>3. x \in Addresses(layout) /\ x # ptr
      BY <1>1, <1>2, PlaceFacts
    <3> QED BY <1>13, <2>3, <3>2, <3>3
  <2> QED BY <2>2, <2>3
<1>23. Chains(d)'
  BY <1>0, <1>17, <1>20, <1>21, <1>22 DEF Chains
<1> QED BY <1>14, <1>15, <1>16, <1>23

\* A step of the passes that writes nothing: the chains explain memory as long
\* as their members are still such, and the same places have been threaded.
LEMMA Walking ==
    ASSUME Graph, MemType, FreeHeaders, NEW c, Chains(c),
           UNCHANGED <<layout, before, mem>>,
           \A x \in Places(layout) : Threaded(x)' <=> Threaded(x),
           \A x \in Places(layout) \cup DOMAIN layout.size : Here(x)' => Here(x),
           \A b \in layout.live : \A i \in 1 .. Len(c[b]) : Member(b, c[b][i])'
    PROVE  Graph' /\ MemType' /\ FreeHeaders' /\ Chains(c)'
<1>1. layout' = layout /\ before' = before /\ mem' = mem
  OBVIOUS
<1>2. layout.live \subseteq DOMAIN layout.size
  BY GcCompactAssumption DEF Graph, IsLayout
<1>3. Graph'
  BY <1>1 DEF Graph
<1>4. MemType'
  BY <1>1 DEF MemType
<1>5. FreeHeaders'
  <2>1. SUFFICES ASSUME NEW b \in DOMAIN layout.size \ layout.live, Here(b)'
                 PROVE  mem[b] = Header(layout, b)
    BY <1>1 DEF FreeHeaders
  <2> QED BY <2>1 DEF FreeHeaders
<1>6. Members(c)'
  BY <1>1 DEF Members, Chains
<1>7. Linked(c)'
  <2>1. SUFFICES ASSUME NEW b \in layout.live, Here(b)', NEW i \in 0 .. Len(c[b])
                 PROVE  mem[On(c, b, i)] = IF i = Len(c[b]) THEN Header(layout, b)
                                           ELSE Pointer(c[b][i + 1])
    BY <1>1 DEF Linked, On
  <2>2. Here(b)
    BY <1>2, <2>1
  <2> QED BY <2>1, <2>2 DEF Chains, Linked
<1>8. Settled(c)'
  <2>1. SUFFICES ASSUME NEW x \in Places(layout), Here(x)',
                        \A b \in layout.live : \A i \in 1 .. Len(c[b]) : c[b][i] # x
                 PROVE  mem[x] = IF Threaded(x)' THEN Relocated(before[x]) ELSE before[x]
    BY <1>1 DEF Settled, Relocated
  <2>2. Here(x)
    BY <2>1
  <2>3. mem[x] = IF Threaded(x) THEN Relocated(before[x]) ELSE before[x]
    BY <2>1, <2>2, Alone
  <2> QED BY <2>3
<1>9. (c \in [layout.live -> Seq(Places(layout))])'
  BY <1>1 DEF Chains
<1> QED BY <1>3, <1>4, <1>5, <1>6, <1>7, <1>8, <1>9 DEF Chains

\* A block whose header is in its place has an empty chain.
LEMMA HeaderBack ==
    ASSUME Graph, Progress, FreeHeaders, NEW c, Chains(c), pc # "done", AtBlock
    PROVE  /\ IsLayout(layout) /\ layout.live \subseteq DOMAIN layout.size
           /\ ptr \in DOMAIN layout.size /\ ptr \in Nat /\ ptr >= 1
           /\ layout.size[ptr] \in Nat /\ layout.size[ptr] >= 1
           /\ ptr + layout.size[ptr] \in DOMAIN layout.size \cup {layout.end}
           /\ ptr + layout.size[ptr] <= layout.end /\ layout.end \in Nat
           /\ mem[ptr] = Header(layout, ptr)
           /\ ptr \in layout.live => Len(c[ptr]) = 0
<1>1. IsLayout(layout)
  BY GcCompactAssumption DEF Graph
<1>2. ptr < layout.end
  BY DEF AtBlock, Progress
<1>3. ptr \in DOMAIN layout.size
  BY <1>1, <1>2 DEF Progress, IsLayout
<1>4. /\ ptr \in Nat /\ ptr >= 1 /\ layout.size[ptr] \in Nat /\ layout.size[ptr] >= 1
      /\ ptr + layout.size[ptr] \in DOMAIN layout.size \cup {layout.end}
      /\ ptr + layout.size[ptr] <= layout.end /\ layout.end \in Nat
      /\ layout.live \subseteq DOMAIN layout.size
  BY <1>1, <1>3, BlockFacts, NextBlock DEF IsLayout
<1>5. Here(ptr)
  BY <1>4 DEF Here
<1>6. CASE ptr \notin layout.live
  BY <1>1, <1>3, <1>4, <1>5, <1>6 DEF FreeHeaders
<1>7. CASE ptr \in layout.live
  <2>1. Len(c[ptr]) \in Nat
    BY <1>7, ChainFacts
  <2>2. mem[ptr] = IF 0 = Len(c[ptr]) THEN Header(layout, ptr) ELSE Pointer(c[ptr][0 + 1])
    BY <1>5, <1>7, <2>1 DEF Chains, Linked, On
  <2>3. Len(c[ptr]) = 0
    BY <2>2, WordFacts DEF AtBlock
  <2> QED BY <1>1, <1>3, <1>4, <2>2, <2>3
<1> QED BY <1>6, <1>7

\* No block but the one at ptr begins before the next.
LEMMA NoneBetween ==
    ASSUME IsLayout(layout), ptr \in DOMAIN layout.size, NEW b \in DOMAIN layout.size,
           b < ptr + layout.size[ptr]
    PROVE  b < ptr \/ b = ptr
<1>1. /\ b \in Nat /\ ptr \in Nat /\ layout.size[ptr] \in Nat
  BY BlockFacts
<1>2. ptr < b => ptr + layout.size[ptr] <= b
  BY DEF IsLayout
<1> QED BY <1>1, <1>2

\* The fields in front of the block behind the one at ptr.
LEMMA FieldsBefore ==
    ASSUME IsLayout(layout), ptr \in DOMAIN layout.size, NEW a \in Fields(layout)
    PROVE  /\ a \in Nat /\ ptr \in Nat /\ layout.size[ptr] \in Nat /\ a # ptr
           /\ a < ptr + layout.size[ptr] /\ ptr \notin layout.live => a < ptr
<1>1. PICK b \in layout.live : a \in Words(layout, b) /\ b < a /\ a < b + layout.size[b]
  BY FieldFacts
<1>2. b \in DOMAIN layout.size
  BY DEF IsLayout
<1>3. /\ b \in Nat /\ layout.size[b] \in Nat /\ ptr \in Nat /\ layout.size[ptr] \in Nat /\ a \in Nat
  BY <1>2, BlockFacts, FieldFacts
<1>4. a # ptr
  BY FieldFacts
<1>5. /\ b < ptr => b + layout.size[b] <= ptr
      /\ ptr < b => ptr + layout.size[ptr] <= b
  BY <1>2 DEF IsLayout
<1> QED BY <1>1, <1>3, <1>4, <1>5

----------------------------------------------------------------------------
(* The steps.                                                               *)

LEMMA InitIInv == CompactInit => IInv
<1> SUFFICES ASSUME CompactInit PROVE IInv
  OBVIOUS
<1>1. IsLayout(layout) /\ layout \in Layouts
  BY GcCompactAssumption DEF CompactInit
<1>2. PICK to \in References(layout) : before = Memory(layout, to)
  BY DEF CompactInit
<1>3. /\ layout.end \in Nat /\ layout.end >= 1
      /\ layout.live \subseteq DOMAIN layout.size
  BY <1>1 DEF IsLayout
<1>4. /\ mem = before /\ pc = "roots" /\ ptr = 1 /\ new = 1
      /\ pos = layout.end /\ free = layout.end
  BY DEF CompactInit
<1>5. \A a \in Places(layout) :
         /\ to[a] \in {0} \cup layout.live
         /\ to[a] # 0 => a \notin Words(layout, to[a])
  BY <1>2 DEF References
<1>6. \A a \in Addresses(layout) :
         before[a] = IF a \in Places(layout) THEN IF to[a] = 0 THEN Plain ELSE Pointer(to[a])
                     ELSE IF a \in DOMAIN layout.size THEN Header(layout, a) ELSE Pointer(1)
  BY <1>2 DEF Memory, Addresses
<1>7. \A b \in DOMAIN layout.size : b \in Nat /\ layout.size[b] \in Nat /\ b \in Addresses(layout)
  BY <1>1, BlockFacts, BlockIsAddress
<1>8. \A a \in Addresses(layout) :
         /\ before[a] \in WordType
         /\ IsPtr(before[a]) => before[a].n \in Addresses(layout)
  <2>1. SUFFICES ASSUME NEW a \in Addresses(layout)
                 PROVE  /\ before[a] \in WordType
                        /\ IsPtr(before[a]) => before[a].n \in Addresses(layout)
    OBVIOUS
  <2>2. CASE a \in Places(layout) /\ to[a] # 0
    <3>1. to[a] \in layout.live /\ to[a] \in Nat /\ to[a] \in Addresses(layout)
      BY <1>3, <1>5, <1>7, <2>2
    <3>2. before[a] = Pointer(to[a])
      BY <1>6, <2>2
    <3> QED BY <3>1, <3>2, WordFacts
  <2>3. CASE a \in Places(layout) /\ to[a] = 0
    <3>1. before[a] = Plain
      BY <1>6, <2>3
    <3> QED BY <3>1 DEF Plain, WordType, IsPtr
  <2>4. CASE a \notin Places(layout) /\ a \in DOMAIN layout.size
    <3>1. before[a] = Header(layout, a) /\ layout.size[a] \in Nat
      BY <1>6, <1>7, <2>4
    <3> QED BY <3>1 DEF Header, WordType, IsPtr
  <2>5. CASE a \notin Places(layout) /\ a \notin DOMAIN layout.size
    <3>1. before[a] = Pointer(1)
      BY <1>6, <2>5
    <3>2. 1 \in Addresses(layout)
      BY <1>3, GcCompactAssumption DEF Addresses
    <3> QED BY <3>1, <3>2, WordFacts
  <2> QED BY <2>2, <2>3, <2>4, <2>5
<1>9. before \in [Addresses(layout) -> WordType]
  <2>1. before = [a \in Addresses(layout) |-> before[a]]
    BY <1>2 DEF Memory, Addresses
  <2> QED BY <1>8, <2>1
<1>10. \A b \in DOMAIN layout.size : before[b] = Header(layout, b)
  <2>1. ASSUME NEW b \in DOMAIN layout.size PROVE b \notin Places(layout)
    BY <1>1, PlaceFacts
  <2> QED BY <1>6, <1>7, <2>1
<1>11. Graph
  <2>1. ASSUME NEW a \in Places(layout)
        PROVE  \/ before[a] = Plain
               \/ \E b \in layout.live : before[a] = Pointer(b) /\ a \notin Words(layout, b)
    <3>1. a \in Addresses(layout)
      BY <1>1, PlaceFacts
    <3>2. to[a] = 0 \/ to[a] \in layout.live
      BY <1>5
    <3> QED BY <1>5, <1>6, <3>1, <3>2
  <2> QED BY <1>1, <1>9, <1>10, <2>1 DEF Graph
<1>12. Progress
  <2>1. new = NewStart(layout, ptr)
    BY <1>1, <1>4, NewStartFirst
  <2>2. ptr \in DOMAIN layout.size \cup {layout.end}
    BY <1>1, <1>4, FirstBlock
  <2>3. pos \in layout.end .. layout.end + Roots
    BY <1>3, <1>4, GcCompactAssumption
  <2> QED BY <1>4, <2>1, <2>2, <2>3 DEF Progress
<1>13. MemType
  BY <1>4, <1>8, <1>9 DEF MemType
<1>14. FreeHeaders /\ Copied
  BY <1>4, <1>10 DEF FreeHeaders, Copied, Passed
<1>15. ASSUME NEW a \in Places(layout) PROVE ~Threaded(a)
  <2>1. a \in RootWords(layout) => ~(a < pos)
    BY <1>1, <1>3, <1>4, RootFacts
  <2> QED BY <1>4, <2>1 DEF Threaded, Passed
<1>16. PICK c : c = [b \in layout.live |-> <<>>]
  OBVIOUS
<1>17. c \in [layout.live -> Seq(Places(layout))] /\ \A b \in layout.live : c[b] = <<>> /\ Len(c[b]) = 0
  BY <1>16
<1>18. Members(c)
  BY <1>17 DEF Members
<1>19. Linked(c)
  <2>1. SUFFICES ASSUME NEW b \in layout.live PROVE mem[b] = Header(layout, b)
    BY <1>17 DEF Linked, On
  <2> QED BY <1>3, <1>4, <1>10
<1>20. Settled(c)
  BY <1>4, <1>15 DEF Settled
<1>21. Chains(c)
  BY <1>17, <1>18, <1>19, <1>20 DEF Chains
<1> QED BY <1>11, <1>12, <1>13, <1>14, <1>21 DEF IInv

LEMMA StepThreadRoot ==
    ASSUME IInv, ThreadRoot
    PROVE  IInv'
<1>0. /\ pc = "roots" /\ Graph /\ Progress /\ MemType /\ FreeHeaders /\ Copied
      /\ UNCHANGED <<layout, before, free, ptr, new>>
      /\ \/ pos \in RootWords(layout) /\ gc_thread_pointer(pos) /\ pos' = pos + 1 /\ pc' = pc
         \/ pos \notin RootWords(layout) /\ pc' = "pass1" /\ mem' = mem /\ pos' = pos
  BY DEF IInv, ThreadRoot
<1>1. PICK c : Chains(c)
  BY DEF IInv
<1>2. IsLayout(layout) /\ layout.live \subseteq DOMAIN layout.size /\ layout.end \in Nat /\ layout.end >= 1
  BY <1>0, GcCompactAssumption DEF Graph, IsLayout
<1>3. /\ ptr = 1 /\ ptr' = 1 /\ ~Passed /\ ~Passed' /\ Roots \in Nat
      /\ pos \in Nat /\ pos >= layout.end /\ pos <= layout.end + Roots
  BY <1>0, <1>2, GcCompactAssumption DEF Progress, Passed
<1>4. \A b \in layout.live : b \in Nat /\ b >= 1
  BY <1>2, BlockFacts
<1>5. Graph' /\ Copied'
  BY <1>0, <1>3 DEF Graph, Copied
<1>6. CASE pos \in RootWords(layout) /\ gc_thread_pointer(pos) /\ pos' = pos + 1 /\ pc' = pc
  <2>1. pos \in Places(layout) /\ ~Threaded(pos)
    <3>1. pos \notin Fields(layout)
      BY <1>2, <1>3, FieldFacts
    <3> QED BY <1>0, <1>3, <1>6, <3>1 DEF Threaded, Places
  <2>2. \A x \in Places(layout) : Threaded(x)' <=> Threaded(x) \/ x = pos
    <3>1. \A x \in RootWords(layout) : x \in Nat /\ (x < pos + 1 <=> x < pos \/ x = pos)
      BY <1>2, <1>3, RootFacts
    <3> QED BY <1>0, <1>3, <1>6, <3>1 DEF Threaded
  <2>3. \A b \in layout.live, x \in Places(layout) : Member(b, x) => Member(b, x)'
    BY <1>0, <1>3, <1>6, <2>2 DEF Member
  <2>4. \A b \in layout.live : before[pos] = Pointer(b) =>
           /\ before'[pos] = Pointer(b)
           /\ pc' = "roots"
    BY <1>0, <1>6
  <2>5. PICK p : p = pos
    OBVIOUS
  <2>6. Threaded(p)'
    BY <2>1, <2>2, <2>5
  <2>7. \A b \in layout.live : before[p] = Pointer(b) => Member(b, p)'
    BY <1>0, <1>3, <1>6, <2>6 DEF Member
  <2>8. /\ p \in Places(layout) /\ ~Threaded(p) /\ gc_thread_pointer(p)
        /\ \A x \in Places(layout) : Threaded(x)' <=> Threaded(x) \/ x = p
    BY <1>6, <2>1, <2>2, <2>5
  <2>9. MemType' /\ FreeHeaders' /\ \E d : Chains(d)'
    BY <1>0, <1>1, <1>3, <2>3, <2>7, <2>8, Threading
  <2>10. Progress'
    BY <1>0, <1>2, <1>3, <1>6, RootFacts DEF Progress
  <2> QED BY <1>5, <2>9, <2>10 DEF IInv
<1>7. CASE pos \notin RootWords(layout) /\ pc' = "pass1" /\ mem' = mem /\ pos' = pos
  <2>1. pos = layout.end + Roots
    BY <1>2, <1>3, <1>7 DEF RootWords
  <2>2. \A x \in Places(layout) : Threaded(x)' <=> Threaded(x)
    <3>1. \A x \in RootWords(layout) : x \in Nat /\ x < pos
      BY <1>2, <1>3, <2>1, RootFacts
    <3>2. \A x \in Fields(layout) : x \in Nat /\ ~(x < 1) /\ x \notin RootWords(layout)
      <4>1. \A x \in Fields(layout) : x \in Nat /\ x >= 1 /\ x < layout.end
        BY <1>2, FieldFacts
      <4> QED BY <1>2, <4>1, RootFacts
    <3> QED BY <1>0, <1>3, <1>7, <3>1, <3>2 DEF Threaded, Places
  <2>3. \A x \in Places(layout) \cup DOMAIN layout.size : Here(x)' => Here(x)
    BY <1>3 DEF Here
  <2>4. ASSUME NEW b \in layout.live, NEW i \in 1 .. Len(c[b])
        PROVE  Member(b, c[b][i])'
    <3>1. Member(b, c[b][i]) /\ c[b][i] \in Places(layout)
      BY <1>0, <1>1, ChainFacts
    <3> QED BY <1>0, <1>3, <1>4, <1>7, <2>2, <3>1 DEF Member
  <2>5. Graph' /\ MemType' /\ FreeHeaders' /\ Chains(c)'
    BY <1>0, <1>1, <1>7, <2>2, <2>3, <2>4, Walking
  <2>6. Progress'
    BY <1>0, <1>3, <1>7 DEF Progress
  <2> QED BY <1>5, <2>5, <2>6 DEF IInv
<1> QED BY <1>0, <1>6, <1>7

LEMMA StepUnthread ==
    ASSUME IInv, Unthread
    PROVE  IInv'
<1>1. Graph /\ Progress /\ MemType /\ FreeHeaders /\ Copied
  BY DEF IInv
<1>2. PICK c : Chains(c)
  BY DEF IInv
<1>3. MemType' /\ FreeHeaders' /\ Copied' /\ \E d : Chains(d)'
  BY <1>1, <1>2, Unthreading
<1>4. Graph' /\ Progress'
  <2>1. UNCHANGED <<layout, before, free, pc, ptr, new, pos>>
    BY DEF Unthread
  <2> QED BY <1>1, <2>1 DEF Graph, Progress
<1> QED BY <1>3, <1>4 DEF IInv

LEMMA StepSkipFree ==
    ASSUME IInv, SkipFree
    PROVE  IInv'
<1>0. /\ Graph /\ Progress /\ MemType /\ FreeHeaders /\ Copied
      /\ pc \in {"pass1", "pass2"} /\ AtBlock /\ mem[ptr].tag = "free"
      /\ ptr' = ptr + mem[ptr].n
      /\ UNCHANGED <<layout, before, mem, free, pc, new, pos>>
  BY DEF IInv, SkipFree, SizeAt
<1>1. PICK c : Chains(c)
  BY DEF IInv
<1>2. /\ IsLayout(layout) /\ layout.live \subseteq DOMAIN layout.size
      /\ ptr \in DOMAIN layout.size /\ ptr \in Nat /\ ptr >= 1
      /\ layout.size[ptr] \in Nat /\ layout.size[ptr] >= 1
      /\ ptr + layout.size[ptr] \in DOMAIN layout.size \cup {layout.end}
      /\ ptr + layout.size[ptr] <= layout.end /\ layout.end \in Nat
      /\ mem[ptr] = Header(layout, ptr)
  BY <1>0, <1>1, HeaderBack
<1>3. ptr \notin layout.live /\ ptr' = ptr + layout.size[ptr]
  BY <1>0, <1>2, WordFacts
<1>4. \A b \in layout.live : b \in Nat /\ b >= 1 /\ (b < ptr' <=> b < ptr)
  <2>1. ASSUME NEW b \in layout.live PROVE b \in Nat /\ b >= 1 /\ (b < ptr' <=> b < ptr)
    <3>1. b \in DOMAIN layout.size /\ b \in Nat /\ b >= 1 /\ b # ptr
      BY <1>2, <1>3, BlockFacts
    <3>2. b < ptr + layout.size[ptr] => b < ptr \/ b = ptr
      BY <1>2, <3>1, NoneBetween
    <3> QED BY <1>2, <1>3, <3>1, <3>2
  <2> QED BY <2>1
<1>5. \A x \in Places(layout) : Threaded(x)' <=> Threaded(x)
  <2>1. \A x \in Fields(layout) : x < ptr' <=> x < ptr
    BY <1>2, <1>3, FieldsBefore
  <2> QED BY <1>0, <2>1 DEF Threaded, Passed
<1>6. \A x \in Places(layout) \cup DOMAIN layout.size : Here(x)' => Here(x)
  <2>1. \A x \in Places(layout) \cup DOMAIN layout.size : x \in Nat
    BY <1>2, PlaceFacts, BlockFacts
  <2> QED BY <1>0, <1>2, <1>3, <2>1 DEF Here, Passed
<1>7. ASSUME NEW b \in layout.live, NEW i \in 1 .. Len(c[b])
      PROVE  Member(b, c[b][i])'
  <2>1. Member(b, c[b][i]) /\ c[b][i] \in Places(layout)
    BY <1>0, <1>1, ChainFacts
  <2> QED BY <1>0, <1>4, <1>5, <2>1 DEF Member, Passed
<1>8. Graph' /\ MemType' /\ FreeHeaders' /\ Chains(c)'
  BY <1>0, <1>1, <1>5, <1>6, <1>7, Walking
<1>9. Progress'
  <2>1. NewStart(layout, ptr + layout.size[ptr]) = NewStart(layout, ptr)
    BY <1>2, <1>3, NewStartFree
  <2> QED BY <1>0, <1>2, <1>3, <2>1 DEF Progress
<1>10. Copied'
  BY <1>0, <1>4 DEF Copied, Passed, Relocated
<1> QED BY <1>8, <1>9, <1>10 DEF IInv

LEMMA StepBeginThread ==
    ASSUME IInv, BeginThread
    PROVE  IInv'
<1>0. /\ Graph /\ Progress /\ MemType /\ FreeHeaders
      /\ pc = "pass1" /\ AtBlock /\ mem[ptr].tag = "header"
      /\ pc' = "thread" /\ pos' = ptr + 1
      /\ UNCHANGED <<layout, before, mem, free, ptr, new>>
  BY DEF IInv, BeginThread
<1>1. PICK c : Chains(c)
  BY DEF IInv
<1>2. /\ IsLayout(layout) /\ layout.live \subseteq DOMAIN layout.size
      /\ ptr \in DOMAIN layout.size /\ ptr \in Nat
      /\ layout.size[ptr] \in Nat /\ layout.size[ptr] >= 1
      /\ mem[ptr] = Header(layout, ptr)
      /\ ptr \in layout.live => Len(c[ptr]) = 0
  BY <1>0, <1>1, HeaderBack
<1>3. ptr \in layout.live
  BY <1>0, <1>2, WordFacts
<1>4. ~Passed /\ ~Passed'
  BY <1>0 DEF Passed
<1>5. \A x \in Places(layout) : Threaded(x)' <=> Threaded(x)
  <2>1. \A x \in Fields(layout) : x < ptr + 1 <=> x < ptr
    <3>1. \A x \in Fields(layout) : x \in Nat /\ x # ptr
      BY <1>2, FieldsBefore
    <3> QED BY <1>2, <3>1
  <2> QED BY <1>0, <1>4, <2>1 DEF Threaded
<1>6. \A x \in Places(layout) \cup DOMAIN layout.size : Here(x)' => Here(x)
  BY <1>4 DEF Here
<1>7. ASSUME NEW b \in layout.live, NEW i \in 1 .. Len(c[b])
      PROVE  Member(b, c[b][i])'
  <2>1. Member(b, c[b][i]) /\ c[b][i] \in Places(layout) /\ Len(c[b]) \in Nat
    BY <1>0, <1>1, ChainFacts
  <2>2. b # ptr
    BY <1>2, <1>3, <2>1
  <2> QED BY <1>0, <1>4, <1>5, <2>1, <2>2 DEF Member
<1>8. Graph' /\ MemType' /\ FreeHeaders' /\ Chains(c)'
  BY <1>0, <1>1, <1>5, <1>6, <1>7, Walking
<1>9. Progress'
  BY <1>0, <1>2, <1>3 DEF Progress
<1>10. Copied'
  BY <1>4 DEF Copied
<1> QED BY <1>8, <1>9, <1>10 DEF IInv

LEMMA StepThreadField ==
    ASSUME IInv, ThreadField
    PROVE  IInv'
<1>0. /\ Graph /\ Progress /\ MemType /\ FreeHeaders
      /\ pc = "thread"
      /\ UNCHANGED <<layout, before, free>>
  BY DEF IInv, ThreadField
<1>1. PICK c : Chains(c)
  BY DEF IInv
<1>2. /\ IsLayout(layout) /\ layout.live \subseteq DOMAIN layout.size
      /\ ptr \in layout.live /\ ptr \in DOMAIN layout.size
      /\ ptr \in Nat /\ ptr >= 1 /\ layout.size[ptr] \in Nat /\ layout.size[ptr] >= 1
      /\ ptr + layout.size[ptr] \in DOMAIN layout.size \cup {layout.end}
      /\ ptr + layout.size[ptr] <= layout.end /\ layout.end \in Nat
      /\ pos \in Nat /\ pos >= ptr + 1 /\ pos <= ptr + layout.size[ptr]
  <2>1. IsLayout(layout) /\ ptr \in layout.live /\ pos \in ptr + 1 .. ptr + layout.size[ptr]
    BY <1>0, GcCompactAssumption DEF Graph, Progress
  <2>2. ptr \in DOMAIN layout.size /\ layout.live \subseteq DOMAIN layout.size
    BY <2>1 DEF IsLayout
  <2> QED BY <2>1, <2>2, BlockFacts, NextBlock
<1>3. ~Passed
  BY <1>0 DEF Passed
<1>4. Len(c[ptr]) = 0
  <2>1. Len(c[ptr]) \in Nat /\ \A i \in 1 .. Len(c[ptr]) : Member(ptr, c[ptr][i])
    BY <1>0, <1>1, <1>2, ChainFacts
  <2>2. \A i \in 1 .. Len(c[ptr]) : FALSE
    BY <1>0, <2>1 DEF Member
  <2>3. Len(c[ptr]) # 0 => 1 \in 1 .. Len(c[ptr])
    BY <2>1
  <2> QED BY <2>2, <2>3
<1>5. mem[ptr] = Header(layout, ptr)
  <2>1. mem[On(c, ptr, 0)] = IF 0 = Len(c[ptr]) THEN Header(layout, ptr) ELSE Pointer(c[ptr][0 + 1])
    <3>1. Linked(c) /\ Here(ptr) /\ ptr \in layout.live
      BY <1>1, <1>2, <1>3 DEF Chains, Here
    <3>2. 0 \in 0 .. Len(c[ptr])
      BY <1>4
    <3> QED BY <3>1, <3>2 DEF Linked
  <2> QED BY <1>4, <2>1 DEF On
<1>6. SizeAt(ptr) = layout.size[ptr]
  BY <1>5, WordFacts DEF SizeAt
<1>7. \A b \in layout.live : b \in Nat /\ b >= 1 /\ (b < ptr + layout.size[ptr] => b < ptr \/ b = ptr)
  <2>1. ASSUME NEW b \in layout.live
        PROVE  b \in Nat /\ b >= 1 /\ (b < ptr + layout.size[ptr] => b < ptr \/ b = ptr)
    BY <1>2, BlockFacts, NoneBetween
  <2> QED BY <2>1
<1>8. CASE /\ pos < ptr + layout.size[ptr] /\ gc_thread_pointer(pos)
           /\ pos' = pos + 1 /\ pc' = pc /\ ptr' = ptr /\ new' = new
  <2>0. ~Passed'
    BY <1>3, <1>8 DEF Passed
  <2>1. /\ pos \in Fields(layout) /\ pos \in Places(layout) /\ pos \notin RootWords(layout)
        /\ pos < layout.end /\ pos \in Words(layout, ptr)
    <3>1. pos \in Words(layout, ptr)
      BY <1>2, <1>8 DEF Words
    <3>2. pos \in LiveWords(layout)
      BY <1>2, <3>1 DEF LiveWords
    <3>3. pos \notin layout.live
      <4>1. SUFFICES ASSUME pos \in layout.live PROVE FALSE
        OBVIOUS
      <4> QED BY <1>2, <1>7, <1>8, <4>1
    <3>4. pos < layout.end
      BY <1>2, <1>8
    <3>5. pos \notin RootWords(layout)
      BY <1>2, <3>4, RootFacts
    <3> QED BY <3>1, <3>2, <3>3, <3>4, <3>5 DEF Fields, Places
  <2>2. PICK p : p = pos
    OBVIOUS
  <2>3. ~Threaded(p)
    BY <1>0, <1>2, <1>3, <2>1, <2>2 DEF Threaded
  <2>4. \A x \in Places(layout) : Threaded(x)' <=> Threaded(x) \/ x = p
    <3>1. \A x \in Fields(layout) : x < pos + 1 <=> x < pos \/ x = pos
      <4>1. \A x \in Fields(layout) : x \in Nat
        BY <1>2, FieldFacts
      <4> QED BY <1>2, <4>1
    <3> QED BY <1>0, <1>3, <1>8, <2>0, <2>1, <2>2, <3>1 DEF Threaded
  <2>5. \A b \in layout.live, x \in Places(layout) : Member(b, x) => Member(b, x)'
    BY <1>0, <1>3, <1>8, <2>0, <2>4 DEF Member
  <2>6. ASSUME NEW b \in layout.live, before[p] = Pointer(b)
        PROVE  Member(b, p)'
    <3>1. b # ptr
      <4>1. PICK e \in layout.live : before[p] = Pointer(e) /\ p \notin Words(layout, e)
        BY <1>0, <2>1, <2>2, <2>6, WordFacts DEF Graph
      <4>2. e = b
        <5>1. Pointer(e) = Pointer(b)
          BY <2>6, <4>1
        <5>2. Pointer(e).n = e /\ Pointer(b).n = b
          BY DEF Pointer
        <5> QED BY <5>1, <5>2
      <4> QED BY <2>1, <2>2, <4>1, <4>2
    <3>2. Threaded(p)'
      BY <2>1, <2>2, <2>4
    <3>3. b < ptr => b < p /\ p < layout.end
      BY <1>2, <1>7, <2>1, <2>2
    <3> QED BY <1>0, <1>3, <1>8, <2>0, <2>6, <3>1, <3>2, <3>3 DEF Member
  <2>7. p \in Places(layout) /\ gc_thread_pointer(p) /\ UNCHANGED <<layout, before>>
    BY <1>0, <1>8, <2>1, <2>2
  <2>8. \A b \in layout.live : before[p] = Pointer(b) => Member(b, p)'
    BY <2>6
  <2>9. MemType' /\ FreeHeaders' /\ \E d : Chains(d)'
    BY <1>0, <1>1, <1>3, <2>0, <2>3, <2>4, <2>5, <2>7, <2>8, Threading
  <2>10. Progress'
    BY <1>0, <1>2, <1>8 DEF Progress
  <2>11. Graph' /\ Copied'
    BY <1>0, <2>0 DEF Graph, Copied
  <2> QED BY <2>9, <2>10, <2>11 DEF IInv
<1>9. CASE /\ ~(pos < ptr + layout.size[ptr]) /\ pc' = "pass1"
           /\ ptr' = ptr + layout.size[ptr] /\ new' = new + layout.size[ptr]
           /\ mem' = mem /\ pos' = pos
  <2>0. ~Passed' /\ pos = ptr' /\ ptr' \in Nat
    BY <1>2, <1>9 DEF Passed
  <2>1. \A x \in Places(layout) : Threaded(x)' <=> Threaded(x)
    BY <1>0, <1>3, <1>9, <2>0 DEF Threaded
  <2>2. \A x \in Places(layout) \cup DOMAIN layout.size : Here(x)' => Here(x)
    BY <1>3 DEF Here
  <2>3. ASSUME NEW b \in layout.live, NEW i \in 1 .. Len(c[b])
        PROVE  Member(b, c[b][i])'
    <3>1. Member(b, c[b][i]) /\ c[b][i] \in Places(layout) /\ Len(c[b]) \in Nat
      BY <1>0, <1>1, ChainFacts
    <3>2. b # ptr
      BY <1>4, <3>1
    <3>3. b < ptr' => b < ptr
      BY <1>7, <1>9, <3>2
    <3> QED BY <1>0, <1>3, <1>9, <2>0, <2>1, <3>1, <3>3 DEF Member
  <2>4. Graph' /\ MemType' /\ FreeHeaders' /\ Chains(c)'
    BY <1>0, <1>1, <1>9, <2>1, <2>2, <2>3, Walking
  <2>5. Progress'
    <3>1. NewStart(layout, ptr + layout.size[ptr]) = NewStart(layout, ptr) + layout.size[ptr]
      BY <1>2, NewStartLive
    <3> QED BY <1>0, <1>2, <1>9, <3>1 DEF Progress
  <2>6. Copied'
    BY <2>0 DEF Copied
  <2> QED BY <2>4, <2>5, <2>6 DEF IInv
<1> QED BY <1>6, <1>8, <1>9 DEF ThreadField

LEMMA StepBeginPass2 ==
    ASSUME IInv, BeginPass2
    PROVE  IInv'
<1>0. /\ Graph /\ Progress /\ MemType /\ FreeHeaders
      /\ pc = "pass1" /\ ptr = free /\ pc' = "pass2" /\ ptr' = 1 /\ new' = 1
      /\ UNCHANGED <<layout, before, mem, free, pos>>
  BY DEF IInv, BeginPass2
<1>1. PICK c : Chains(c)
  BY DEF IInv
<1>2. /\ IsLayout(layout) /\ layout.live \subseteq DOMAIN layout.size
      /\ ptr = layout.end /\ layout.end \in Nat
  BY <1>0, GcCompactAssumption DEF Graph, Progress, IsLayout
<1>3. \A b \in layout.live : b \in Nat /\ b >= 1 /\ b < ptr
  BY <1>2, BlockFacts
<1>4. ~Passed /\ Passed'
  BY <1>0 DEF Passed
<1>5. \A x \in Places(layout) : Threaded(x)' <=> Threaded(x)
  <2>1. \A x \in Fields(layout) : x < ptr
    BY <1>2, FieldFacts
  <2> QED BY <1>0, <1>4, <2>1 DEF Threaded, Places
<1>6. \A x \in Places(layout) \cup DOMAIN layout.size : Here(x)' => Here(x)
  BY <1>4 DEF Here
<1>7. ASSUME NEW b \in layout.live, NEW i \in 1 .. Len(c[b])
      PROVE  Member(b, c[b][i])'
  <2>1. Member(b, c[b][i]) /\ c[b][i] \in Places(layout)
    BY <1>0, <1>1, ChainFacts
  <2> QED BY <1>0, <1>3, <1>4, <1>5, <2>1 DEF Member
<1>8. Graph' /\ MemType' /\ FreeHeaders' /\ Chains(c)'
  BY <1>0, <1>1, <1>5, <1>6, <1>7, Walking
<1>9. Progress'
  BY <1>0, <1>2, FirstBlock, NewStartFirst DEF Progress
<1>10. Copied'
  BY <1>0, <1>3 DEF Copied
<1> QED BY <1>8, <1>9, <1>10 DEF IInv

LEMMA StepMove ==
    ASSUME IInv, Move
    PROVE  IInv'
<1>0. /\ Graph /\ Progress /\ MemType /\ FreeHeaders /\ Copied
      /\ pc = "pass2" /\ AtBlock /\ mem[ptr].tag = "header"
      /\ mem' = Slid(mem, ptr, new, mem[ptr].n)
      /\ ptr' = ptr + mem[ptr].n /\ new' = new + mem[ptr].n
      /\ UNCHANGED <<layout, before, free, pc, pos>>
  BY DEF IInv, Move, SizeAt
<1>1. PICK c : Chains(c)
  BY DEF IInv
<1>2. /\ IsLayout(layout) /\ layout.live \subseteq DOMAIN layout.size
      /\ ptr \in DOMAIN layout.size /\ ptr \in Nat /\ ptr >= 1
      /\ layout.size[ptr] \in Nat /\ layout.size[ptr] >= 1
      /\ ptr + layout.size[ptr] \in DOMAIN layout.size \cup {layout.end}
      /\ ptr + layout.size[ptr] <= layout.end /\ layout.end \in Nat
      /\ mem[ptr] = Header(layout, ptr)
      /\ ptr \in layout.live => Len(c[ptr]) = 0
  BY <1>0, <1>1, HeaderBack
<1>3. /\ ptr \in layout.live /\ Passed /\ Passed'
      /\ ptr' = ptr + layout.size[ptr] /\ new' = new + layout.size[ptr]
      /\ mem' = Slid(mem, ptr, new, layout.size[ptr])
  BY <1>0, <1>2, WordFacts DEF Passed
<1>4. new \in Nat /\ new >= 1 /\ new <= ptr /\ new = NewStart(layout, ptr)
  BY <1>0, <1>2, NewStartBound DEF Progress
<1>5. \A b \in layout.live : b \in Nat /\ b >= 1 /\ (b < ptr' => b < ptr \/ b = ptr)
  <2>1. ASSUME NEW b \in layout.live
        PROVE  b \in Nat /\ b >= 1 /\ (b < ptr + layout.size[ptr] => b < ptr \/ b = ptr)
    BY <1>2, BlockFacts, NoneBetween
  <2> QED BY <1>3, <2>1
<1>6. DOMAIN mem = Addresses(layout) /\ mem \in [Addresses(layout) -> WordType]
  BY <1>0 DEF MemType
<1>7. \A a \in Addresses(layout) :
         mem'[a] = IF a \in new .. new + layout.size[ptr] - 1 THEN mem[ptr + (a - new)] ELSE mem[a]
  BY <1>3, <1>6 DEF Slid
<1>8. /\ \A a \in Addresses(layout) : a \in Nat
      /\ \A a \in Addresses(layout) : a >= ptr' => mem'[a] = mem[a]
      /\ \A a \in Addresses(layout) : a < new => mem'[a] = mem[a]
      /\ \A a \in new .. new + layout.size[ptr] - 1 : ptr + (a - new) \in Addresses(layout)
      /\ \A k \in 0 .. layout.size[ptr] - 1 :
            new + k \in Addresses(layout) /\ mem'[new + k] = mem[ptr + k]
  <2>1. \A a \in Addresses(layout) : a \in Nat
    BY DEF Addresses
  <2>2. ASSUME NEW a \in Addresses(layout), a >= ptr' \/ a < new PROVE mem'[a] = mem[a]
    <3>1. ~(a \in new .. new + layout.size[ptr] - 1)
      BY <1>2, <1>3, <1>4, <2>1, <2>2
    <3> QED BY <1>7, <3>1
  <2>3. ASSUME NEW a \in new .. new + layout.size[ptr] - 1
        PROVE  ptr + (a - new) \in Addresses(layout)
    <3>1. ptr + (a - new) \in Nat /\ ptr + (a - new) >= 1 /\ ptr + (a - new) <= layout.end - 1
      <4>1. /\ ptr \in Nat /\ ptr >= 1 /\ layout.size[ptr] \in Nat /\ layout.end \in Nat
            /\ new \in Nat /\ ptr + layout.size[ptr] <= layout.end
        BY <1>2, <1>4
      <4> QED BY <4>1
    <3> QED BY <1>2, <3>1, GcCompactAssumption DEF Addresses
  <2>4. ASSUME NEW k \in 0 .. layout.size[ptr] - 1
        PROVE  new + k \in Addresses(layout) /\ mem'[new + k] = mem[ptr + k]
    <3>1. /\ new + k \in Nat /\ new + k >= 1 /\ new + k <= layout.end - 1
          /\ new + k \in new .. new + layout.size[ptr] - 1 /\ ptr + ((new + k) - new) = ptr + k
      <4>1. /\ ptr \in Nat /\ layout.size[ptr] \in Nat /\ layout.end \in Nat
            /\ new \in Nat /\ new >= 1 /\ new <= ptr /\ ptr + layout.size[ptr] <= layout.end
        BY <1>2, <1>4
      <4> QED BY <4>1
    <3>2. new + k \in Addresses(layout)
      BY <1>2, <3>1, GcCompactAssumption DEF Addresses
    <3> QED BY <1>7, <3>1, <3>2
  <2> QED BY <2>1, <2>2, <2>3, <2>4
<1>9. MemType'
  <2>1. \A a \in Addresses(layout) : \E e \in Addresses(layout) : mem'[a] = mem[e]
    BY <1>7, <1>8
  <2>2. mem' = [a \in Addresses(layout) |-> mem'[a]]
    BY <1>3, <1>6 DEF Slid
  <2>3. \A a \in Addresses(layout) : mem'[a] \in WordType
    BY <1>6, <2>1
  <2>4. mem' \in [Addresses(layout) -> WordType]
    BY <2>2, <2>3
  <2>5. \A a \in Addresses(layout) : IsPtr(mem'[a]) => mem'[a].n \in Addresses(layout)
    BY <1>0, <2>1 DEF MemType
  <2> QED BY <1>0, <2>4, <2>5 DEF MemType, IsPtr
<1>10. \A x \in Places(layout) \cup DOMAIN layout.size :
          /\ x \in Addresses(layout)
          /\ Here(x)' => Here(x) /\ x >= ptr'
  <2>1. \A x \in Places(layout) \cup DOMAIN layout.size : x \in Addresses(layout)
    BY <1>2, PlaceFacts, BlockIsAddress
  <2> QED BY <1>2, <1>3, <1>8, <2>1 DEF Here
<1>11. FreeHeaders'
  <2>1. SUFFICES ASSUME NEW b \in DOMAIN layout.size \ layout.live, Here(b)'
                 PROVE  mem'[b] = Header(layout, b)
    BY <1>0 DEF FreeHeaders
  <2> QED BY <1>0, <1>8, <1>10, <2>1 DEF FreeHeaders
<1>12. ASSUME NEW b \in layout.live, NEW i \in 1 .. Len(c[b])
       PROVE  /\ c[b][i] \in Addresses(layout) /\ b >= ptr' /\ c[b][i] >= ptr'
              /\ Member(b, c[b][i])'
  <2>1. Member(b, c[b][i]) /\ c[b][i] \in Addresses(layout) /\ Len(c[b]) \in Nat
    BY <1>0, <1>1, ChainFacts
  <2>2. b # ptr
    BY <1>2, <1>3, <2>1
  <2>3. ~(b < ptr) /\ b < c[b][i]
    BY <1>3, <2>1 DEF Member
  <2>4. b >= ptr'
    BY <1>2, <1>3, <1>5, <2>2, <2>3
  <2>5. c[b][i] >= ptr'
    <3>1. b \in Nat /\ c[b][i] \in Nat
      BY <1>5, <1>8, <2>1
    <3>2. ptr' \in Nat
      BY <1>2, <1>3
    <3> QED BY <2>3, <2>4, <3>1, <3>2
  <2>6. Member(b, c[b][i])'
    BY <1>0, <1>2, <1>3, <1>5, <2>1, <2>4 DEF Member, Threaded
  <2> QED BY <2>1, <2>4, <2>5, <2>6
<1>13. Members(c)'
  BY <1>0, <1>1, <1>12 DEF Members, Chains
<1>14. Linked(c)'
  <2>1. SUFFICES ASSUME NEW b \in layout.live, Here(b)', NEW i \in 0 .. Len(c[b])
                 PROVE  mem'[On(c, b, i)] = IF i = Len(c[b]) THEN Header(layout, b)
                                            ELSE Pointer(c[b][i + 1])
    BY <1>0 DEF Linked, On
  <2>2. Here(b) /\ b \in Addresses(layout) /\ b >= ptr'
    BY <1>2, <1>10, <2>1
  <2>3. On(c, b, i) \in Addresses(layout) /\ On(c, b, i) >= ptr'
    <3>1. CASE i = 0
      BY <2>2, <3>1 DEF On
    <3>2. CASE i # 0
      <4>1. i \in 1 .. Len(c[b])
        BY <1>0, <1>1, <3>2, ChainFacts
      <4> QED BY <1>12, <3>2, <4>1 DEF On
    <3> QED BY <3>1, <3>2
  <2>4. mem'[On(c, b, i)] = mem[On(c, b, i)]
    BY <1>8, <2>3
  <2> QED BY <1>1, <2>1, <2>2, <2>4 DEF Chains, Linked
<1>15. Settled(c)'
  <2>1. SUFFICES ASSUME NEW x \in Places(layout), Here(x)',
                        \A b \in layout.live : \A i \in 1 .. Len(c[b]) : c[b][i] # x
                 PROVE  mem'[x] = IF Threaded(x)' THEN Relocated(before[x]) ELSE before[x]
    BY <1>0 DEF Settled, Relocated
  <2>2. Threaded(x) /\ Threaded(x)'
    BY <1>3 DEF Threaded
  <2>3. mem[x] = IF Threaded(x) THEN Relocated(before[x]) ELSE before[x]
    BY <1>1, <1>10, <2>1, Alone
  <2> QED BY <1>8, <1>10, <2>1, <2>2, <2>3
<1>16. Chains(c)'
  <2>1. (c \in [layout.live -> Seq(Places(layout))])'
    BY <1>0, <1>1 DEF Chains
  <2> QED BY <1>13, <1>14, <1>15, <2>1 DEF Chains
<1>17. Copied'
  <2>1. SUFFICES ASSUME NEW b \in layout.live, b < ptr', NEW k \in 0 .. layout.size[b] - 1
                 PROVE  mem'[NewStart(layout, b) + k] = Relocated(before[b + k])
    <3>1. layout' = layout /\ before' = before
      BY <1>0
    <3> QED BY <3>1, Zenon DEF Copied, Relocated
  <2>2. b < ptr \/ b = ptr
    BY <1>5, <2>1
  <2>3. CASE b < ptr
    <3>1. mem[NewStart(layout, b) + k] = Relocated(before[b + k])
      BY <1>0, <1>3, <2>3 DEF Copied
    <3>2. /\ b \in DOMAIN layout.size /\ b \in Nat /\ b >= 1 /\ layout.size[b] \in Nat
          /\ b + layout.size[b] <= ptr
      BY <1>2, <2>3, BlockFacts, BlockOrder
    <3>3. NewStart(layout, b) \in Nat /\ NewStart(layout, b) >= 1
      BY <1>2, <3>2, NewStartBound
    <3>4. NewStart(layout, b) + layout.size[b] <= new
      <4>1. NewStart(layout, b + layout.size[b]) = NewStart(layout, b) + layout.size[b]
        BY <1>2, NewStartLive
      <4>2. NewStart(layout, b + layout.size[b]) <= NewStart(layout, ptr)
        BY <1>2, <3>2, NewStartMonotone
      <4> QED BY <1>4, <4>1, <4>2
    <3>5. /\ NewStart(layout, b) + k \in Nat /\ NewStart(layout, b) + k >= 1
          /\ NewStart(layout, b) + k < new
      BY <1>4, <3>2, <3>3, <3>4
    <3>6. NewStart(layout, b) + k \in Addresses(layout)
      BY <1>2, <1>4, <3>5, GcCompactAssumption DEF Addresses
    <3> QED BY <1>8, <3>1, <3>5, <3>6
  <2>4. CASE b = ptr
    <3>1. mem'[NewStart(layout, b) + k] = mem[ptr + k]
      BY <1>4, <1>8, <2>1, <2>4
    <3>2. CASE k = 0
      <4>1. before[ptr] = Header(layout, ptr) /\ ptr + k = ptr
        BY <1>0, <1>2, <3>2 DEF Graph
      <4>2. Relocated(before[ptr]) = Header(layout, ptr)
        BY <4>1, WordFacts DEF Relocated
      <4> QED BY <1>2, <2>4, <3>1, <4>1, <4>2
    <3>3. CASE k # 0
      <4>0. k \in Nat /\ k >= 1 /\ k <= layout.size[ptr] - 1
        BY <1>2, <2>1, <2>4, <3>3
      <4>1. PICK x : x = ptr + k
        OBVIOUS
      <4>2. x \in Nat /\ ptr < x /\ x < ptr'
        BY <1>2, <1>3, <4>0, <4>1
      <4>3. x \in Words(layout, ptr)
        BY <1>2, <1>3, <4>2 DEF Words
      <4>4. x \notin layout.live
        BY <1>2, <1>5, <4>2
      <4>5. x \in Places(layout)
        BY <1>3, <4>3, <4>4 DEF Places, Fields, LiveWords
      <4>6. \A e \in layout.live : \A i \in 1 .. Len(c[e]) : c[e][i] # x
        BY <1>2, <1>3, <1>8, <1>12, <4>2
      <4>7. Here(x) /\ Threaded(x)
        BY <1>2, <1>3, <4>2 DEF Here, Threaded
      <4>8. mem[x] = Relocated(before[x])
        BY <1>1, <4>5, <4>6, <4>7, Alone
      <4> QED BY <2>4, <3>1, <4>1, <4>8
    <3> QED BY <3>2, <3>3
  <2> QED BY <2>2, <2>3, <2>4
<1>18. Progress'
  <2>1. NewStart(layout, ptr + layout.size[ptr]) = NewStart(layout, ptr) + layout.size[ptr]
    BY <1>2, <1>3, NewStartLive
  <2> QED BY <1>0, <1>2, <1>3, <1>4, <2>1 DEF Progress
<1>19. Graph'
  BY <1>0 DEF Graph
<1> QED BY <1>9, <1>11, <1>16, <1>17, <1>18, <1>19 DEF IInv

LEMMA StepCompacted ==
    ASSUME IInv, Compacted
    PROVE  IInv'
<1>0. /\ Graph /\ Progress /\ MemType /\ FreeHeaders /\ Copied
      /\ pc = "pass2" /\ ptr = free /\ free' = new /\ pc' = "done"
      /\ UNCHANGED <<layout, before, mem, ptr, new, pos>>
  BY DEF IInv, Compacted
<1>1. PICK c : Chains(c)
  BY DEF IInv
<1>2. Passed /\ Passed'
  BY <1>0 DEF Passed
<1>3. \A x \in Places(layout) : Threaded(x)' <=> Threaded(x)
  BY <1>2 DEF Threaded
<1>4. \A x \in Places(layout) \cup DOMAIN layout.size : Here(x)' => Here(x)
  BY <1>0, <1>2 DEF Here
<1>5. ASSUME NEW b \in layout.live, NEW i \in 1 .. Len(c[b])
      PROVE  Member(b, c[b][i])'
  <2>1. Member(b, c[b][i]) /\ c[b][i] \in Places(layout)
    BY <1>0, <1>1, ChainFacts
  <2> QED BY <1>0, <1>2, <1>3, <2>1 DEF Member
<1>6. Graph' /\ MemType' /\ FreeHeaders' /\ Chains(c)'
  BY <1>0, <1>1, <1>3, <1>4, <1>5, Walking
<1>7. Progress'
  BY <1>0 DEF Progress
<1>8. Copied'
  <2>1. layout' = layout /\ before' = before /\ mem' = mem /\ ptr' = ptr
    BY <1>0
  <2> QED BY <1>0, <1>2, <2>1 DEF Copied, Relocated
<1> QED BY <1>6, <1>7, <1>8 DEF IInv

----------------------------------------------------------------------------

\* The chains explain memory, from the first root threaded to the last block
\* moved: gc_compact_heap loses no header and no reference on the way.
THEOREM CompactInvariant == CompactSpec => []IInv
<1>1. CompactInit => IInv
  BY InitIInv
<1>2. IInv /\ [CompactNext]_compactVars => IInv'
  <2>1. SUFFICES ASSUME IInv, [CompactNext]_compactVars PROVE IInv'
    OBVIOUS
  <2>2. CASE UNCHANGED compactVars
    <3>1. UNCHANGED <<layout, before, mem, free, pc, ptr, new, pos>>
      BY <2>2 DEF compactVars
    <3>2. PICK c : Chains(c)
      BY <2>1 DEF IInv
    <3>3. /\ layout' = layout /\ before' = before /\ mem' = mem /\ free' = free
          /\ pc' = pc /\ ptr' = ptr /\ new' = new /\ pos' = pos
      BY <3>1
    <3>4. /\ Graph /\ Progress /\ MemType /\ FreeHeaders /\ Copied
          /\ Passed' <=> Passed
      BY <2>1, <3>3 DEF IInv, Passed
    <3>5. \A x \in Places(layout) : Threaded(x)' <=> Threaded(x)
      BY <3>3, <3>4 DEF Threaded
    <3>6. \A x \in Places(layout) \cup DOMAIN layout.size : Here(x)' => Here(x)
      BY <3>3, <3>4 DEF Here
    <3>7. ASSUME NEW b \in layout.live, NEW i \in 1 .. Len(c[b])
          PROVE  Member(b, c[b][i])'
      <4>1. Member(b, c[b][i]) /\ c[b][i] \in Places(layout)
        BY <3>2, <3>4, ChainFacts
      <4> QED BY <3>3, <3>4, <3>5, <4>1 DEF Member
    <3>8. Graph' /\ MemType' /\ FreeHeaders' /\ Chains(c)'
      BY <3>2, <3>3, <3>4, <3>5, <3>6, <3>7, Walking
    <3>9. Progress'
      BY <3>3, <3>4 DEF Progress
    <3>10. Copied'
      BY <3>3, <3>4 DEF Copied, Relocated
    <3> QED BY <3>8, <3>9, <3>10 DEF IInv
  <2> QED BY <2>1, <2>2, StepThreadRoot, StepUnthread, StepSkipFree, StepBeginThread,
             StepThreadField, StepBeginPass2, StepMove, StepCompacted DEF CompactNext
<1> QED BY <1>1, <1>2, PTL DEF CompactSpec

\* The types of the compaction's state, for every heap.
THEOREM CompactTypeCorrect == CompactSpec => []CompactTypeOK
<1>1. IInv => CompactTypeOK
  <2>1. SUFFICES ASSUME IInv PROVE CompactTypeOK
    OBVIOUS
  <2>2. IsLayout(layout) /\ layout \in Layouts /\ layout.end \in Nat /\ layout.end >= 1
    BY <2>1, GcCompactAssumption DEF IInv, Graph, IsLayout
  <2>3. ptr \in Nat /\ ptr >= 1 /\ ptr <= layout.end
    BY <2>1, <2>2, BlockFacts DEF IInv, Progress
  <2>4. new \in Nat /\ new <= ptr
    BY <2>1, <2>2, <2>3, NewStartBound DEF IInv, Progress
  <2>5. /\ DOMAIN mem = Addresses(layout)
        /\ \A a \in Addresses(layout) : mem[a] \in WordType
    BY <2>1 DEF IInv, MemType
  <2>6. \A a \in Addresses(layout) : /\ mem[a].tag \in {"pointer", "header", "free", "value"}
                                     /\ mem[a].n \in Nat
    BY <2>5 DEF WordType
  <2>7. \A a \in Addresses(layout) : IsPtr(mem[a]) => mem[a].n \in Addresses(layout)
    BY <2>1 DEF IInv, MemType
  <2>8. /\ pc \in {"roots", "pass1", "thread", "pass2", "done"}
        /\ free \in Nat /\ free <= layout.end
    BY <2>1, <2>2, <2>3, <2>4 DEF IInv, Progress
  <2> QED BY <2>2, <2>3, <2>4, <2>5, <2>6, <2>7, <2>8 DEF CompactTypeOK, Addresses
<1> QED BY <1>1, CompactInvariant, PTL

\* For every heap, every graph of references and every number of roots: when
\* gc_compact_heap returns, the live blocks are at the front in their order,
\* without gaps, and every field and root refers to the block it did before.
THEOREM CompactionKeepsHeap == CompactSpec => []HeapIsTheSame
<1>1. IInv => HeapIsTheSame
  <2>1. SUFFICES ASSUME IInv, pc = "done" PROVE HeapIsTheSame
    BY DEF HeapIsTheSame
  <2>2. Graph /\ Progress /\ Copied /\ Passed /\ ptr = layout.end /\ free = NewStart(layout, layout.end)
    BY <2>1 DEF IInv, Progress, Passed
  <2>3. PICK c : Chains(c)
    BY <2>1 DEF IInv
  <2>4. IsLayout(layout) /\ layout.live \subseteq DOMAIN layout.size
    BY <2>2, GcCompactAssumption DEF Graph, IsLayout
  <2>5. \A b \in layout.live : b < ptr
    BY <2>2, <2>4, BlockFacts
  <2>6. ASSUME NEW a \in RootWords(layout) PROVE mem[a] = Relocated(before[a])
    <3>1. a \in Places(layout) /\ Here(a) /\ Threaded(a)
      BY <2>2, <2>4, RootFacts DEF Places, Here, Threaded
    <3>2. \A b \in layout.live : \A i \in 1 .. Len(c[b]) : c[b][i] # a
      BY <2>2, <2>3, <2>5 DEF Chains, Members, Member
    <3> QED BY <2>3, <3>1, <3>2, Alone
  <2> QED BY <2>1, <2>2, <2>5, <2>6 DEF HeapIsTheSame, Copied
<1> QED BY <1>1, CompactInvariant, PTL
=============================================================================
