---------------------------- MODULE GcMarkProofs ----------------------------
(***************************************************************************)
(* The mark phase is correct for every heap, every list of roots and every *)
(* size of the mark stack: what it marks is what the program can reach.    *)
(*                                                                         *)
(* The argument is the invariant Frontier: whenever a marked block refers  *)
(* to an unmarked one, the block is still waiting -- on the stack, as the  *)
(* object being scanned, ahead of the rescan -- or the overflow flag says  *)
(* that it may have been left behind.  Minimal is its mirror image.        *)
(***************************************************************************)
EXTENDS GcMark, TLAPS

Entry == [blk : Blocks, pos : Nat \ {0}]

\* What the proof needs of the types; the bound on room is TLC's.
Typed ==
    /\ mtag \in [Blocks -> Kinds]
    /\ refs \in [Blocks -> Seq(Values)]
    /\ rootList \in Seq(Values) /\ uniqueStrings \in Values /\ strPos \in Values
    /\ marked \subseteq Blocks
    /\ gsp \in Seq(Entry)
    /\ overflow \in BOOLEAN
    /\ cur \in [blk : Values, pos : Nat \ {0}]
    /\ place \in Nat \ {0} /\ keptStrings \in Seq(Values)
    /\ phase \in {"roots", "rescan", "weak", "sweep", "swept"}

Marking == phase \in {"roots", "rescan"}

\* Only what has references has fields, and the table of unique strings is
\* not reached before the strings in it are looked at.
Shaped ==
    Marking \/ phase = "weak" =>
       /\ \A b \in Blocks : ~HasReferences(b) => refs[b] = <<>>
       /\ \A b \in Blocks : \A i \in DOMAIN refs[b] : refs[b][i] # 0 => refs[b][i] # uniqueStrings
       /\ \A i \in DOMAIN rootList : rootList[i] # 0 => rootList[i] # uniqueStrings
       /\ uniqueStrings \notin marked
       /\ \A i \in DOMAIN keptStrings : keptStrings[i] \in marked
       /\ keptStrings # <<>> => uniqueStrings # 0

\* Only marked blocks are waiting.
WaitingMarked ==
    /\ \A k \in DOMAIN gsp : gsp[k].blk \in marked
    /\ cur.blk # 0 => cur.blk \in marked /\ cur.pos \in DOMAIN refs[cur.blk]
    /\ ~Marking => gsp = <<>> /\ cur.blk = 0

\* Field i of block b is still to be looked at.
Waiting(b, i) ==
    \/ \E k \in DOMAIN gsp : gsp[k].blk = b /\ gsp[k].pos <= i
    \/ cur.blk = b /\ cur.pos <= i
    \/ phase = "rescan" /\ place <= b
    \/ overflow

Frontier ==
    \A b \in marked : \A i \in DOMAIN refs[b] :
        refs[b][i] # 0 => refs[b][i] \in marked \/ Waiting(b, i)

RootsMarked ==
    \A i \in DOMAIN rootList :
        rootList[i] # 0 /\ (phase = "roots" => i < place) => rootList[i] \in marked

\* C holds the roots and what its marked members refer to.
Holds(C) ==
    /\ \A i \in DOMAIN rootList : rootList[i] # 0 => rootList[i] \in C
    /\ \A b \in (C \cap marked) \ {uniqueStrings} : \A i \in DOMAIN refs[b] :
          refs[b][i] # 0 => refs[b][i] \in C

Minimal == \A C \in SUBSET Blocks : Holds(C) => marked \ {uniqueStrings} \subseteq C

\* Once marking is over no field is waiting any more.
Complete == ~Marking => ~overflow

IInv == Typed /\ Shaped /\ WaitingMarked /\ Frontier /\ RootsMarked /\ Minimal /\ Complete

----------------------------------------------------------------------------

\* What gc_mark does to the marks and the stack, in one place: v is marked,
\* and if it is new and has references it waits or the flag is set.
Marks(v, s) ==
    /\ marked' = marked \cup ({v} \ {0})
    /\ overflow => overflow'
    /\ overflow' \in BOOLEAN
    /\ \/ gsp' = s
       \/ gsp' = Append(s, [blk |-> v, pos |-> 1]) /\ v # 0
    /\ \/ v = 0 \/ v \in marked \/ ~HasReferences(v)
       \/ gsp' = Append(s, [blk |-> v, pos |-> 1])
       \/ overflow'

LEMMA GcMarkMarks ==
    ASSUME NEW v, NEW s, NEW m, overflow \in BOOLEAN, gc_mark(v, s, m)
    PROVE  Marks(v, s)
BY DEF gc_mark, Marks

\* Any entry of s is an entry of the stack gc_mark leaves.
LEMMA StackKept ==
    ASSUME NEW v \in Values, NEW s \in Seq(Entry), Marks(v, s)
    PROVE  /\ gsp' \in Seq(Entry)
           /\ \A k \in DOMAIN s : k \in DOMAIN gsp' /\ gsp'[k] = s[k]
           /\ \A k \in DOMAIN gsp' :
                 \/ k \in DOMAIN s /\ gsp'[k] = s[k]
                 \/ gsp'[k] = [blk |-> v, pos |-> 1] /\ v # 0
<1>1. CASE gsp' = s
  BY <1>1
<1>2. CASE gsp' = Append(s, [blk |-> v, pos |-> 1]) /\ v # 0
  <2>1. [blk |-> v, pos |-> 1] \in Entry
    BY <1>2 DEF Entry, Values, Blocks
  <2>2. gsp' \in Seq(Entry)
    BY <1>2, <2>1
  <2>3. /\ Len(gsp') = Len(s) + 1
        /\ \A k \in 1 .. Len(s) : gsp'[k] = s[k]
        /\ gsp'[Len(s) + 1] = [blk |-> v, pos |-> 1]
    BY <1>2, <2>1
  <2>4. DOMAIN s = 1 .. Len(s) /\ DOMAIN gsp' = 1 .. Len(gsp') /\ Len(s) \in Nat
    BY <2>2
  <2> QED BY <1>2, <2>2, <2>3, <2>4
<1> QED BY <1>1, <1>2 DEF Marks

\* The step the mark phase is made of: a field of the value v is looked at,
\* s is the stack without what was looked at.  What was waiting waits still,
\* or it was v; and v is referred to from what is already marked.
LookedAt(v, s) ==
    /\ UNCHANGED <<shape, keptStrings, cut, phase, finalized>>
    /\ v # 0 => v # uniqueStrings
    /\ \A k \in DOMAIN s : s[k].blk \in marked
    /\ cur' \in [blk : Values, pos : Nat \ {0}]
    /\ cur'.blk # 0 => cur'.blk \in marked /\ cur'.pos \in DOMAIN refs[cur'.blk]
    /\ place' \in Nat \ {0}
    /\ \A b \in marked : \A i \in DOMAIN refs[b] :
          Waiting(b, i) => \/ refs[b][i] \in {0, v}
                           \/ \E k \in DOMAIN s : s[k].blk = b /\ s[k].pos <= i
                           \/ cur'.blk = b /\ cur'.pos <= i
                           \/ phase = "rescan" /\ place' <= b
                           \/ overflow
    /\ \A i \in DOMAIN rootList :
          rootList[i] # 0 /\ (phase = "roots" => i < place') => rootList[i] = v \/ rootList[i] \in marked
    /\ \/ v = 0
       \/ \E i \in DOMAIN rootList : rootList[i] = v
       \/ \E b \in marked \ {uniqueStrings} : \E i \in DOMAIN refs[b] : refs[b][i] = v

LEMMA MarkStep ==
    ASSUME GcMarkAssumption, IInv, Marking,
           NEW v \in Values, NEW s \in Seq(Entry), Marks(v, s), LookedAt(v, s)
    PROVE  IInv'
<1> USE DEF IInv
<1>0. /\ UNCHANGED <<shape, keptStrings, cut, phase, finalized>>
      /\ v # 0 => v # uniqueStrings
      /\ \A k \in DOMAIN s : s[k].blk \in marked
      /\ cur' \in [blk : Values, pos : Nat \ {0}]
      /\ cur'.blk # 0 => cur'.blk \in marked /\ cur'.pos \in DOMAIN refs[cur'.blk]
      /\ place' \in Nat \ {0}
  BY DEF LookedAt
<1>1. /\ marked' = marked \cup ({v} \ {0})
      /\ overflow => overflow'
      /\ overflow' \in BOOLEAN
  BY DEF Marks
<1>2. /\ gsp' \in Seq(Entry)
      /\ \A k \in DOMAIN s : k \in DOMAIN gsp' /\ gsp'[k] = s[k]
      /\ \A k \in DOMAIN gsp' :
            \/ k \in DOMAIN s /\ gsp'[k] = s[k]
            \/ gsp'[k] = [blk |-> v, pos |-> 1] /\ v # 0
  BY StackKept
<1>3. /\ mtag' = mtag /\ refs' = refs /\ rootList' = rootList /\ uniqueStrings' = uniqueStrings
      /\ strPos' = strPos /\ phase' = phase /\ keptStrings' = keptStrings
  BY <1>0 DEF shape
<1>4. Typed'
  <2>1. Typed
    OBVIOUS
  <2>2. marked' \subseteq Blocks
    BY <2>1, <1>1 DEF Typed, Values, Blocks
  <2> HIDE DEF IInv
  <2> QED BY <2>1, <2>2, <1>0, <1>1, <1>2, <1>3 DEF Typed
<1>5. Shaped'
  BY <1>0, <1>1, <1>3 DEF Shaped, HasReferences, Marking
<1>6. WaitingMarked'
  <2>1. \A k \in DOMAIN gsp' : gsp'[k].blk \in marked'
    BY <1>0, <1>1, <1>2
  <2> QED BY <1>0, <1>1, <1>3, <2>1 DEF WaitingMarked, Marking
<1>7. Frontier'
  <2> SUFFICES ASSUME NEW b \in marked', NEW i \in DOMAIN refs[b],
                      refs[b][i] # 0, refs[b][i] \notin marked', ~overflow'
               PROVE  Waiting(b, i)'
    BY <1>3 DEF Frontier, Waiting
  <2>0. ~overflow
    BY <1>1
  <2>1. CASE b \in marked
    <3>1. Waiting(b, i) /\ refs[b][i] \notin {0, v}
      BY <2>1, <1>1 DEF Frontier
    <3>2. \/ \E k \in DOMAIN s : s[k].blk = b /\ s[k].pos <= i
          \/ cur'.blk = b /\ cur'.pos <= i
          \/ phase = "rescan" /\ place' <= b
      BY <2>0, <2>1, <3>1 DEF LookedAt
    <3> QED BY <1>2, <1>3, <3>2 DEF Waiting
  <2>2. CASE b \notin marked
    <3>1. b = v /\ v # 0 /\ v \in Blocks
      BY <2>2, <1>1 DEF Values, Blocks
    <3>2. HasReferences(v)
      BY <3>1, refs[b] # <<>> DEF Shaped
    <3>3. gsp' = Append(s, [blk |-> v, pos |-> 1])
      BY <2>2, <3>1, <3>2 DEF Marks
    <3>4. [blk |-> v, pos |-> 1] \in Entry
      BY <3>1 DEF Entry
    <3>5. Len(s) + 1 \in DOMAIN gsp' /\ gsp'[Len(s) + 1] = [blk |-> v, pos |-> 1]
      BY <3>3, <3>4, <1>2
    <3>6. i \in Nat /\ 1 <= i
      BY <3>1 DEF Typed
    <3> QED BY <3>1, <3>5, <3>6 DEF Waiting
  <2> QED BY <2>1, <2>2
<1>8. RootsMarked'
  <2>1. \A i \in DOMAIN rootList :
          rootList[i] # 0 /\ (phase = "roots" => i < place') => rootList[i] = v \/ rootList[i] \in marked
    BY DEF LookedAt
  <2> QED BY <1>1, <1>3, <2>1 DEF RootsMarked
<1>9. Minimal'
  <2> SUFFICES ASSUME NEW C \in SUBSET Blocks, Holds(C)'
               PROVE  marked' \ {uniqueStrings} \subseteq C
    BY <1>3 DEF Minimal
  <2>1. Holds(C)
    BY <1>1, <1>3 DEF Holds
  <2>2. marked \ {uniqueStrings} \subseteq C
    BY <2>1 DEF Minimal
  <2>3. v # 0 => v \in C
    <3>1. \/ v = 0
          \/ \E i \in DOMAIN rootList : rootList[i] = v
          \/ \E b \in marked \ {uniqueStrings} : \E i \in DOMAIN refs[b] : refs[b][i] = v
      BY DEF LookedAt
    <3> QED BY <3>1, <1>1, <1>3, <2>2 DEF Holds
  <2> QED BY <1>1, <2>2, <2>3
<1>10. Complete'
  BY <1>3 DEF Complete, Marking
<1> QED BY <1>4, <1>5, <1>6, <1>7, <1>8, <1>9, <1>10

----------------------------------------------------------------------------

LEMMA NoBlockType ==
    ASSUME GcMarkAssumption
    PROVE  NoBlock \in [blk : Values, pos : Nat \ {0}]
<1>1. 0 \in Values
  BY DEF GcMarkAssumption, Values
<1> QED BY <1>1 DEF NoBlock

LEMMA InitIInv ==
    ASSUME GcMarkAssumption, MarkInit
    PROVE  IInv
<1>1. Typed
  <2>1. refs \in [Blocks -> Seq(Values)]
    <3> SUFFICES ASSUME NEW b \in Blocks PROVE refs[b] \in Seq(Values)
      BY DEF MarkInit
    <3>1. PICK n \in Lengths \cup {0} : refs[b] \in [1 .. n -> Values]
      BY DEF MarkInit, FieldLists
    <3> QED BY <3>1 DEF GcMarkAssumption
  <2>2. /\ mtag \in [Blocks -> Kinds] /\ rootList \in Seq(Values)
        /\ uniqueStrings \in Values /\ strPos \in Values
    <3>1. mtag \in [Blocks -> Kinds] /\ rootList \in Seq(Values) /\ uniqueStrings \in Values
      BY DEF MarkInit, GcMarkAssumption
    <3>2. strPos = 0 \/ strPos \in Blocks
      BY DEF MarkInit
    <3> QED BY <3>1, <3>2 DEF GcMarkAssumption, Values, Blocks
  <2>3. /\ cur \in [blk : Values, pos : Nat \ {0}] /\ gsp \in Seq(Entry)
        /\ keptStrings \in Seq(Values)
    <3>1. cur = NoBlock /\ gsp = <<>> /\ keptStrings = <<>>
      BY DEF MarkInit
    <3>2. NoBlock \in [blk : Values, pos : Nat \ {0}]
      BY NoBlockType
    <3> QED BY <3>1, <3>2
  <2>4. /\ marked \subseteq Blocks /\ overflow \in BOOLEAN /\ place \in Nat \ {0}
        /\ phase \in {"roots", "rescan", "weak", "sweep", "swept"}
    <3>1. marked = {} /\ overflow = FALSE /\ place = 1 /\ phase = "roots"
      BY DEF MarkInit
    <3>2. overflow \in BOOLEAN
      BY <3>1
    <3>3. place \in Nat \ {0}
      BY <3>1
    <3> QED BY <3>1, <3>2, <3>3
  <2> QED BY <2>1, <2>2, <2>3, <2>4 DEF Typed
<1>2. Shaped
  <2>1. \A b \in Blocks : ~HasReferences(b) => refs[b] = <<>>
    BY <1>1 DEF MarkInit, WellFormed, HasReferences, Typed, Kinds
  <2>2. \A b \in Blocks : \A i \in DOMAIN refs[b] : refs[b][i] # 0 => refs[b][i] # uniqueStrings
    BY DEF MarkInit, WellFormed
  <2>3. \A i \in DOMAIN rootList : rootList[i] # 0 => rootList[i] # uniqueStrings
    BY DEF MarkInit, WellFormed
  <2> QED BY <2>1, <2>2, <2>3 DEF MarkInit, Shaped
<1>3. WaitingMarked
  BY DEF MarkInit, WaitingMarked, NoBlock, Marking
<1>4. Frontier /\ Minimal /\ Complete
  BY DEF MarkInit, Frontier, Minimal, Complete, Marking
<1>5. RootsMarked
  <2> SUFFICES ASSUME NEW i \in DOMAIN rootList PROVE ~(i < place)
    BY DEF RootsMarked, MarkInit
  <2> QED BY <1>1 DEF MarkInit, Typed
<1> QED BY <1>1, <1>2, <1>3, <1>4, <1>5 DEF IInv

\* The stack without its top.
LEMMA PoppedIs ==
    ASSUME Typed, gsp # <<>>
    PROVE  /\ Len(gsp) \in Nat \ {0} /\ DOMAIN gsp = 1 .. Len(gsp)
           /\ MarkTop \in Entry
           /\ MarkPopped \in Seq(Entry)
           /\ DOMAIN MarkPopped = 1 .. (Len(gsp) - 1)
           /\ Len(MarkPopped) = Len(gsp) - 1
           /\ \A k \in DOMAIN MarkPopped : k \in DOMAIN gsp /\ MarkPopped[k] = gsp[k]
           /\ \A k \in DOMAIN gsp : k \in DOMAIN MarkPopped \/ gsp[k] = MarkTop
<1>1. gsp \in Seq(Entry)
  BY DEF Typed
<1>2. Len(gsp) \in Nat \ {0} /\ DOMAIN gsp = 1 .. Len(gsp)
  BY <1>1
<1>3. MarkPopped \in Seq(Entry) /\ Len(MarkPopped) = Len(gsp) - 1
  BY <1>1, <1>2 DEF MarkPopped
<1>4. \A k \in 1 .. (Len(gsp) - 1) : MarkPopped[k] = gsp[k]
  BY <1>1, <1>2 DEF MarkPopped
<1>5. MarkTop \in Entry
  BY <1>1, <1>2 DEF MarkTop
<1> QED BY <1>2, <1>3, <1>4, <1>5 DEF MarkTop

LEMMA MarkRootIInv ==
    ASSUME GcMarkAssumption, IInv, MarkRoot
    PROVE  IInv'
<1> DEFINE v == rootList[place]
<1>0. Typed /\ place \in DOMAIN rootList /\ v \in Values
  BY DEF IInv, Typed, MarkRoot
<1>1. Marks(v, gsp)
  BY <1>0, GcMarkMarks DEF MarkRoot, Typed
<1>2. gsp = <<>> /\ cur.blk = 0 /\ phase = "roots" /\ cur' = cur /\ place' = place + 1
  BY DEF MarkRoot, Flushed
<1>3. v # 0 => v # uniqueStrings
  BY <1>0, <1>2 DEF IInv, Shaped, Marking
<1>4. \A i \in DOMAIN rootList :
        rootList[i] # 0 /\ (phase = "roots" => i < place') => rootList[i] = v \/ rootList[i] \in marked
  BY <1>0, <1>2 DEF IInv, RootsMarked, Typed
<1>5. \A b \in marked : \A i \in DOMAIN refs[b] :
        Waiting(b, i) => overflow
  BY <1>0, <1>2 DEF Waiting, Typed, Blocks
<1>6. UNCHANGED <<shape, keptStrings, cut, phase, finalized>>
  BY DEF MarkRoot
<1>7. /\ cur' \in [blk : Values, pos : Nat \ {0}] /\ cur'.blk = 0
      /\ place' \in Nat \ {0} /\ gsp \in Seq(Entry) /\ Marking
  BY <1>0, <1>2 DEF Typed, Marking
<1>8. \E i \in DOMAIN rootList : rootList[i] = v
  BY <1>0
<1>9. \A k \in DOMAIN gsp : gsp[k].blk \in marked
  BY <1>2
<1> HIDE DEF v
<1>10. LookedAt(v, gsp)
  BY <1>3, <1>4, <1>5, <1>6, <1>7, <1>8, <1>9 DEF LookedAt
<1> QED BY <1>0, <1>1, <1>7, <1>10, MarkStep

LEMMA PopObjectIInv ==
    ASSUME GcMarkAssumption, IInv, PopObject
    PROVE  IInv'
<1> USE DEF IInv
<1>1. /\ MarkTop \in Entry /\ MarkPopped \in Seq(Entry)
      /\ \A k \in DOMAIN MarkPopped : k \in DOMAIN gsp /\ MarkPopped[k] = gsp[k]
      /\ \A k \in DOMAIN gsp : k \in DOMAIN MarkPopped \/ gsp[k] = MarkTop
  BY PoppedIs DEF PopObject
<1>2. /\ gsp' = MarkPopped /\ cur.blk = 0
      /\ cur' = IF refs[MarkTop.blk] = <<>> THEN NoBlock ELSE [blk |-> MarkTop.blk, pos |-> 1]
      /\ mtag' = mtag /\ refs' = refs /\ rootList' = rootList /\ uniqueStrings' = uniqueStrings /\ strPos' = strPos
      /\ marked' = marked /\ overflow' = overflow /\ place' = place /\ phase' = phase /\ keptStrings' = keptStrings
  BY DEF PopObject, shape
<1>3. Typed'
  <2>1. cur' \in [blk : Values, pos : Nat \ {0}]
    BY <1>1, <1>2, NoBlockType DEF Entry, Values, Blocks
  <2>2. Typed
    OBVIOUS
  <2> QED BY <1>1, <1>2, <2>1, <2>2 DEF Typed
<1>4. Shaped' /\ RootsMarked' /\ Complete'
  BY <1>2 DEF Shaped, HasReferences, RootsMarked, Complete, Marking
<1>5. Marking /\ MarkTop.blk \in marked
  BY <1>1, PoppedIs DEF PopObject, WaitingMarked, MarkTop
<1>6. WaitingMarked'
  <2>1. refs[MarkTop.blk] # <<>> => 1 \in DOMAIN refs[MarkTop.blk]
    BY <1>1 DEF Typed, Entry
  <2> QED BY <1>1, <1>2, <1>5, <2>1 DEF WaitingMarked, Marking, NoBlock
<1>7. Minimal'
  BY <1>2 DEF Minimal, Holds
<1>8. Frontier'
  <2> SUFFICES ASSUME NEW b \in marked, NEW i \in DOMAIN refs[b], Waiting(b, i)
               PROVE  Waiting(b, i)'
    BY <1>2 DEF Frontier
  <2>1. i \in Nat /\ 1 <= i /\ refs[b] # <<>> /\ b \in Blocks
    BY DEF Typed
  <2>2. CASE \E k \in DOMAIN gsp : gsp[k].blk = b /\ gsp[k].pos <= i
    BY <1>1, <1>2, <2>1, <2>2 DEF Waiting
  <2>3. CASE ~\E k \in DOMAIN gsp : gsp[k].blk = b /\ gsp[k].pos <= i
    BY <1>2, <2>1, <2>3 DEF Waiting, Blocks
  <2> QED BY <2>2, <2>3
<1> QED BY <1>3, <1>4, <1>6, <1>7, <1>8

LEMMA MarkFieldIInv ==
    ASSUME GcMarkAssumption, IInv, MarkField
    PROVE  IInv'
<1> DEFINE v == refs[cur.blk][cur.pos]
<1>0. /\ Typed /\ cur.blk \in marked /\ cur.blk \in Blocks /\ Marking
      /\ cur.blk # 0 /\ cur.pos \in DOMAIN refs[cur.blk] /\ v \in Values
  BY DEF IInv, Typed, MarkField, WaitingMarked, Marking
<1>1. Marks(v, gsp)
  BY <1>0, GcMarkMarks DEF MarkField, Typed
<1>2. /\ cur' = IF cur.pos < Len(refs[cur.blk])
                THEN [blk |-> cur.blk, pos |-> cur.pos + 1] ELSE NoBlock
      /\ place' = place
  BY DEF MarkField
<1>3. v # 0 => v # uniqueStrings
  BY <1>0 DEF IInv, Shaped
<1>4. \A i \in DOMAIN rootList :
        rootList[i] # 0 /\ (phase = "roots" => i < place') => rootList[i] = v \/ rootList[i] \in marked
  BY <1>2 DEF IInv, RootsMarked
<1>5. \A b \in marked : \A i \in DOMAIN refs[b] :
        Waiting(b, i) => \/ refs[b][i] \in {0, v}
                         \/ \E k \in DOMAIN gsp : gsp[k].blk = b /\ gsp[k].pos <= i
                         \/ cur'.blk = b /\ cur'.pos <= i
                         \/ phase = "rescan" /\ place' <= b
                         \/ overflow
  <2> SUFFICES ASSUME NEW b \in marked, NEW i \in DOMAIN refs[b],
                      cur.blk = b, cur.pos <= i, i # cur.pos
               PROVE  cur'.blk = b /\ cur'.pos <= i
    BY <1>2 DEF Waiting
  <2>1. i \in 1 .. Len(refs[b]) /\ Len(refs[b]) \in Nat /\ cur.pos \in Nat
    BY <1>0 DEF Typed
  <2>2. cur' = [blk |-> cur.blk, pos |-> cur.pos + 1]
    BY <1>0, <1>2, <2>1 DEF Typed
  <2> QED BY <2>1, <2>2
<1>6. UNCHANGED <<shape, keptStrings, cut, phase, finalized>>
  BY DEF MarkField
<1>7. /\ cur' \in [blk : Values, pos : Nat \ {0}]
      /\ cur'.blk # 0 => cur'.blk \in marked /\ cur'.pos \in DOMAIN refs[cur'.blk]
      /\ place' \in Nat \ {0} /\ gsp \in Seq(Entry)
      /\ \A k \in DOMAIN gsp : gsp[k].blk \in marked
  <2>1. cur' \in [blk : Values, pos : Nat \ {0}]
    BY <1>0, <1>2, NoBlockType DEF Typed
  <2>2. cur'.blk # 0 => cur'.blk = cur.blk /\ cur'.pos = cur.pos + 1 /\ cur.pos < Len(refs[cur.blk])
    BY <1>0, <1>2 DEF NoBlock, Typed
  <2>3. refs[cur.blk] \in Seq(Values) /\ cur.pos \in Nat
    BY <1>0 DEF Typed
  <2>4. cur'.blk # 0 => cur'.pos \in DOMAIN refs[cur'.blk]
    BY <2>2, <2>3
  <2> QED BY <1>0, <1>2, <2>1, <2>2, <2>4 DEF IInv, Typed, WaitingMarked
<1>8. cur.blk # uniqueStrings
  BY <1>0 DEF IInv, Shaped
<1>9. \E b \in marked \ {uniqueStrings} : \E i \in DOMAIN refs[b] : refs[b][i] = v
  BY <1>0, <1>8
<1> HIDE DEF v
<1>10. LookedAt(v, gsp)
  BY <1>3, <1>4, <1>5, <1>6, <1>7, <1>9 DEF LookedAt
<1> QED BY <1>0, <1>1, <1>7, <1>10, MarkStep

LEMMA PopArrayIInv ==
    ASSUME GcMarkAssumption, IInv, PopArray
    PROVE  IInv'
<1>0. /\ Typed /\ gsp # <<>> /\ cur.blk = 0
      /\ UNCHANGED <<shape, cur, place, keptStrings, cut, phase, finalized>>
  BY DEF PopArray, IInv
<1>1. /\ MarkTop \in Entry /\ MarkPopped \in Seq(Entry)
      /\ \A k \in DOMAIN MarkPopped : k \in DOMAIN gsp /\ MarkPopped[k] = gsp[k]
      /\ \A k \in DOMAIN gsp : k \in DOMAIN MarkPopped \/ gsp[k] = MarkTop
      /\ Len(MarkPopped) \in Nat
  BY <1>0, PoppedIs
<1>2. Marking /\ MarkTop.blk \in marked /\ MarkTop.blk \in Blocks /\ MarkTop.blk # uniqueStrings
  <2>1. Marking /\ MarkTop.blk \in marked
    BY <1>0, PoppedIs DEF IInv, WaitingMarked, MarkTop
  <2> QED BY <2>1, <1>1 DEF IInv, Shaped, Entry
<1>3. refs[MarkTop.blk] \in Seq(Values) /\ MarkTop.pos \in Nat \ {0}
  BY <1>0, <1>1, <1>2 DEF Typed, Entry
<1>4. \A k \in DOMAIN MarkPopped : MarkPopped[k].blk \in marked
  BY <1>1 DEF IInv, WaitingMarked
<1>5. CASE Pending(MarkTop) = {} /\ gsp' = MarkPopped /\ UNCHANGED <<marked, overflow>>
  <2> DEFINE v == 0
  <2>1. v \in Values /\ Marks(v, MarkPopped)
    BY <1>0, <1>5 DEF Marks, GcMarkAssumption, Values, Typed
  <2>2. LookedAt(v, MarkPopped)
    <3>1. \A b \in marked : \A i \in DOMAIN refs[b] :
            Waiting(b, i) => \/ refs[b][i] = 0
                             \/ \E k \in DOMAIN MarkPopped : MarkPopped[k].blk = b /\ MarkPopped[k].pos <= i
                             \/ phase = "rescan" /\ place <= b
                             \/ overflow
      <4> SUFFICES ASSUME NEW b \in marked, NEW i \in DOMAIN refs[b],
                          MarkTop.blk = b, MarkTop.pos <= i, refs[b][i] # 0
                   PROVE  FALSE
        <5> SUFFICES ASSUME NEW b \in marked, NEW i \in DOMAIN refs[b], Waiting(b, i)
                     PROVE  \/ MarkTop.blk = b /\ MarkTop.pos <= i
                            \/ \E k \in DOMAIN MarkPopped : MarkPopped[k].blk = b /\ MarkPopped[k].pos <= i
                            \/ phase = "rescan" /\ place <= b
                            \/ overflow
          OBVIOUS
        <5>1. b # 0
          BY <1>0 DEF Typed, Blocks
        <5>2. CASE \E k \in DOMAIN gsp : gsp[k].blk = b /\ gsp[k].pos <= i
          BY <1>1, <5>2
        <5>3. CASE ~\E k \in DOMAIN gsp : gsp[k].blk = b /\ gsp[k].pos <= i
          BY <1>0, <5>1, <5>3 DEF Waiting
        <5> QED BY <5>2, <5>3
      <4>1. i \in MarkTop.pos .. Len(refs[MarkTop.blk])
        BY <1>3
      <4> QED BY <4>1, <1>5 DEF Pending
    <3> QED BY <3>1, <1>0, <1>4 DEF LookedAt, IInv, Typed, RootsMarked
  <2> HIDE DEF v
  <2> QED BY <2>1, <2>2, <1>1, <1>2, MarkStep
<1>6. ASSUME NEW i \in Pending(MarkTop), \A j \in Pending(MarkTop) : i <= j,
             IF i < Len(refs[MarkTop.blk])
             THEN gc_mark(refs[MarkTop.blk][i], Append(MarkPopped, Remaining(i)), room)
             ELSE gc_mark(refs[MarkTop.blk][i], MarkPopped, room + 2)
      PROVE  IInv'
  <2> DEFINE v == refs[MarkTop.blk][i]
             s == IF i < Len(refs[MarkTop.blk]) THEN Append(MarkPopped, Remaining(i)) ELSE MarkPopped
  <2>1. /\ i \in DOMAIN refs[MarkTop.blk] /\ i \in Nat \ {0} /\ v \in Values
        /\ MarkTop.pos <= i
    BY <1>3, <1>6 DEF Pending
  <2>2. Remaining(i) \in Entry /\ Remaining(i).blk = MarkTop.blk /\ Remaining(i).pos = i + 1
    BY <2>1, <1>2 DEF Remaining, Entry
  <2>3. s \in Seq(Entry)
    BY <1>1, <2>2
  <2>4. Marks(v, s)
    BY <1>0, <1>6, GcMarkMarks DEF Typed
  <2>5. /\ \A k \in DOMAIN MarkPopped : k \in DOMAIN s /\ s[k] = MarkPopped[k]
        /\ \A k \in DOMAIN s : (k \in DOMAIN MarkPopped /\ s[k] = MarkPopped[k]) \/ s[k] = Remaining(i)
        /\ i < Len(refs[MarkTop.blk]) => \E k \in DOMAIN s : s[k] = Remaining(i)
    <3>1. CASE i < Len(refs[MarkTop.blk])
      <4>1. s = Append(MarkPopped, Remaining(i))
        BY <3>1
      <4>2. /\ Len(s) = Len(MarkPopped) + 1
            /\ \A k \in 1 .. Len(MarkPopped) : s[k] = MarkPopped[k]
            /\ s[Len(MarkPopped) + 1] = Remaining(i)
        BY <4>1, <1>1, <2>2
      <4>3. DOMAIN s = 1 .. (Len(MarkPopped) + 1) /\ DOMAIN MarkPopped = 1 .. Len(MarkPopped)
        BY <4>2, <2>3, <1>1
      <4>4. Len(MarkPopped) + 1 \in DOMAIN s
        BY <4>3, <1>1
      <4> HIDE DEF s
      <4> QED BY <4>2, <4>3, <4>4, <1>1
    <3>2. CASE ~(i < Len(refs[MarkTop.blk]))
      BY <3>2
    <3> QED BY <3>1, <3>2
  <2> HIDE DEF s
  <2>6. \A k \in DOMAIN s : s[k].blk \in marked
    BY <2>5, <2>2, <1>2, <1>4
  <2>7. \A b \in marked : \A j \in DOMAIN refs[b] :
          Waiting(b, j) => \/ refs[b][j] \in {0, v}
                           \/ \E k \in DOMAIN s : s[k].blk = b /\ s[k].pos <= j
                           \/ phase = "rescan" /\ place <= b
                           \/ overflow
    <3> SUFFICES ASSUME NEW b \in marked, NEW j \in DOMAIN refs[b],
                        MarkTop.blk = b, MarkTop.pos <= j, refs[b][j] # 0, refs[b][j] # v
                 PROVE  \E k \in DOMAIN s : s[k].blk = b /\ s[k].pos <= j
      <4> SUFFICES ASSUME NEW b \in marked, NEW j \in DOMAIN refs[b], Waiting(b, j)
                   PROVE  \/ MarkTop.blk = b /\ MarkTop.pos <= j
                          \/ \E k \in DOMAIN s : s[k].blk = b /\ s[k].pos <= j
                          \/ phase = "rescan" /\ place <= b
                          \/ overflow
        OBVIOUS
      <4>1. b # 0
        BY <1>0 DEF Typed, Blocks
      <4>2. CASE \E k \in DOMAIN gsp : gsp[k].blk = b /\ gsp[k].pos <= j
        BY <1>1, <2>5, <4>2
      <4>3. CASE ~\E k \in DOMAIN gsp : gsp[k].blk = b /\ gsp[k].pos <= j
        BY <1>0, <4>1, <4>3 DEF Waiting
      <4> QED BY <4>2, <4>3
    <3>1. j \in MarkTop.pos .. Len(refs[MarkTop.blk])
      BY <1>3
    <3>2. j \in Pending(MarkTop)
      BY <3>1 DEF Pending
    <3>3. i <= j /\ i # j
      BY <3>2, <1>6
    <3>4. i < Len(refs[MarkTop.blk]) /\ i + 1 <= j
      BY <3>1, <3>3, <2>1, <1>3
    <3> QED BY <3>4, <2>5, <2>2
  <2>8. v # 0 => v # uniqueStrings
    BY <1>2, <2>1 DEF IInv, Shaped
  <2>9. \E b \in marked \ {uniqueStrings} : \E j \in DOMAIN refs[b] : refs[b][j] = v
    BY <1>2, <2>1
  <2> HIDE DEF v
  <2>10. LookedAt(v, s)
    <3>1. /\ cur' \in [blk : Values, pos : Nat \ {0}] /\ cur'.blk = 0
          /\ place' = place /\ place \in Nat \ {0}
      BY <1>0 DEF Typed
    <3>2. \A j \in DOMAIN rootList :
            rootList[j] # 0 /\ (phase = "roots" => j < place') => rootList[j] = v \/ rootList[j] \in marked
      BY <3>1 DEF IInv, RootsMarked
    <3> QED BY <2>6, <2>7, <2>8, <2>9, <1>0, <3>1, <3>2 DEF LookedAt
  <2> QED BY <2>1, <2>3, <2>4, <2>10, <1>2, MarkStep
<1> QED BY <1>5, <1>6 DEF PopArray

\* The stack is empty and no object is being scanned: if the flag is down
\* and the walk is over, no field is waiting.
LEMMA NothingWaits ==
    ASSUME Typed, Flushed, phase = "rescan" => place > N, ~overflow, GcMarkAssumption
    PROVE  \A b \in marked : \A i \in DOMAIN refs[b] : ~Waiting(b, i)
<1> SUFFICES ASSUME NEW b \in marked, NEW i \in DOMAIN refs[b]
             PROVE  ~Waiting(b, i)
  OBVIOUS
<1>1. b \in 1 .. N /\ place \in Nat /\ N \in Nat
  BY DEF Typed, Blocks, GcMarkAssumption
<1>2. gsp = <<>> /\ cur.blk = 0
  BY DEF Flushed
<1> QED BY <1>1, <1>2 DEF Waiting

LEMMA PassEndsIInv ==
    ASSUME GcMarkAssumption, IInv, PassEnds
    PROVE  IInv'
<1>1. /\ mtag' = mtag /\ refs' = refs /\ rootList' = rootList /\ uniqueStrings' = uniqueStrings
      /\ strPos' = strPos /\ marked' = marked /\ gsp' = gsp /\ cur' = cur /\ keptStrings' = keptStrings
      /\ overflow' = FALSE
      /\ gsp = <<>> /\ cur.blk = 0 /\ Marking
  BY DEF PassEnds, shape, Flushed, Marking
<1>2. \/ overflow /\ phase' = "rescan" /\ place' = 1
      \/ ~overflow /\ phase' = "weak" /\ place' = 1
  BY DEF PassEnds
<1>3. Typed'
  <2>1. Typed
    BY DEF IInv
  <2>2. place' \in Nat \ {0} /\ phase' \in {"roots", "rescan", "weak", "sweep", "swept"}
    BY <2>1, <1>2 DEF Typed
  <2>3. overflow' \in BOOLEAN
    BY <1>1
  <2> QED BY <2>1, <2>2, <2>3, <1>1 DEF Typed
<1>4. Shaped' /\ WaitingMarked' /\ Complete' /\ Minimal'
  <2>1. Shaped'
    BY <1>1, <1>2 DEF IInv, Shaped, HasReferences, Marking
  <2>2. WaitingMarked' /\ Complete'
    BY <1>1 DEF IInv, WaitingMarked, Complete
  <2>3. Minimal'
    BY <1>1 DEF IInv, Minimal, Holds
  <2> QED BY <2>1, <2>2, <2>3
<1>5. RootsMarked'
  <2>1. phase = "roots" => place > Len(rootList)
    BY DEF PassEnds
  <2>2. \A i \in DOMAIN rootList : i \in 1 .. Len(rootList) /\ Len(rootList) \in Nat /\ place \in Nat
    BY DEF IInv, Typed
  <2> QED BY <2>1, <2>2, <1>1 DEF IInv, RootsMarked
<1>6. Frontier'
  <2>1. CASE overflow
    <3> SUFFICES ASSUME NEW b \in marked, NEW i \in DOMAIN refs[b]
                 PROVE  Waiting(b, i)'
      BY <1>1 DEF Frontier
    <3>1. b \in 1 .. N
      BY DEF IInv, Typed, Blocks
    <3> QED BY <2>1, <1>2, <3>1 DEF Waiting, GcMarkAssumption
  <2>2. CASE ~overflow
    <3>1. phase = "rescan" => place > N
      BY DEF PassEnds
    <3>2. \A b \in marked : \A i \in DOMAIN refs[b] : ~Waiting(b, i)
      BY <2>2, <3>1, NothingWaits DEF IInv, PassEnds
    <3> QED BY <3>2, <1>1 DEF IInv, Frontier
  <2> QED BY <2>1, <2>2
<1> QED BY <1>3, <1>4, <1>5, <1>6 DEF IInv

LEMMA RescanIInv ==
    ASSUME GcMarkAssumption, IInv, Rescan
    PROVE  IInv'
<1>1. /\ mtag' = mtag /\ refs' = refs /\ rootList' = rootList /\ uniqueStrings' = uniqueStrings
      /\ strPos' = strPos /\ marked' = marked /\ cur' = cur /\ phase' = phase /\ keptStrings' = keptStrings
      /\ overflow' = overflow /\ place' = place + 1
      /\ gsp = <<>> /\ cur.blk = 0 /\ phase = "rescan" /\ place <= N
  BY DEF Rescan, shape, Flushed
<1>2. \/ /\ place \in marked /\ HasReferences(place)
         /\ gsp' = Append(gsp, [blk |-> place, pos |-> 1])
      \/ ~(place \in marked /\ HasReferences(place)) /\ gsp' = gsp
  BY DEF Rescan
<1>3. place \in Blocks /\ place \in Nat \ {0} /\ [blk |-> place, pos |-> 1] \in Entry
  BY <1>1 DEF IInv, Typed, Blocks, Entry, GcMarkAssumption
<1>4. /\ gsp' \in Seq(Entry)
      /\ \A k \in DOMAIN gsp' : gsp'[k].blk \in marked
      /\ place \in marked /\ HasReferences(place) =>
            1 \in DOMAIN gsp' /\ gsp'[1] = [blk |-> place, pos |-> 1]
  <2>1. CASE place \in marked /\ HasReferences(place)
    <3>1. gsp' = <<[blk |-> place, pos |-> 1]>>
      BY <1>1, <1>2, <2>1
    <3> QED BY <3>1, <1>3, <2>1
  <2>2. CASE ~(place \in marked /\ HasReferences(place))
    <3>1. gsp' = <<>>
      BY <1>1, <1>2, <2>2
    <3> QED BY <3>1, <2>2
  <2> QED BY <2>1, <2>2
<1>5. Typed'
  <2>1. Typed /\ place' \in Nat \ {0}
    BY <1>1, <1>3 DEF IInv
  <2> QED BY <2>1, <1>1, <1>4 DEF Typed
<1>6. Shaped' /\ Complete' /\ Minimal' /\ RootsMarked'
  <2>1. Shaped' /\ Complete'
    BY <1>1 DEF IInv, Shaped, HasReferences, Marking, Complete
  <2>2. Minimal'
    BY <1>1 DEF IInv, Minimal, Holds
  <2>3. RootsMarked'
    BY <1>1 DEF IInv, RootsMarked
  <2> QED BY <2>1, <2>2, <2>3
<1>7. WaitingMarked'
  BY <1>1, <1>4 DEF WaitingMarked, Marking
<1>8. Frontier'
  <2> SUFFICES ASSUME NEW b \in marked, NEW i \in DOMAIN refs[b], refs[b][i] # 0,
                      refs[b][i] \notin marked
               PROVE  Waiting(b, i)'
    BY <1>1 DEF Frontier
  <2>1. Waiting(b, i)
    BY DEF IInv, Frontier
  <2>2. b \in 1 .. N /\ i \in Nat /\ 1 <= i /\ refs[b] # <<>>
    BY DEF IInv, Typed, Blocks
  <2>3. CASE overflow
    BY <2>3, <1>1 DEF Waiting
  <2>4. CASE ~overflow /\ b = place
    <3>1. HasReferences(b)
      BY <2>2, <1>1 DEF IInv, Shaped, Blocks, Marking
    <3> QED BY <3>1, <2>2, <2>4, <1>4 DEF Waiting
  <2>5. CASE ~overflow /\ b # place
    <3>1. place <= b
      BY <2>1, <2>2, <2>5, <1>1 DEF Waiting
    <3> QED BY <3>1, <2>2, <2>5, <1>1, <1>3 DEF Waiting
  <2> QED BY <2>3, <2>4, <2>5
<1> QED BY <1>5, <1>6, <1>7, <1>8 DEF IInv

LEMMA KeepStringIInv ==
    ASSUME GcMarkAssumption, IInv, KeepString
    PROVE  IInv'
<1> DEFINE v == refs[uniqueStrings][place]
<1>1. /\ mtag' = mtag /\ refs' = refs /\ rootList' = rootList /\ uniqueStrings' = uniqueStrings
      /\ strPos' = strPos /\ marked' = marked /\ gsp' = gsp /\ cur' = cur
      /\ overflow' = overflow /\ phase' = phase /\ phase = "weak" /\ place' = place + 1
      /\ uniqueStrings # 0 /\ place <= Len(refs[uniqueStrings])
  BY DEF KeepString, shape, mark
<1>2. uniqueStrings \in Blocks /\ place \in Nat \ {0} /\ keptStrings \in Seq(Values)
  BY <1>1 DEF IInv, Typed, Values, Blocks
<1>3. refs[uniqueStrings] \in Seq(Values)
  BY <1>2 DEF IInv, Typed
<1>4. v \in Values
  BY <1>1, <1>2, <1>3
<1>5. /\ keptStrings' \in Seq(Values)
      /\ \A i \in DOMAIN keptStrings' : keptStrings'[i] \in marked
  <2>1. \A i \in DOMAIN keptStrings : keptStrings[i] \in marked
    BY <1>1 DEF IInv, Shaped
  <2>2. CASE Survives(v)
    <3>1. keptStrings' = Append(keptStrings, v) /\ v \in marked
      BY <2>2 DEF KeepString, Survives
    <3> HIDE DEF v
    <3> QED BY <3>1, <2>1, <1>2, <1>4
  <2>3. CASE ~Survives(v)
    BY <2>1, <2>3, <1>2 DEF KeepString
  <2> QED BY <2>2, <2>3
<1>6. Typed'
  <2>1. Typed /\ place' \in Nat \ {0}
    BY <1>1, <1>2 DEF IInv
  <2> QED BY <2>1, <1>1, <1>5 DEF Typed
<1>7. Shaped'
  BY <1>1, <1>5 DEF IInv, Shaped, HasReferences
<1>8. WaitingMarked' /\ Complete' /\ RootsMarked'
  BY <1>1 DEF IInv, WaitingMarked, Complete, RootsMarked, Marking
<1>9. Minimal'
  BY <1>1 DEF IInv, Minimal, Holds
<1>10. Frontier'
  BY <1>1 DEF IInv, Frontier, Waiting
<1> QED BY <1>6, <1>7, <1>8, <1>9, <1>10 DEF IInv

\* When marking is over, what a marked block refers to is marked.
LEMMA MarkedIsClosed ==
    ASSUME GcMarkAssumption, IInv, ~Marking
    PROVE  /\ \A b \in marked : \A i \in DOMAIN refs[b] :
                 refs[b][i] # 0 => refs[b][i] \in marked
           /\ \A i \in DOMAIN rootList : rootList[i] # 0 => rootList[i] \in marked
<1>1. Typed /\ Flushed /\ ~overflow /\ phase # "rescan"
  BY DEF IInv, WaitingMarked, Flushed, Complete, Marking
<1>2. \A b \in marked : \A i \in DOMAIN refs[b] : ~Waiting(b, i)
  BY <1>1, NothingWaits
<1>3. phase # "roots"
  BY DEF Marking
<1> QED BY <1>2, <1>3 DEF IInv, Frontier, RootsMarked

LEMMA WeakReferencesIInv ==
    ASSUME GcMarkAssumption, IInv, WeakReferences
    PROVE  IInv'
<1>1. /\ mtag' = mtag /\ rootList' = rootList /\ gsp' = gsp /\ cur' = cur
      /\ overflow' = overflow /\ phase = "weak" /\ phase' = "sweep" /\ place' = place
      /\ keptStrings' = keptStrings
  BY DEF WeakReferences
<1>2. Typed /\ ~Marking /\ ~Marking'
  BY <1>1 DEF IInv, Marking
<1>3. /\ uniqueStrings \notin marked /\ \A i \in DOMAIN keptStrings : keptStrings[i] \in marked
  BY <1>1 DEF IInv, Shaped
<1>4. strPos' \in Values
  <2>1. strPos' = strPos \/ strPos' = 0
    BY DEF WeakReferences, ClearedPos
  <2> QED BY <2>1, <1>2 DEF Typed, Values, GcMarkAssumption
<1>5. /\ \A b \in marked : \A i \in DOMAIN refs[b] :
            refs[b][i] # 0 => refs[b][i] \in marked
      /\ \A i \in DOMAIN rootList : rootList[i] # 0 => rootList[i] \in marked
  BY <1>2, MarkedIsClosed
<1>6. Shaped' /\ WaitingMarked' /\ Complete'
  BY <1>1, <1>2 DEF IInv, Shaped, WaitingMarked, Complete, Marking
<1>7. CASE keptStrings = <<>>
  <2>1. uniqueStrings' = 0 /\ refs' = refs /\ marked' = marked
    BY <1>7 DEF WeakReferences
  <2>2. Typed'
    <3>1. 0 \in Values
      BY DEF Values, GcMarkAssumption
    <3> QED BY <3>1, <2>1, <1>1, <1>2, <1>4 DEF Typed
  <2>3. Frontier' /\ RootsMarked'
    BY <2>1, <1>1, <1>5 DEF Frontier, RootsMarked
  <2>4. Minimal'
    <3>1. marked \ {uniqueStrings} = marked /\ marked \ {0} = marked
      BY <1>2, <1>3 DEF Typed, Blocks
    <3>2. \A C : Holds(C)' => Holds(C)
      BY <3>1, <2>1, <1>1 DEF Holds
    <3> QED BY <3>1, <3>2, <2>1 DEF IInv, Minimal
  <2> QED BY <2>2, <2>3, <2>4, <1>6 DEF IInv
<1>8. CASE keptStrings # <<>>
  <2>1. uniqueStrings' = uniqueStrings /\ refs' = [refs EXCEPT ![uniqueStrings] = keptStrings] /\ marked' = marked \cup {uniqueStrings}
    BY <1>8 DEF WeakReferences
  <2>2. uniqueStrings \in Blocks
    <3>1. uniqueStrings # 0
      BY <1>1, <1>8 DEF IInv, Shaped
    <3> QED BY <3>1, <1>2 DEF Typed, Values, Blocks
  <2>3. /\ refs' \in [Blocks -> Seq(Values)]
        /\ refs'[uniqueStrings] = keptStrings
        /\ \A b \in marked : refs'[b] = refs[b]
    BY <2>1, <2>2, <1>2, <1>3 DEF Typed
  <2>4. Typed'
    BY <2>1, <2>2, <2>3, <1>1, <1>2, <1>4 DEF Typed
  <2>5. Frontier' /\ RootsMarked'
    <3>1. \A b \in marked' : \A i \in DOMAIN refs'[b] :
            refs'[b][i] # 0 => refs'[b][i] \in marked'
      BY <2>1, <2>3, <1>3, <1>5
    <3> QED BY <3>1, <2>1, <1>1, <1>5 DEF Frontier, RootsMarked
  <2>6. Minimal'
    <3>1. marked' \ {uniqueStrings} = marked \ {uniqueStrings}
      BY <2>1
    <3>2. \A C : Holds(C)' => Holds(C)
      BY <2>1, <2>3, <1>1 DEF Holds
    <3> QED BY <3>1, <3>2, <2>1 DEF IInv, Minimal
  <2> QED BY <2>4, <2>5, <2>6, <1>6 DEF IInv
<1> QED BY <1>7, <1>8

LEMMA SweepIInv ==
    ASSUME GcMarkAssumption, IInv, Sweep
    PROVE  IInv'
<1>1. /\ rootList' = rootList /\ uniqueStrings' = uniqueStrings /\ strPos' = strPos /\ marked' = marked
      /\ gsp' = gsp /\ cur' = cur /\ overflow' = overflow /\ place' = place
      /\ keptStrings' = keptStrings /\ phase = "sweep" /\ phase' = "swept"
  BY DEF Sweep, mark
<1>2. Typed /\ ~Marking /\ ~Marking'
  BY <1>1 DEF IInv, Marking
<1>3. /\ mtag' \in [Blocks -> Kinds] /\ refs' \in [Blocks -> Seq(Values)]
      /\ \A b \in marked : refs'[b] = refs[b]
  <2>1. mtag' = [b \in Blocks |-> IF b \in marked THEN mtag[b] ELSE "free"]
    BY DEF Sweep
  <2>2. refs' = [b \in Blocks |-> IF b \in marked THEN refs[b] ELSE <<>>]
    BY DEF Sweep
  <2>3. marked \subseteq Blocks
    BY <1>2 DEF Typed
  <2> QED BY <2>1, <2>2, <2>3, <1>2 DEF Typed, Kinds
<1>4. Typed'
  BY <1>1, <1>2, <1>3 DEF Typed
<1>5. Shaped' /\ WaitingMarked' /\ Complete'
  BY <1>1, <1>2 DEF IInv, Shaped, WaitingMarked, Complete, Marking
<1>6. Frontier'
  <2>1. \A b \in marked : \A i \in DOMAIN refs[b] : refs[b][i] # 0 => refs[b][i] \in marked
    BY <1>2, MarkedIsClosed
  <2> QED BY <2>1, <1>1, <1>3 DEF Frontier
<1>7. RootsMarked'
  BY <1>1 DEF IInv, RootsMarked
<1>8. Minimal'
  <2>1. \A C : Holds(C)' => Holds(C)
    BY <1>1, <1>3 DEF Holds
  <2> QED BY <2>1, <1>1 DEF IInv, Minimal
<1> QED BY <1>4, <1>5, <1>6, <1>7, <1>8 DEF IInv

----------------------------------------------------------------------------

\* The inductive invariant of the collection, for every heap.
THEOREM GcMarkInvariant == ASSUME GcMarkAssumption PROVE MarkSpec => []IInv
<1>1. MarkInit => IInv
  BY InitIInv
<1>2. IInv /\ [MarkNext]_markVars => IInv'
  <2> SUFFICES ASSUME IInv, [MarkNext]_markVars PROVE IInv'
    OBVIOUS
  <2>1. CASE UNCHANGED markVars
    <3>1. /\ mtag' = mtag /\ refs' = refs /\ rootList' = rootList /\ uniqueStrings' = uniqueStrings
          /\ strPos' = strPos /\ marked' = marked /\ gsp' = gsp /\ cur' = cur
          /\ overflow' = overflow /\ place' = place /\ keptStrings' = keptStrings /\ phase' = phase
      BY <2>1 DEF markVars, shape, mark
    <3>2. Typed' /\ Shaped' /\ WaitingMarked'
      BY <3>1 DEF IInv, Typed, Shaped, WaitingMarked, Marking, HasReferences
    <3>3. Frontier' /\ RootsMarked' /\ Complete'
      BY <3>1 DEF IInv, Frontier, Waiting, RootsMarked, Complete, Marking
    <3>4. Minimal'
      BY <3>1 DEF IInv, Minimal, Holds
    <3> QED BY <3>2, <3>3, <3>4 DEF IInv
  <2>2. CASE MarkNext
    BY <2>2, MarkRootIInv, PopObjectIInv, MarkFieldIInv, PopArrayIInv, PassEndsIInv,
       RescanIInv, KeepStringIInv, WeakReferencesIInv, SweepIInv DEF MarkNext, Flush
  <2> QED BY <2>1, <2>2
<1> QED BY <1>1, <1>2, PTL DEF MarkSpec

\* Nothing the program can reach is freed, whatever the mark stack holds:
\* gc_mark_all marks the roots and all that marked blocks refer to.
THEOREM ReachableIsKept == ASSUME GcMarkAssumption PROVE MarkSpec => []ReachableIsMarked
<1>1. IInv => ReachableIsMarked
  BY MarkedIsClosed DEF Marking, ReachableIsMarked, ClosedFromRoots
<1> QED BY <1>1, GcMarkInvariant, PTL

\* Nothing else is kept: at every step what is marked lies in every set that
\* holds the roots and is closed under references.
THEOREM OnlyReachableKept == ASSUME GcMarkAssumption PROVE MarkSpec => []OnlyReachableMarked
<1>1. IInv => OnlyReachableMarked
  <2>1. \A C \in SUBSET Blocks : ClosedFromRoots(C) => Holds(C)
    BY DEF ClosedFromRoots, Holds
  <2> QED BY <2>1 DEF IInv, Minimal, OnlyReachableMarked
<1> QED BY <1>1, GcMarkInvariant, PTL

----------------------------------------------------------------------------

\* Neither a field nor a root names a free block.
NothingFree ==
    /\ \A b \in Blocks : \A i \in DOMAIN refs[b] : refs[b][i] # 0 => mtag[refs[b][i]] # "free"
    /\ \A i \in DOMAIN rootList : rootList[i] # 0 => mtag[rootList[i]] # "free"
    /\ uniqueStrings # 0 => mtag[uniqueStrings] # "free"

\* Past the weak references, what they still name is marked; past the sweep
\* what is marked is there.
Weak ==
    /\ phase # "swept" => NothingFree
    /\ phase \in {"sweep", "swept"} =>
          /\ strPos # 0 => strPos \in marked
          /\ uniqueStrings # 0 => \A i \in DOMAIN refs[uniqueStrings] : refs[uniqueStrings][i] \in marked
    /\ phase = "swept" => \A b \in marked : mtag[b] # "free"

\* No free block is ever marked: the blocks that are not free hold the roots
\* and what they refer to, and nothing beyond such a set is marked.
LEMMA MarkedIsThere ==
    ASSUME GcMarkAssumption, IInv, NothingFree
    PROVE  \A b \in marked : mtag[b] # "free"
<1> DEFINE C == {b \in Blocks : mtag[b] # "free"}
<1>1. Typed /\ Minimal /\ 0 \notin marked
  BY DEF IInv, Typed, Blocks
<1>2. Holds(C)
  <2>1. \A x \in Values : x # 0 => x \in Blocks
    BY DEF GcMarkAssumption, Values, Blocks
  <2>2. rootList \in Seq(Values) /\ refs \in [Blocks -> Seq(Values)]
    BY <1>1 DEF Typed
  <2>3. \A i \in DOMAIN rootList : rootList[i] \in Values
    BY <2>2
  <2>4. \A b \in Blocks : \A i \in DOMAIN refs[b] : refs[b][i] \in Values
    BY <2>2
  <2> QED BY <2>1, <2>3, <2>4 DEF Holds, NothingFree
<1>3. marked \ {uniqueStrings} \subseteq C
  BY <1>1, <1>2 DEF Minimal
<1> QED BY <1>1, <1>3 DEF NothingFree

LEMMA InitWeak ==
    ASSUME MarkInit
    PROVE  Weak
<1>1. NothingFree
  BY DEF MarkInit, WellFormed, NothingFree
<1> QED BY <1>1 DEF MarkInit, Weak

\* Until the weak references are looked at nothing Weak speaks of changes.
LEMMA MarkingWeak ==
    ASSUME Weak, UNCHANGED shape, phase \in {"roots", "rescan", "weak"},
           phase' \in {"roots", "rescan", "weak"}
    PROVE  Weak'
<1>1. mtag' = mtag /\ refs' = refs /\ rootList' = rootList /\ uniqueStrings' = uniqueStrings
  BY DEF shape
<1> QED BY <1>1 DEF Weak, NothingFree

LEMMA WeakReferencesWeak ==
    ASSUME GcMarkAssumption, IInv, Weak, WeakReferences
    PROVE  Weak'
<1>1. /\ mtag' = mtag /\ rootList' = rootList /\ phase = "weak" /\ phase' = "sweep"
      /\ strPos' = ClearedPos
  BY DEF WeakReferences
<1>2. NothingFree /\ Typed /\ \A i \in DOMAIN keptStrings : keptStrings[i] \in marked
  BY <1>1 DEF Weak, IInv, Shaped
<1>3. marked \subseteq marked'
  BY DEF WeakReferences
<1>4. strPos' # 0 => strPos' \in marked'
  BY <1>1, <1>3 DEF ClearedPos, Survives
<1>5. CASE keptStrings = <<>>
  <2>1. uniqueStrings' = 0 /\ refs' = refs
    BY <1>5 DEF WeakReferences
  <2> QED BY <2>1, <1>1, <1>2, <1>4 DEF Weak, NothingFree
<1>6. CASE keptStrings # <<>>
  <2>1. uniqueStrings' = uniqueStrings /\ refs' = [refs EXCEPT ![uniqueStrings] = keptStrings] /\ uniqueStrings # 0
    BY <1>1, <1>6 DEF WeakReferences, IInv, Shaped
  <2>2. uniqueStrings \in Blocks
    BY <2>1, <1>2 DEF Typed, Values, Blocks
  <2>3. refs'[uniqueStrings] = keptStrings /\ \A b \in Blocks : b # uniqueStrings => refs'[b] = refs[b]
    BY <2>1, <2>2, <1>2 DEF Typed
  <2>4. \A i \in DOMAIN keptStrings : mtag[keptStrings[i]] # "free"
    BY <1>2, MarkedIsThere
  <2>5. NothingFree'
    BY <2>1, <2>3, <2>4, <1>1, <1>2 DEF NothingFree
  <2> QED BY <2>1, <2>3, <2>5, <1>1, <1>2, <1>3, <1>4 DEF Weak
<1> QED BY <1>5, <1>6

LEMMA SweepWeak ==
    ASSUME GcMarkAssumption, IInv, Weak, Sweep
    PROVE  Weak'
<1>1. /\ uniqueStrings' = uniqueStrings /\ strPos' = strPos /\ marked' = marked
      /\ phase = "sweep" /\ phase' = "swept"
  BY DEF Sweep, mark
<1>2. NothingFree /\ Typed
  BY <1>1 DEF Weak, IInv
<1>3. \A b \in marked : mtag'[b] = mtag[b]
  BY <1>2 DEF Sweep, Typed
<1>4. \A b \in marked : mtag'[b] # "free"
  BY <1>2, <1>3, MarkedIsThere
<1>5. uniqueStrings # 0 => \A i \in DOMAIN refs'[uniqueStrings] : refs'[uniqueStrings][i] \in marked
  <2> SUFFICES ASSUME uniqueStrings # 0 PROVE \A i \in DOMAIN refs'[uniqueStrings] : refs'[uniqueStrings][i] \in marked
    OBVIOUS
  <2>1. uniqueStrings \in Blocks
    BY <1>2 DEF Typed, Values, Blocks
  <2>2. refs'[uniqueStrings] = refs[uniqueStrings] \/ refs'[uniqueStrings] = <<>>
    BY <2>1 DEF Sweep
  <2> QED BY <2>2, <1>1 DEF Weak
<1> QED BY <1>1, <1>4, <1>5 DEF Weak

\* After the sweep neither a position cache nor the table of unique strings
\* names a freed block, whatever of the heap the collection freed.
THEOREM WeakReferencesAreKept ==
    ASSUME GcMarkAssumption PROVE MarkSpec => []NoDanglingWeakReference
<1>1. MarkInit => Weak
  BY InitWeak
<1>2. IInv /\ Weak /\ [MarkNext]_markVars => Weak'
  <2> SUFFICES ASSUME IInv, Weak, [MarkNext]_markVars PROVE Weak'
    OBVIOUS
  <2>1. CASE UNCHANGED markVars
    <3>1. /\ mtag' = mtag /\ refs' = refs /\ rootList' = rootList /\ uniqueStrings' = uniqueStrings
          /\ strPos' = strPos /\ marked' = marked /\ phase' = phase
      BY <2>1 DEF markVars, shape, mark
    <3> QED BY <3>1 DEF Weak, NothingFree
  <2>2. CASE WeakReferences \/ Sweep
    BY <2>2, WeakReferencesWeak, SweepWeak
  <2>3. CASE MarkRoot \/ Flush \/ PassEnds \/ Rescan \/ KeepString
    <3>1. UNCHANGED shape
      BY <2>3 DEF MarkRoot, Flush, PopObject, MarkField, PopArray, PassEnds, Rescan, KeepString
    <3>2. phase \in {"roots", "rescan", "weak"}
      <4>1. CASE MarkRoot \/ PassEnds \/ Rescan \/ KeepString
        BY <4>1 DEF MarkRoot, PassEnds, Rescan, KeepString
      <4>2. CASE Flush
        BY <4>2 DEF IInv, WaitingMarked, Marking, Flush, PopObject, MarkField, PopArray
      <4> QED BY <2>3, <4>1, <4>2
    <3>3. phase' = phase \/ phase' \in {"rescan", "weak"}
      BY <2>3 DEF MarkRoot, Flush, PopObject, MarkField, PopArray, PassEnds, Rescan, KeepString
    <3> QED BY <3>1, <3>2, <3>3, MarkingWeak
  <2> QED BY <2>1, <2>2, <2>3 DEF MarkNext
<1>3. IInv /\ Weak => NoDanglingWeakReference
  <2> SUFFICES ASSUME IInv, Weak, phase = "swept"
               PROVE  /\ strPos # 0 => mtag[strPos] # "free"
                      /\ uniqueStrings # 0 => \A i \in DOMAIN refs[uniqueStrings] :
                            refs[uniqueStrings][i] # 0 /\ mtag[refs[uniqueStrings][i]] # "free"
    BY DEF NoDanglingWeakReference
  <2>1. 0 \notin marked
    BY DEF IInv, Typed, Blocks
  <2> QED BY <2>1 DEF Weak
<1> QED BY <1>1, <1>2, <1>3, GcMarkInvariant, PTL DEF MarkSpec
=============================================================================
