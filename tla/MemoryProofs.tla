---------------------------- MODULE MemoryProofs ----------------------------
(***************************************************************************)
(* What Heap promises for every size of memory: the distance between heap  *)
(* and stack_bottom, the object of an out of memory error and, for frames  *)
(* small enough, the room between heap and stack.  And what TypedArrays    *)
(* promises for every set of classes and every offset and length: no view  *)
(* reaches beyond its buffer.                                              *)
(***************************************************************************)
EXTENDS Heap, TypedArrays, SequenceTheorems, TLAPS

Frame == [kind : {"call", "parser"}, from : Nat, base : Nat, limit : Nat]

\* What a granted request leaves: room for it and for the distance.
LEMMA GrantedFacts ==
    ASSUME TypeOK, NEW b \in Nat, NEW size \in Nat, Granted(b, size)
    PROVE  /\ garbage' \in Nat /\ garbage' <= garbage
           /\ errors' = errors /\ exc' = exc
           /\ live + garbage' + errors + size + MinFree + b <= MemSize
<1> USE HeapAssumption DEF TypeOK
<1>1. CASE Fits(HeapSize, b, size, MinFree) /\ UNCHANGED garbage
  BY <1>1 DEF Granted, Fits, HeapSize
<1>2. CASE Fits(live + errors, b, size, MinFree) /\ garbage' = 0
  BY <1>2 DEF Granted, Fits
<1> QED BY <1>1, <1>2 DEF Granted

\* What an out of memory error leaves: the critical distance.
LEMMA ErrorFacts ==
    ASSUME TypeOK, ThrowOutOfMemory
    PROVE  /\ live' = live /\ garbage' \in Nat /\ errors' \in Nat
           /\ live + garbage' + errors' + bottom + Critical <= MemSize
           /\ errors <= errors'
           /\ exc' \in {"object", "null"}
           /\ (exc' = "null" /\ errors = 0) => live + bottom + MinFree > MemSize
<1> DEFINE message == IF Fits(live + errors, bottom, Message, Critical) THEN Message ELSE 0
           object  == Fits(live + errors + message, bottom, Object, Critical)
<1> USE HeapAssumption DEF TypeOK, HeapSize
<1>1. /\ garbage' = IF object THEN 0 ELSE message
      /\ errors' = errors + IF object THEN message + Object ELSE 0
      /\ exc' = IF object THEN "object" ELSE "null"
      /\ live' = live
  BY DEF ThrowOutOfMemory
<1>2. /\ message \in Nat
      /\ live + errors + message + bottom + Critical <= MemSize
  BY DEF Fits
<1>3. CASE object
  <2>1. live + errors + message + Object + Critical + bottom <= MemSize
    BY <1>3 DEF Fits
  <2> HIDE DEF message, object
  <2> QED BY <1>1, <1>2, <1>3, <2>1
<1>4. CASE ~object
  <2>1. errors = 0 => live + bottom + MinFree > MemSize
    BY <1>4 DEF Fits
  <2> HIDE DEF message, object
  <2> QED BY <1>1, <1>2, <1>4, <2>1
<1> QED BY <1>3, <1>4

LEMMA RefusedFacts ==
    ASSUME TypeOK, NEW b \in Nat, NEW size \in Nat, Refused(b, size)
    PROVE  /\ live' = live /\ garbage' \in Nat /\ errors' \in Nat
           /\ live + garbage' + errors' + bottom + Critical <= MemSize
           /\ exc' \in {"none", "object", "null"}
           /\ errors <= errors'
           /\ \/ exc' = exc
              \/ (exc' = "null" /\ errors = 0) => live + bottom + MinFree > MemSize
<1>1. CASE UNCHANGED heap
  BY <1>1, HeapAssumption DEF heap, TypeOK, HeapSize
<1>2. CASE ThrowOutOfMemory
  BY <1>2, ErrorFacts
<1> QED BY <1>1, <1>2 DEF Refused

LEMMA PoppedFrames ==
    ASSUME TypeOK, frames # <<>>
    PROVE  /\ Len(frames) \in Nat \ {0}
           /\ SubSeq(frames, 1, Len(frames) - 1) \in Seq(Frame)
           /\ Len(SubSeq(frames, 1, Len(frames) - 1)) = Len(frames) - 1
           /\ \A k \in 1 .. Len(frames) - 1 :
                SubSeq(frames, 1, Len(frames) - 1)[k] = frames[k]
           /\ Top \in Frame
<1>1. frames \in Seq(Frame) /\ Len(frames) \in Nat \ {0}
  BY EmptySeq DEF TypeOK, Frame
<1>2. /\ SubSeq(frames, 1, Len(frames) - 1) \in Seq(Frame)
      /\ Len(SubSeq(frames, 1, Len(frames) - 1)) =
           IF 1 <= Len(frames) - 1 THEN Len(frames) - 1 - 1 + 1 ELSE 0
      /\ \A k \in 1 .. Len(frames) - 1 - 1 + 1 :
           SubSeq(frames, 1, Len(frames) - 1)[k] = frames[1 + k - 1]
  <2>1. \A k \in 1 .. Len(frames) - 1 : frames[k] \in Frame
    BY <1>1
  <2>2. Len(frames) - 1 \in Int
    BY <1>1
  <2> QED BY <2>1, <2>2, SubSeqProperties
<1>3. Top \in Frame
  BY <1>1 DEF Top
<1>4. Len(frames) - 1 - 1 + 1 = Len(frames) - 1
  BY <1>1
<1>5. Len(SubSeq(frames, 1, Len(frames) - 1)) = Len(frames) - 1
  <2>1. CASE 1 <= Len(frames) - 1
    <3>1. Len(SubSeq(frames, 1, Len(frames) - 1)) = Len(frames) - 1 - 1 + 1
      BY <1>2, <2>1
    <3> QED BY <3>1, <1>4
  <2>2. CASE ~(1 <= Len(frames) - 1)
    <3> DEFINE n == Len(frames)
    <3>a. n \in Nat \ {0}
      BY <1>1
    <3>b. ~(1 <= n - 1)
      BY <2>2
    <3> HIDE DEF n
    <3>c. n - 1 = 0
      BY <3>a, <3>b
    <3>1. Len(frames) - 1 = 0
      BY <3>c DEF n
    <3>2. Len(SubSeq(frames, 1, Len(frames) - 1)) = 0
      BY <1>2, <2>2
    <3> QED BY <3>1, <3>2
  <2> QED BY <2>1, <2>2
<1>6. ASSUME NEW k \in 1 .. Len(frames) - 1
      PROVE  SubSeq(frames, 1, Len(frames) - 1)[k] = frames[k]
  <2>1. k \in 1 .. Len(frames) - 1 - 1 + 1 /\ 1 + k - 1 = k
    BY <1>1
  <2> QED BY <2>1, <1>2
<1> QED BY <1>1, <1>2, <1>3, <1>5, <1>6

LEMMA PushedFrames ==
    ASSUME TypeOK, NEW f \in Frame
    PROVE  /\ Append(frames, f) \in Seq(Frame)
           /\ Len(Append(frames, f)) = Len(frames) + 1
           /\ Append(frames, f)[Len(frames) + 1] = f
           /\ \A k \in 1 .. Len(frames) : Append(frames, f)[k] = frames[k]
<1>1. frames \in Seq(Frame)
  BY DEF TypeOK, Frame
<1> QED BY <1>1

----------------------------------------------------------------------------
(* The heap. *)

\* Outside out of memory errors the heap keeps the whole distance.
LiveInv == live + bottom + MinFree <= MemSize

HeapInv == TypeOK /\ LiveInv /\ OutOfMemoryIsAnObject

LEMMA Sums ==
    ASSUME NEW l \in Nat, NEW n \in Nat, NEW g \in Nat, NEW e \in Nat, NEW size \in Nat,
           NEW b \in Nat, NEW free \in Nat, NEW crit \in Nat, NEW m \in Nat,
           l + g + e + size + free + b <= m, n <= l + size, crit <= free
    PROVE  n + g + e + b + crit <= m /\ n + b + free <= m
OBVIOUS

\* A request, granted or refused, that leaves bottom alone or sets it to b.
LEMMA GrantStep ==
    ASSUME HeapInv, NEW b \in Nat, NEW size \in Nat, Granted(b, size),
           live' \in {live, live + size}, bottom' = b,
           sp' \in Nat, frames' \in Seq(Frame)
    PROVE  HeapInv'
<1>1. TypeOK
  BY DEF HeapInv
<1>2. /\ garbage' \in Nat /\ garbage' <= garbage
      /\ errors' = errors /\ exc' = exc
      /\ live + garbage' + errors + size + MinFree + b <= MemSize
  BY <1>1, GrantedFacts
<1>3. live \in Nat /\ garbage \in Nat /\ errors \in Nat /\ exc \in {"none", "object", "null"}
  BY <1>1 DEF TypeOK
<1>4. Critical \in Nat /\ MinFree \in Nat /\ Critical <= MinFree /\ MemSize \in Nat
  BY HeapAssumption
<1>5. live' \in Nat /\ live' <= live + size
  BY <1>3
<1>6. /\ live' + garbage' + errors' + b + Critical <= MemSize
      /\ live' + b + MinFree <= MemSize
  <2>1. /\ garbage' \in Nat /\ errors' = errors
        /\ live + garbage' + errors + size + MinFree + b <= MemSize
    BY <1>2
  <2>2. live' + garbage' + errors + b + Critical <= MemSize /\ live' + b + MinFree <= MemSize
    BY <1>3, <1>4, <1>5, <2>1, Sums, ZenonT(40)
  <2> QED BY <2>1, <2>2
<1>7. TypeOK'
  <2>1. HeapSize' + bottom' + Critical <= MemSize
    BY <1>6 DEF HeapSize
  <2>2. frames' \in Seq([kind : {"call", "parser"}, from : Nat, base : Nat, limit : Nat])
    BY DEF Frame
  <2>3. errors' \in Nat /\ exc' \in {"none", "object", "null"}
    BY <1>2, <1>3
  <2> QED BY <1>2, <1>5, <2>1, <2>2, <2>3 DEF TypeOK
<1>8. LiveInv'
  BY <1>6 DEF LiveInv
<1> QED BY <1>1, <1>2, <1>7, <1>8 DEF HeapInv, OutOfMemoryIsAnObject

LEMMA RefuseStep ==
    ASSUME HeapInv, NEW b \in Nat, NEW size \in Nat, Refused(b, size), UNCHANGED stack
    PROVE  HeapInv'
<1>1. TypeOK /\ LiveInv /\ OutOfMemoryIsAnObject
  BY DEF HeapInv
<1>2. /\ live' = live /\ garbage' \in Nat /\ errors' \in Nat
      /\ live + garbage' + errors' + bottom + Critical <= MemSize
      /\ exc' \in {"none", "object", "null"}
      /\ errors <= errors'
      /\ \/ exc' = exc
         \/ (exc' = "null" /\ errors = 0) => live + bottom + MinFree > MemSize
  BY <1>1, RefusedFacts
<1>3. UNCHANGED <<sp, bottom, frames>>
  BY DEF stack
<1>4. TypeOK'
  BY <1>1, <1>2, <1>3 DEF TypeOK, HeapSize
<1>5. LiveInv'
  BY <1>1, <1>2, <1>3 DEF LiveInv
<1>6. OutOfMemoryIsAnObject'
  BY <1>1, <1>2, HeapAssumption DEF OutOfMemoryIsAnObject, LiveInv, TypeOK
<1> QED BY <1>4, <1>5, <1>6 DEF HeapInv

\* JS_StackCheck, whatever its caller does with the grant.
LEMMA StackCheckStep ==
    ASSUME HeapInv, NEW e \in Nat, NEW len \in Nat, NEW Go,
           JS_StackCheck(e, len, Go),
           Go => sp' \in Nat /\ frames' \in Seq(Frame)
    PROVE  HeapInv'
<1>1. sp + e + len + Slack \in Nat /\ len + Slack \in Nat
  BY HeapAssumption DEF HeapInv, TypeOK
<1>2. CASE /\ Granted(sp + e + len + Slack, len + Slack)
           /\ bottom' = sp + e + len + Slack
           /\ UNCHANGED live /\ Go
  BY <1>1, <1>2, GrantStep
<1>3. CASE Refused(sp + e + len + Slack, len + Slack) /\ UNCHANGED stack
  BY <1>1, <1>3, RefuseStep
<1> QED BY <1>2, <1>3 DEF JS_StackCheck

LEMMA Amounts == MemSize \in Nat /\ MinFree \in Nat /\ Critical \in Nat
BY HeapAssumption

LEMMA Smaller ==
    ASSUME NEW a \in Nat, NEW b \in Nat, NEW c \in Nat, NEW m \in Nat,
           NEW a2 \in Nat, NEW b2 \in Nat, a + b + c <= m, a2 <= a, b2 <= b
    PROVE  a2 + b2 + c <= m
OBVIOUS

LEMMA SameErrors ==
    ASSUME NEW l \in Nat, NEW g \in Nat, NEW e \in Nat, NEW l2 \in Nat, NEW g2 \in Nat,
           l2 + g2 <= l + g
    PROVE  l2 + g2 + e \in Nat /\ l2 + g2 + e <= l + g + e
OBVIOUS

\* Nothing grows but garbage, at the cost of what is in use.
LEMMA NoGrowth ==
    ASSUME TypeOK, LiveInv, HeapSize' \in Nat, HeapSize' <= HeapSize,
           live' \in Nat, live' <= live, bottom' \in Nat, bottom' <= bottom
    PROVE  HeapSize' + bottom' + Critical <= MemSize /\ LiveInv'
<1>1. HeapSize \in Nat /\ live \in Nat /\ bottom \in Nat
  BY DEF TypeOK, HeapSize
<1>2. HeapSize + bottom + Critical <= MemSize /\ live + bottom + MinFree <= MemSize
  BY DEF TypeOK, LiveInv
<1>3. HeapSize' + bottom' + Critical <= MemSize
  BY <1>1, <1>2, Amounts, Smaller
<1>4. live' + bottom' + MinFree <= MemSize
  BY <1>1, <1>2, Amounts, Smaller
<1> QED BY <1>3, <1>4 DEF LiveInv

\* The steps that leave the stack alone.
LEMMA HeapOnlyStep ==
    ASSUME HeapInv, NEW size \in Nat,
           \/ js_malloc(size) \/ Forget(size) \/ js_free(size) \/ ForgetErrors \/ JS_GC
    PROVE  HeapInv'
<1>1. /\ TypeOK /\ LiveInv /\ OutOfMemoryIsAnObject
      /\ size \in Nat
      /\ live \in Nat /\ garbage \in Nat /\ errors \in Nat /\ bottom \in Nat /\ sp \in Nat
      /\ frames \in Seq(Frame)
      /\ live + garbage + errors + bottom + Critical <= MemSize
  BY HeapAssumption DEF HeapInv, TypeOK, Frame, HeapSize
<1>2. CASE js_malloc(size)
  <2>1. CASE Granted(bottom, size) /\ live' = live + size /\ UNCHANGED stack
    BY <1>1, <2>1, GrantStep DEF stack
  <2>2. CASE Refused(bottom, size) /\ UNCHANGED stack
    BY <1>1, <2>2, RefuseStep
  <2> QED BY <1>2, <2>1, <2>2 DEF js_malloc
<1>3. CASE Forget(size) \/ js_free(size)
  <2>1. /\ live' \in Nat /\ garbage' \in Nat /\ live' <= live
        /\ live' + garbage' <= live + garbage
        /\ UNCHANGED <<errors, exc, sp, bottom, frames>>
    BY <1>1, <1>3 DEF Forget, js_free, stack
  <2>a. HeapSize' \in Nat /\ HeapSize' <= HeapSize
    BY <1>1, <2>1, SameErrors DEF HeapSize
  <2>b. live' \in Nat /\ live' <= live /\ bottom' \in Nat /\ bottom' <= bottom
    BY <1>1, <2>1
  <2>2. HeapSize' + bottom' + Critical <= MemSize /\ LiveInv'
    BY <1>1, <2>a, <2>b, NoGrowth
  <2> QED BY <1>1, <2>1, <2>2 DEF HeapInv, TypeOK, OutOfMemoryIsAnObject
<1>4. CASE ForgetErrors
  <2>1. /\ garbage' = garbage + errors /\ errors' = 0 /\ exc' = "none"
        /\ UNCHANGED <<live, sp, bottom, frames>>
    BY <1>4 DEF ForgetErrors, stack
  <2>a. HeapSize' \in Nat /\ HeapSize' <= HeapSize
    BY <1>1, <2>1 DEF HeapSize
  <2>b. live' \in Nat /\ live' <= live /\ bottom' \in Nat /\ bottom' <= bottom
    BY <1>1, <2>1
  <2>2. HeapSize' + bottom' + Critical <= MemSize /\ LiveInv' /\ garbage' \in Nat
    BY <1>1, <2>1, <2>a, <2>b, NoGrowth
  <2> QED BY <1>1, <2>1, <2>2 DEF HeapInv, TypeOK, OutOfMemoryIsAnObject
<1>5. CASE JS_GC
  <2>1. garbage' = 0 /\ UNCHANGED <<live, errors, exc, sp, bottom, frames>>
    BY <1>5 DEF JS_GC, stack
  <2>a. HeapSize' \in Nat /\ HeapSize' <= HeapSize
    BY <1>1, <2>1 DEF HeapSize
  <2>b. live' \in Nat /\ live' <= live /\ bottom' \in Nat /\ bottom' <= bottom
    BY <1>1, <2>1
  <2>2. HeapSize' + bottom' + Critical <= MemSize /\ LiveInv'
    BY <1>1, <2>a, <2>b, NoGrowth
  <2> QED BY <1>1, <2>1, <2>2 DEF HeapInv, TypeOK, OutOfMemoryIsAnObject
<1> QED BY <1>2, <1>3, <1>4, <1>5

\* The steps that leave the heap alone, and do not lower stack_bottom.
LEMMA StackOnlyStep ==
    ASSUME HeapInv, UNCHANGED heap,
           sp' \in Nat, bottom' \in Nat, bottom' <= bottom, frames' \in Seq(Frame)
    PROVE  HeapInv'
<1>1. /\ TypeOK /\ LiveInv /\ OutOfMemoryIsAnObject
      /\ live \in Nat /\ garbage \in Nat /\ errors \in Nat /\ bottom \in Nat
      /\ live + garbage + errors + bottom + Critical <= MemSize
      /\ exc \in {"none", "object", "null"}
  BY DEF HeapInv, TypeOK, HeapSize
<1>2. UNCHANGED <<live, garbage, errors, exc>>
  BY DEF heap
<1>a. HeapSize' \in Nat /\ HeapSize' <= HeapSize /\ live' \in Nat /\ live' <= live
  BY <1>1, <1>2 DEF HeapSize
<1>3. HeapSize' + bottom' + Critical <= MemSize /\ LiveInv'
  BY <1>1, <1>a, NoGrowth
<1>4. frames' \in Seq([kind : {"call", "parser"}, from : Nat, base : Nat, limit : Nat])
  BY DEF Frame
<1> QED BY <1>1, <1>2, <1>3, <1>4 DEF HeapInv, TypeOK, OutOfMemoryIsAnObject

LEMMA HeapInit == Init => HeapInv
<1> SUFFICES ASSUME Init PROVE HeapInv
  OBVIOUS
<1>1. frames \in Seq([kind : {"call", "parser"}, from : Nat, base : Nat, limit : Nat])
  BY EmptySeq DEF Init
<1>2. HeapSize + bottom + Critical <= MemSize /\ LiveInv
  BY HeapAssumption DEF Init, HeapSize, LiveInv
<1> QED BY <1>1, <1>2 DEF Init, HeapInv, TypeOK, OutOfMemoryIsAnObject

\* Every step keeps HeapInv.
LEMMA HeapStep == HeapInv /\ [Next]_vars => HeapInv'
<1> SUFFICES ASSUME HeapInv, [Next]_vars PROVE HeapInv'
  OBVIOUS
<1>1. /\ TypeOK /\ sp \in Nat /\ bottom \in Nat /\ frames \in Seq(Frame)
      /\ Slack \in Nat /\ Entry \in Nat /\ Needs \subseteq Nat /\ Sizes \subseteq Nat
  BY HeapAssumption DEF HeapInv, TypeOK, Frame
<1>2. CASE UNCHANGED vars
  <2>1. UNCHANGED <<live, garbage, errors, exc, sp, bottom, frames>>
    BY <1>2 DEF vars
  <2> QED BY <2>1 DEF HeapInv, TypeOK, LiveInv, OutOfMemoryIsAnObject, HeapSize
<1>3. CASE \E size \in Sizes : js_malloc(size) \/ Forget(size) \/ js_free(size)
  BY <1>1, <1>3, HeapOnlyStep
<1>4. CASE ForgetErrors \/ JS_GC
  <2>1. 0 \in Nat
    OBVIOUS
  <2> QED BY <1>4, <2>1, HeapOnlyStep
<1>5. ASSUME NEW e \in 0 .. Entry, NEW len \in Needs, Enter(e, len) PROVE HeapInv'
  <2>1. e \in Nat /\ len \in Nat
    BY <1>1
  <2>2. CallFrame(e, len) \in Frame /\ sp + e \in Nat
    BY <1>1, <2>1 DEF CallFrame, Frame
  <2>3. Append(frames, CallFrame(e, len)) \in Seq(Frame)
    BY <1>1, <2>2, PushedFrames
  <2> QED BY <1>5, <2>1, <2>2, <2>3, StackCheckStep DEF Enter
<1>6. CASE JS_PushArg \/ Pop
  <2>1. /\ UNCHANGED <<heap, bottom, frames>>
        /\ sp' = sp + 1 \/ (sp > Top.base /\ sp' = sp - 1 /\ frames # <<>>)
    BY <1>6 DEF JS_PushArg, Pop
  <2>2. sp' \in Nat
    BY <1>1, <2>1, PoppedFrames DEF Frame
  <2> QED BY <1>1, <2>1, <2>2, StackOnlyStep
<1>7. CASE Leave
  <2>1. /\ sp' = Top.from /\ frames' = SubSeq(frames, 1, Len(frames) - 1)
        /\ UNCHANGED <<heap, bottom>> /\ frames # <<>>
    BY <1>7 DEF Leave
  <2>2. sp' \in Nat /\ frames' \in Seq(Frame)
    BY <1>1, <2>1, PoppedFrames DEF Frame
  <2> QED BY <1>1, <2>1, <2>2, StackOnlyStep
<1>8. CASE StartParser
  <2>1. [kind |-> "parser", from |-> sp, base |-> sp, limit |-> sp] \in Frame
    BY <1>1 DEF Frame
  <2>2. frames' \in Seq(Frame) /\ UNCHANGED <<heap, sp, bottom>>
    BY <1>1, <1>8, <2>1, PushedFrames DEF StartParser
  <2> QED BY <1>1, <2>2, StackOnlyStep
<1>9. CASE js_parse_push_val
  <2>1. CASE JS_StackCheck(0, 1, sp' = sp + 1 /\ UNCHANGED frames)
    <3>1. sp' = sp + 1 /\ UNCHANGED frames => sp' \in Nat /\ frames' \in Seq(Frame)
      BY <1>1
    <3> QED BY <2>1, <3>1, StackCheckStep
  <2>2. CASE sp' = sp + 1 /\ UNCHANGED <<heap, bottom, frames>>
    BY <1>1, <2>2, StackOnlyStep
  <2> QED BY <1>9, <2>1, <2>2 DEF js_parse_push_val
<1>10. CASE js_parse_pop_val
  <2>1. /\ frames # <<>> /\ sp > Top.base /\ sp' = sp - 1
        /\ bottom' = IF sp - 1 + Slack < bottom THEN sp - 1 + Slack ELSE bottom
        /\ UNCHANGED <<heap, frames>>
    BY <1>10 DEF js_parse_pop_val
  <2>2. Top.base \in Nat
    BY <1>1, <2>1, PoppedFrames DEF Frame
  <2>3. sp' \in Nat /\ bottom' \in Nat /\ bottom' <= bottom
    BY <1>1, <2>1, <2>2
  <2> QED BY <1>1, <2>1, <2>3, StackOnlyStep
<1> QED BY <1>2, <1>3, <1>4, <1>5, <1>6, <1>7, <1>8, <1>9, <1>10 DEF Next

THEOREM HeapInvariant == Spec => []HeapInv
<1>1. Spec => []HeapInv
  BY HeapInit, HeapStep, PTL DEF Spec
<1> QED BY <1>1

\* The distance between heap and stack_bottom is never used up, with the
\* types of all variables: js_malloc and JS_StackCheck ask check_free_mem.
THEOREM TypeCorrect == Spec => []TypeOK
<1>1. HeapInv => TypeOK
  BY DEF HeapInv
<1> QED BY <1>1, HeapInvariant, PTL

\* JS_ThrowOutOfMemory throws an object as long as no earlier one is in use.
THEOREM ErrorIsAnObject == Spec => []OutOfMemoryIsAnObject
<1>1. HeapInv => OutOfMemoryIsAnObject
  BY DEF HeapInv
<1> QED BY <1>1, HeapInvariant, PTL

----------------------------------------------------------------------------
(* The stack. *)

\* No frame reserves more than the slack and the critical distance cover.
SmallFrames == \A len \in Needs : len + Entry + MarkRoom <= Slack + Critical

\* stack_bottom may be that of a call which has returned, but it covers the
\* slack above every call under way, and so much of its frame.
Covered(f) ==
    f.kind = "call" =>
        /\ f.base + Slack <= bottom
        /\ f.limit + Entry + MarkRoom <= f.base + Slack + Critical

\* Only the last call may be a parser, and none begins above its caller.
Nested ==
    /\ \A k \in 1 .. Len(frames) : frames[k].from <= frames[k].base /\ frames[k].base <= sp
    /\ \A j, k \in 1 .. Len(frames) : j < k => /\ frames[j].base <= frames[k].from
                                               /\ frames[j].kind = "call"
                                               /\ frames[k].from <= sp
    /\ \A k \in 1 .. Len(frames) - 1 : frames[k + 1].from <= frames[k].limit

InTop ==
    /\ frames = <<>> => sp = 0
    /\ frames # <<>> => frames[1].from = 0
    /\ frames # <<>> => (Top.kind = "call" => sp <= Top.limit)

\* sp may be lower than stack_bottom, but not by the critical distance.
Near == sp + Entry + MarkRoom <= bottom + Critical

StackInv ==
    /\ \A k \in 1 .. Len(frames) : Covered(frames[k])
    /\ Nested /\ InTop /\ Near

LEMMA CallIsNear ==
    ASSUME TypeOK, NEW f \in Frame, f.kind = "call", Covered(f), NEW d \in Nat, d <= f.limit
    PROVE  d + Entry + MarkRoom <= bottom + Critical
<1>1. /\ f.base \in Nat /\ f.limit \in Nat /\ bottom \in Nat
      /\ Entry \in Nat /\ MarkRoom \in Nat /\ Slack \in Nat /\ Critical \in Nat
  BY HeapAssumption DEF Frame, TypeOK
<1>2. f.base + Slack <= bottom /\ f.limit + Entry + MarkRoom <= f.base + Slack + Critical
  BY DEF Covered
<1> QED BY <1>1, <1>2

LEMMA RoomFromStackInv == HeapInv /\ StackInv => RoomToMark
<1> SUFFICES ASSUME HeapInv, StackInv PROVE RoomToMark
  OBVIOUS
<1>1. /\ HeapSize \in Nat /\ sp \in Nat /\ bottom \in Nat
      /\ Entry \in Nat /\ MarkRoom \in Nat /\ Critical \in Nat /\ MemSize \in Nat
  BY HeapAssumption DEF HeapInv, TypeOK, HeapSize
<1>2. HeapSize + bottom + Critical <= MemSize /\ sp + Entry + MarkRoom <= bottom + Critical
  BY DEF HeapInv, TypeOK, StackInv, Near
<1> QED BY <1>1, <1>2 DEF RoomToMark

\* What covers a frame covers one that begins below it.
LEMMA CoveredBelow ==
    ASSUME NEW a \in Nat, NEW b \in Nat, NEW slack \in Nat, NEW end \in Nat,
           a <= b, b + slack <= end
    PROVE  a + slack <= end
OBVIOUS

\* A call or a parser begins, f, and stack_bottom covers it.
LEMMA EnterStep ==
    ASSUME TypeOK, StackInv, NEW f \in Frame, f.from = sp, sp <= f.base,
           frames # <<>> => Top.kind = "call",
           frames' = Append(frames, f), sp' = f.base,
           bottom' \in Nat,
           \/ /\ f.kind = "call" /\ f.base <= f.limit
              /\ f.base + Slack <= bottom'
              /\ f.limit + Entry + MarkRoom <= f.base + Slack + Critical
           \/ f.kind = "parser" /\ f.base = sp /\ bottom' = bottom
    PROVE  StackInv'
<1> DEFINE n == Len(frames)
<1>1. /\ n \in Nat /\ Len(frames') = n + 1 /\ frames'[n + 1] = f
      /\ \A k \in 1 .. n : frames'[k] = frames[k]
      /\ \A k \in 1 .. n : frames[k] \in Frame
      /\ frames' # <<>>
  <2>1. frames \in Seq(Frame)
    BY DEF TypeOK, Frame
  <2> QED BY <2>1, PushedFrames, AppendProperties
<1>2. /\ sp \in Nat /\ bottom \in Nat /\ f.base \in Nat /\ f.from \in Nat /\ f.limit \in Nat
      /\ Slack \in Nat /\ Critical \in Nat /\ Entry \in Nat /\ MarkRoom \in Nat
      /\ Entry + MarkRoom <= Critical
  BY HeapAssumption DEF TypeOK, Frame
<1>3. \A k \in 1 .. n : frames[k].base \in Nat /\ frames[k].base <= sp
                        /\ frames[k].from \in Nat /\ frames[k].from <= frames[k].base
  BY <1>1 DEF StackInv, Nested, Frame
<1>4. \A k \in 1 .. n : frames[k].kind = "call"
  <2> SUFFICES ASSUME NEW k \in 1 .. n PROVE frames[k].kind = "call"
    OBVIOUS
  <2>1. CASE k = n
    <3>1. frames # <<>>
      BY <1>1, <2>1 DEF TypeOK
    <3> QED BY <2>1, <3>1 DEF Top
  <2>2. CASE k < n
    <3>1. n \in 1 .. n
      BY <1>1
    <3> QED BY <2>2, <3>1 DEF StackInv, Nested
  <2> QED BY <1>1, <2>1, <2>2
<1>5. ASSUME NEW k \in 1 .. n + 1, frames'[k].kind = "call"
      PROVE  /\ frames'[k].base + Slack <= bottom'
             /\ frames'[k].limit + Entry + MarkRoom <= frames'[k].base + Slack + Critical
  <2>1. CASE k = n + 1
    BY <1>1, <1>5, <2>1
  <2>2. CASE k \in 1 .. n
    <3>1. /\ frames[k].base \in Nat /\ frames[k].base <= sp
          /\ frames[k].base + Slack <= bottom
          /\ frames[k].limit + Entry + MarkRoom <= frames[k].base + Slack + Critical
      BY <1>1, <1>3, <1>5, <2>2 DEF StackInv, Covered
    <3>2. frames[k].base + Slack <= bottom'
      <4>1. CASE f.base + Slack <= bottom'
        <5>1. frames[k].base <= f.base
          BY <3>1, <1>2
        <5>2. frames[k].base \in Nat /\ f.base \in Nat /\ Slack \in Nat /\ bottom' \in Nat
          BY <3>1, <1>2
        <5> QED BY <5>1, <5>2, <4>1, CoveredBelow
      <4>2. CASE bottom' = bottom
        BY <3>1, <4>2
      <4> QED BY <4>1, <4>2
    <3> QED BY <1>1, <2>2, <3>1, <3>2
  <2> QED BY <1>1, <2>1, <2>2
<1>6. (\A k \in 1 .. Len(frames) : Covered(frames[k]))'
  BY <1>1, <1>5 DEF Covered
<1>7. ASSUME NEW k \in 1 .. n + 1
      PROVE  frames'[k].from <= frames'[k].base /\ frames'[k].base <= sp'
  <2>1. CASE k = n + 1
    BY <1>1, <1>2, <2>1
  <2>2. CASE k \in 1 .. n
    <3>1. frames'[k] = frames[k]
      BY <1>1, <2>2
    <3>2. /\ frames[k].base \in Nat /\ frames[k].base <= sp
          /\ frames[k].from <= frames[k].base
      BY <1>3, <2>2
    <3>3. sp \in Nat /\ f.base \in Nat /\ sp <= f.base /\ sp' = f.base
      BY <1>2
    <3>4. frames[k].base <= sp'
      BY <3>2, <3>3
    <3> QED BY <3>1, <3>2, <3>4
  <2> QED BY <1>1, <2>1, <2>2
<1>8. ASSUME NEW j \in 1 .. n + 1, NEW k \in 1 .. n + 1, j < k
      PROVE  /\ frames'[j].base <= frames'[k].from /\ frames'[j].kind = "call"
             /\ frames'[k].from <= sp'
  <2>1. j \in 1 .. n
    BY <1>1, <1>8
  <2>2. CASE k = n + 1
    BY <1>1, <1>2, <1>3, <1>4, <2>1, <2>2
  <2>3. CASE k \in 1 .. n
    <3>1. frames[j].base <= frames[k].from
      BY <1>8, <2>1, <2>3 DEF StackInv, Nested
    <3>2. frames'[j] = frames[j] /\ frames'[k] = frames[k] /\ frames[j].kind = "call"
      BY <1>1, <1>4, <2>1, <2>3
    <3>3. frames[k].from <= f.base
      <4>1. /\ frames[k].from \in Nat /\ frames[k].base \in Nat
            /\ frames[k].from <= frames[k].base /\ frames[k].base <= sp
        BY <1>3, <2>3
      <4>2. frames[k].from <= sp
        BY <4>1, <1>2
      <4> QED BY <4>1, <4>2, <1>2
    <3> QED BY <3>1, <3>2, <3>3
  <2> QED BY <1>1, <2>2, <2>3
<1>9. ASSUME NEW k \in 1 .. n
      PROVE  frames'[k + 1].from <= frames'[k].limit
  <2>1. CASE k = n
    <3>1. frames # <<>> /\ Top = frames[n]
      BY <1>1, <2>1 DEF TypeOK, Top
    <3>2. sp <= frames[n].limit
      BY <3>1 DEF StackInv, InTop
    <3> QED BY <1>1, <2>1, <3>2
  <2>2. CASE k # n
    <3>1. k \in 1 .. n - 1 /\ k + 1 \in 1 .. n
      BY <1>1, <2>2
    <3>2. frames[k + 1].from <= frames[k].limit
      BY <3>1 DEF StackInv, Nested
    <3> QED BY <1>1, <3>1, <3>2
  <2> QED BY <2>1, <2>2
<1>10. Nested'
  <2>1. Len(frames') - 1 = n
    BY <1>1
  <2> HIDE DEF n
  <2> QED BY <1>1, <2>1, <1>7, <1>8, <1>9 DEF Nested
<1>11. InTop'
  <2>1. Top' = f
    BY <1>1 DEF Top
  <2>2. frames'[1].from = 0
    <3>1. CASE n = 0
      <4>1. frames = <<>>
        BY <3>1 DEF TypeOK
      <4> QED BY <1>1, <3>1, <4>1 DEF StackInv, InTop
    <3>2. CASE n # 0
      <4>1. frames # <<>> /\ 1 \in 1 .. n
        BY <1>1, <3>2
      <4> QED BY <1>1, <4>1 DEF StackInv, InTop
    <3> QED BY <3>1, <3>2
  <2> QED BY <1>1, <2>1, <2>2 DEF InTop
<1>12. Near'
  <2>1. sp + Entry + MarkRoom <= bottom + Critical
    BY DEF StackInv, Near
  <2>2. CASE f.kind = "call"
    <3>1. f.base + Slack <= bottom'
      BY <2>2
    <3>2. f.base + Entry + MarkRoom <= bottom' + Critical
      <4>1. /\ f.base \in Nat /\ bottom' \in Nat /\ Slack \in Nat /\ Critical \in Nat
            /\ Entry \in Nat /\ MarkRoom \in Nat /\ Entry + MarkRoom <= Critical
        BY <1>2
      <4> QED BY <3>1, <4>1
    <3> QED BY <3>2 DEF Near
  <2>3. CASE f.base = sp /\ bottom' = bottom
    BY <2>1, <2>3 DEF Near
  <2>4. f.kind = "call" \/ (f.base = sp /\ bottom' = bottom)
    OBVIOUS
  <2> QED BY <2>2, <2>3, <2>4
<1> QED BY <1>6, <1>10, <1>11, <1>12 DEF StackInv

\* The last call, or the parser, ends.
LEMMA LeaveStep ==
    ASSUME TypeOK, StackInv, Leave
    PROVE  StackInv'
<1> DEFINE n == Len(frames)
<1>1. /\ n \in Nat \ {0} /\ Len(frames') = n - 1
      /\ \A k \in 1 .. n - 1 : frames'[k] = frames[k]
      /\ \A k \in 1 .. n : frames[k] \in Frame
      /\ Top = frames[n] /\ sp' = frames[n].from /\ bottom' = bottom
  <2>1. frames \in Seq(Frame)
    BY DEF TypeOK, Frame
  <2> QED BY <2>1, PoppedFrames DEF Leave, Top
<1>2. /\ sp \in Nat /\ bottom \in Nat /\ n \in 1 .. n /\ frames[n].from \in Nat
      /\ Critical \in Nat /\ Entry \in Nat /\ MarkRoom \in Nat
      /\ Entry + MarkRoom <= Critical
  BY <1>1, HeapAssumption DEF TypeOK, Frame
<1>3. (\A k \in 1 .. Len(frames) : Covered(frames[k]))'
  <2> SUFFICES ASSUME NEW k \in 1 .. n - 1 PROVE Covered(frames[k])'
    BY <1>1
  <2>1. k \in 1 .. n /\ frames'[k] = frames[k]
    BY <1>1
  <2> QED BY <1>1, <2>1 DEF StackInv, Covered
<1>4. ASSUME NEW j \in 1 .. n - 1
      PROVE  /\ frames[j].base <= frames[n].from /\ frames[j].kind = "call"
             /\ frames[j].from <= frames[j].base
  <2>1. j \in 1 .. n /\ j < n
    BY <1>1
  <2> QED BY <2>1, <1>2 DEF StackInv, Nested
<1>5. ASSUME NEW k \in 1 .. n - 1
      PROVE  frames'[k].from <= frames'[k].base /\ frames'[k].base <= sp'
  BY <1>1, <1>4
<1>6. ASSUME NEW j \in 1 .. n - 1, NEW k \in 1 .. n - 1, j < k
      PROVE  /\ frames'[j].base <= frames'[k].from /\ frames'[j].kind = "call"
             /\ frames'[k].from <= sp'
  <2>1. j \in 1 .. n /\ k \in 1 .. n
    BY <1>1
  <2>2. frames[j].base <= frames[k].from
    BY <1>6, <2>1 DEF StackInv, Nested
  <2>3. frames[k].from <= frames[n].from
    <3>1. /\ frames[k].from \in Nat /\ frames[k].base \in Nat
          /\ frames[k].from <= frames[k].base /\ frames[k].base <= frames[n].from
      BY <1>1, <1>4, <2>1 DEF Frame
    <3> QED BY <3>1, <1>2
  <2> QED BY <1>1, <1>4, <2>2, <2>3
<1>7. ASSUME NEW k \in 1 .. n - 1 - 1
      PROVE  frames'[k + 1].from <= frames'[k].limit
  <2>1. k \in 1 .. n - 1 /\ k + 1 \in 1 .. n - 1
    BY <1>1
  <2> QED BY <1>1, <2>1 DEF StackInv, Nested
<1>8. Nested'
  <2>1. Len(frames') - 1 = n - 1 - 1
    BY <1>1
  <2> HIDE DEF n
  <2> QED BY <1>1, <2>1, <1>5, <1>6, <1>7 DEF Nested
<1>9. CASE n = 1
  <2>1. sp' = 0
    <3>1. frames # <<>>
      BY DEF Leave
    <3> QED BY <1>1, <1>9, <3>1 DEF StackInv, InTop
  <2>2. frames' = <<>>
    BY <1>1, <1>9, PoppedFrames DEF Leave
  <2>3. InTop'
    BY <2>1, <2>2 DEF InTop
  <2>4. Near'
    BY <1>1, <1>2, <2>1 DEF Near
  <2> QED BY <1>3, <1>8, <2>3, <2>4 DEF StackInv
<1>10. CASE n # 1
  <2>1. n - 1 \in 1 .. n - 1 /\ n - 1 \in 1 .. n /\ (n - 1) + 1 = n /\ 1 \in 1 .. n - 1
    BY <1>1, <1>10
  <2>2. /\ frames[n - 1].kind = "call" /\ frames[n].from <= frames[n - 1].limit
        /\ frames[n - 1] \in Frame /\ Covered(frames[n - 1])
    BY <1>1, <1>4, <2>1 DEF StackInv, Nested
  <2>3. Near'
    BY <1>1, <1>2, <2>2, CallIsNear DEF Near
  <2>4. InTop'
    <3>1. Top' = frames[n - 1]
      BY <1>1, <2>1 DEF Top
    <3>2. frames # <<>> /\ frames' # <<>>
      <4>1. Len(frames') # 0
        BY <1>1, <1>10
      <4>2. frames' # <<>>
        BY <4>1
      <4> QED BY <4>2 DEF Leave
    <3>3. frames'[1].from = 0
      BY <1>1, <2>1, <3>2 DEF StackInv, InTop
    <3> QED BY <1>1, <2>2, <3>1, <3>2, <3>3 DEF InTop
  <2> QED BY <1>3, <1>8, <2>3, <2>4 DEF StackInv
<1> QED BY <1>9, <1>10

\* A step within the last call or the parser: of sp and stack_bottom only.
LEMMA MoveStep ==
    ASSUME TypeOK, StackInv, frames # <<>>, UNCHANGED frames,
           sp' \in Nat, Top.base <= sp', bottom' \in Nat,
           Top.kind = "call" => bottom' = bottom /\ sp' <= Top.limit,
           bottom' < bottom => Top.base + Slack <= bottom',
           Top.kind # "call" => sp' + Entry + MarkRoom <= bottom' + Critical
    PROVE  StackInv'
<1> DEFINE n == Len(frames)
<1>1. /\ n \in Nat \ {0} /\ n \in 1 .. n
      /\ \A k \in 1 .. n : frames[k] \in Frame
      /\ Top = frames[n] /\ Top' = Top
  <2>1. frames \in Seq(Frame)
    BY DEF TypeOK, Frame
  <2> QED BY <2>1, PoppedFrames DEF Top
<1>2. bottom \in Nat /\ Slack \in Nat /\ sp \in Nat
  BY HeapAssumption DEF TypeOK
<1>3. ASSUME NEW k \in 1 .. n
      PROVE  /\ frames[k].base \in Nat /\ frames[k].base <= Top.base
             /\ frames[k].from <= frames[k].base /\ frames[k].from <= Top.base
  <2>1. CASE k = n
    BY <1>1, <2>1 DEF StackInv, Nested, Frame
  <2>2. CASE k # n
    <3>1. k < n
      BY <1>1, <2>2
    <3>2. /\ frames[k].base <= frames[n].from /\ frames[n].from <= frames[n].base
          /\ frames[k].from <= frames[k].base
      BY <1>1, <3>1 DEF StackInv, Nested
    <3>3. /\ frames[k].base \in Nat /\ frames[k].from \in Nat
          /\ frames[n].from \in Nat /\ frames[n].base \in Nat
      BY <1>1 DEF Frame
    <3> QED BY <1>1, <3>2, <3>3
  <2> QED BY <2>1, <2>2
<1>4. ASSUME NEW k \in 1 .. n, frames[k].kind = "call"
      PROVE  /\ frames[k].base + Slack <= bottom'
             /\ frames[k].limit + Entry + MarkRoom <= frames[k].base + Slack + Critical
  <2>1. /\ frames[k].base + Slack <= bottom
        /\ frames[k].limit + Entry + MarkRoom <= frames[k].base + Slack + Critical
    BY <1>4 DEF StackInv, Covered
  <2>2. frames[k].base + Slack <= bottom'
    <3>1. Top.base \in Nat /\ frames[k].base \in Nat /\ frames[k].base <= Top.base
      BY <1>1, <1>3 DEF Frame
    <3>2. CASE bottom' < bottom
      BY <1>2, <3>1, <3>2
    <3>3. CASE ~(bottom' < bottom)
      BY <1>2, <2>1, <3>1, <3>3
    <3> QED BY <3>2, <3>3
  <2> QED BY <2>1, <2>2
<1>5. (\A k \in 1 .. Len(frames) : Covered(frames[k]))'
  BY <1>4 DEF Covered
<1>6. ASSUME NEW k \in 1 .. n
      PROVE  frames[k].from <= frames[k].base /\ frames[k].base <= sp' /\ frames[k].from <= sp'
  <2>1. /\ frames[k].base \in Nat /\ frames[k].from \in Nat /\ Top.base \in Nat
        /\ frames[k].base <= Top.base /\ frames[k].from <= Top.base
        /\ frames[k].from <= frames[k].base
    BY <1>1, <1>3 DEF Frame
  <2> QED BY <2>1
<1>7. Nested'
  <2> HIDE DEF n
  <2>1. Len(frames') = Len(frames)
    OBVIOUS
  <2> QED BY <1>6, <2>1 DEF StackInv, Nested, n
<1>8. InTop'
  BY <1>1 DEF StackInv, InTop
<1>9. Near'
  <2>1. CASE Top.kind = "call"
    <3>1. Covered(Top)
      BY <1>1 DEF StackInv
    <3>2. sp' + Entry + MarkRoom <= bottom + Critical
      BY <1>1, <2>1, <3>1, CallIsNear
    <3> QED BY <2>1, <3>2 DEF Near
  <2>2. CASE Top.kind # "call"
    BY <2>2 DEF Near
  <2> QED BY <2>1, <2>2
<1> QED BY <1>5, <1>7, <1>8, <1>9 DEF StackInv

LEMMA SameStack == ASSUME StackInv, UNCHANGED stack PROVE StackInv'
BY DEF stack, StackInv, Covered, Nested, InTop, Near, Top

LEMMA StackStep == ASSUME SmallFrames, HeapInv, StackInv, [Next]_vars PROVE StackInv'
<1>1. /\ TypeOK /\ sp \in Nat /\ bottom \in Nat /\ frames \in Seq(Frame)
      /\ Slack \in Nat /\ Entry \in Nat /\ MarkRoom \in Nat /\ Critical \in Nat
      /\ Entry + MarkRoom <= Critical /\ Needs \subseteq Nat
  BY HeapAssumption DEF HeapInv, TypeOK, Frame
<1>2. CASE UNCHANGED stack
  BY <1>2, SameStack
<1>3. ASSUME NEW e \in 0 .. Entry, NEW len \in Needs, Enter(e, len) PROVE StackInv'
  <2>1. CASE UNCHANGED stack
    BY <2>1, SameStack
  <2>2. CASE /\ bottom' = sp + e + len + Slack /\ frames' = Append(frames, CallFrame(e, len))
             /\ sp' = sp + e
    <3>1. /\ e \in Nat /\ len \in Nat /\ CallFrame(e, len) \in Frame
          /\ CallFrame(e, len).kind = "call" /\ CallFrame(e, len).from = sp
          /\ CallFrame(e, len).base = sp + e /\ CallFrame(e, len).limit = sp + e + len
      BY <1>1 DEF CallFrame, Frame
    <3>2. len + Entry + MarkRoom <= Slack + Critical
      BY DEF SmallFrames
    <3>3. /\ bottom' \in Nat /\ sp <= sp + e /\ sp + e <= sp + e + len
          /\ sp + e + Slack <= bottom'
          /\ sp + e + len + Entry + MarkRoom <= sp + e + Slack + Critical
      BY <1>1, <2>2, <3>1, <3>2
    <3>4. frames # <<>> => Top.kind = "call"
      BY <1>3 DEF Enter, CanEnter
    <3> QED BY <1>1, <2>2, <3>1, <3>3, <3>4, EnterStep
  <2> QED BY <1>3, <2>1, <2>2 DEF Enter, JS_StackCheck
<1>4. CASE JS_PushArg \/ Pop
  <2>1. /\ frames # <<>> /\ UNCHANGED <<bottom, frames>> /\ Top.kind = "call"
        /\ (sp < Top.limit /\ sp' = sp + 1) \/ (sp > Top.base /\ sp' = sp - 1)
    BY <1>4 DEF JS_PushArg, Pop
  <2>2. Top.base \in Nat /\ Top.limit \in Nat /\ Top.base <= sp /\ sp <= Top.limit
    <3>1. Len(frames) \in Nat \ {0} /\ Top \in Frame
      BY <1>1, <2>1, PoppedFrames
    <3>2. Top.base <= sp
      <4>1. Len(frames) \in 1 .. Len(frames)
        BY <3>1
      <4> QED BY <4>1 DEF StackInv, Nested, Top
    <3>3. sp <= Top.limit
      BY <2>1 DEF StackInv, InTop
    <3>4. Top.base \in Nat /\ Top.limit \in Nat
      BY <3>1 DEF Frame
    <3> QED BY <3>2, <3>3, <3>4
  <2>3. sp' \in Nat /\ Top.base <= sp' /\ sp' <= Top.limit
    BY <1>1, <2>1, <2>2
  <2> QED BY <1>1, <2>1, <2>3, MoveStep
<1>5. CASE Leave
  BY <1>1, <1>5, LeaveStep
<1>6. CASE StartParser
  <2>1. /\ frames # <<>> => Top.kind = "call"
        /\ frames' = Append(frames, [kind |-> "parser", from |-> sp, base |-> sp, limit |-> sp])
        /\ sp' = sp /\ bottom' = bottom
    BY <1>6 DEF StartParser, CanEnter
  <2>2. [kind |-> "parser", from |-> sp, base |-> sp, limit |-> sp] \in Frame /\ sp <= sp
    BY <1>1 DEF Frame
  <2> QED BY <1>1, <2>1, <2>2, EnterStep
<1>7. CASE js_parse_push_val
  <2>1. frames # <<>> /\ Top.kind = "parser" /\ Top.base \in Nat /\ Top.base <= sp
    BY <1>1, <1>7, PoppedFrames DEF js_parse_push_val, Frame, StackInv, Nested, Top
  <2>2. CASE UNCHANGED stack
    BY <2>2, SameStack
  <2>3. CASE sp >= bottom /\ bottom' = sp + 0 + 1 + Slack /\ sp' = sp + 1 /\ UNCHANGED frames
    <3>1. /\ sp' \in Nat /\ Top.base <= sp' /\ bottom' \in Nat /\ ~(bottom' < bottom)
          /\ sp' + Entry + MarkRoom <= bottom' + Critical
      BY <1>1, <2>1, <2>3
    <3> QED BY <1>1, <2>1, <2>3, <3>1, MoveStep
  <2>4. CASE ~(sp >= bottom) /\ sp' = sp + 1 /\ UNCHANGED <<bottom, frames>>
    <3>1. /\ sp' \in Nat /\ Top.base <= sp' /\ ~(bottom' < bottom)
          /\ sp' + Entry + MarkRoom <= bottom' + Critical
      BY <1>1, <2>1, <2>4
    <3> QED BY <1>1, <2>1, <2>4, <3>1, MoveStep
  <2> QED BY <1>7, <2>2, <2>3, <2>4 DEF js_parse_push_val, JS_StackCheck
<1>8. CASE js_parse_pop_val
  <2>1. /\ frames # <<>> /\ Top.kind = "parser" /\ Top.base \in Nat /\ Top.base < sp
        /\ sp' = sp - 1 /\ UNCHANGED frames
        /\ bottom' = IF sp - 1 + Slack < bottom THEN sp - 1 + Slack ELSE bottom
    BY <1>1, <1>8, PoppedFrames DEF js_parse_pop_val, Frame
  <2>2. sp + Entry + MarkRoom <= bottom + Critical
    BY DEF StackInv, Near
  <2>3. /\ sp' \in Nat /\ Top.base <= sp' /\ bottom' \in Nat
        /\ bottom' < bottom => Top.base + Slack <= bottom'
        /\ sp' + Entry + MarkRoom <= bottom' + Critical
    BY <1>1, <2>1, <2>2
  <2> QED BY <1>1, <2>1, <2>3, MoveStep
<1>9. (\E size \in Sizes : js_malloc(size) \/ Forget(size) \/ js_free(size))
        \/ ForgetErrors \/ JS_GC \/ UNCHANGED vars => UNCHANGED stack
  BY DEF js_malloc, Forget, js_free, ForgetErrors, JS_GC, stack, vars
<1> QED BY <1>2, <1>3, <1>4, <1>5, <1>6, <1>7, <1>8, <1>9 DEF Next

\* Heap and stack never overlap, and the collector always has its room, for
\* every memory, if the frames are small.  They must be: the README describes
\* what a larger frame does.
THEOREM RoomInvariant == ASSUME SmallFrames PROVE Spec => []RoomToMark
<1>1. Init => StackInv
  BY HeapAssumption DEF Init, StackInv, Nested, InTop, Near
<1>2. HeapInv /\ StackInv /\ [Next]_vars => StackInv'
  BY StackStep
<1>3. HeapInv /\ StackInv => RoomToMark
  BY RoomFromStackInv
<1> QED BY <1>1, <1>2, <1>3, HeapInvariant, PTL DEF Spec

----------------------------------------------------------------------------
(* Typed arrays.  Buffers keep their length, whatever is stored in them,   *)
(* and a view is made within a buffer that was checked or within a view    *)
(* that was.                                                               *)

Listed(s) == s \in Seq({s[i] : i \in DOMAIN s})

ViewSet == [class : Classes, buffer : Nat, offset : Nat, len : Nat]

InBuffer(v, bs) == (v.offset + v.len) * Size[v.class] <= Len(bs[v.buffer])

Placed(v, bs) == v \in ViewSet /\ v.buffer \in 1 .. Len(bs) /\ InBuffer(v, bs)

ViewInv ==
  /\ Listed(buffers)
  /\ \A b \in 1 .. Len(buffers) : Len(buffers[b]) \in Nat
  /\ views \in Seq(ViewSet)
  /\ \A s \in 1 .. Len(views) : Placed(views[s], buffers)

\* A function on 1 .. n is a sequence of n elements.
LEMMA FunctionIsListed ==
  ASSUME NEW n \in Nat, NEW f, f = [i \in 1 .. n |-> f[i]]
  PROVE  Listed(f) /\ Len(f) = n
<1>1. f \in [1 .. n -> {f[i] : i \in DOMAIN f}]
  OBVIOUS
<1> QED
  BY <1>1 DEF Listed

LEMMA SequenceIsListed ==
  ASSUME NEW S, NEW t \in Seq(S)
  PROVE  Listed(t)
<1>1. t = [i \in 1 .. Len(t) |-> t[i]] /\ Len(t) \in Nat
  OBVIOUS
<1> QED
  BY <1>1, FunctionIsListed

\* What a sequence with one more element is.
LEMMA Appended ==
  ASSUME NEW s, NEW x, Listed(s)
  PROVE  /\ Len(s) \in Nat
         /\ Listed(Append(s, x)) /\ Len(Append(s, x)) = Len(s) + 1
         /\ \A i \in 1 .. Len(s) : Append(s, x)[i] = s[i]
         /\ Append(s, x)[Len(s) + 1] = x
<1> DEFINE S == {s[i] : i \in DOMAIN s} \cup {x}
<1>1. s \in Seq(S)
  BY DEF Listed
<1> HIDE DEF S
<1>2. /\ Len(s) \in Nat
      /\ Append(s, x) \in Seq(S) /\ Len(Append(s, x)) = Len(s) + 1
      /\ \A i \in 1 .. Len(s) : Append(s, x)[i] = s[i]
      /\ Append(s, x)[Len(s) + 1] = x
  <2>1. x \in S
    BY DEF S
  <2> QED
    BY <1>1, <2>1
<1>3. Listed(Append(s, x))
  BY <1>2, SequenceIsListed
<1> QED
  BY <1>2, <1>3

\* A buffer is replaced by one of its length.
LEMMA BuffersKept ==
  ASSUME ViewInv, NEW b, NEW bytes,
         buffers' = [buffers EXCEPT ![b] = bytes],
         b \in 1 .. Len(buffers) => Len(bytes) = Len(buffers[b]),
         views' = views
  PROVE  ViewInv'
<1>1. Len(buffers) \in Nat /\ DOMAIN buffers = 1 .. Len(buffers)
  BY DEF ViewInv, Listed
<1>2. buffers' = [i \in 1 .. Len(buffers) |-> buffers'[i]]
  BY <1>1
<1>3. Listed(buffers') /\ Len(buffers') = Len(buffers)
  BY <1>1, <1>2, FunctionIsListed
<1>4. \A i \in 1 .. Len(buffers) : Len(buffers'[i]) = Len(buffers[i])
  BY <1>1
<1>5. ASSUME NEW s \in 1 .. Len(views) PROVE Placed(views'[s], buffers')
  <2>1. Placed(views[s], buffers)
    BY DEF ViewInv
  <2> QED
    BY <2>1, <1>3, <1>4 DEF Placed, InBuffer
<1> QED
  BY <1>3, <1>4, <1>5 DEF ViewInv

\* A buffer is added.
LEMMA BufferAdded ==
  ASSUME ViewInv, NEW len \in Nat, js_array_buffer_alloc(len)
  PROVE  /\ Listed(buffers') /\ Len(buffers') = Len(buffers) + 1
         /\ \A b \in 1 .. Len(buffers') : Len(buffers'[b]) \in Nat
         /\ \A v : Placed(v, buffers) => Placed(v, buffers')
         /\ Len(buffers'[Len(buffers) + 1]) = len
<1> DEFINE bytes == [p \in 1 .. len |-> 0]
<1>1. Len(bytes) = len
  BY FunctionIsListed
<1> HIDE DEF bytes
<1>2. buffers' = Append(buffers, bytes) /\ Listed(buffers)
  BY DEF js_array_buffer_alloc, bytes, ViewInv
<1>3. /\ Len(buffers) \in Nat
      /\ Listed(buffers') /\ Len(buffers') = Len(buffers) + 1
      /\ \A i \in 1 .. Len(buffers) : buffers'[i] = buffers[i]
      /\ buffers'[Len(buffers) + 1] = bytes
  BY <1>2, Appended
<1>4. \A b \in 1 .. Len(buffers') : Len(buffers'[b]) \in Nat
  BY <1>1, <1>3 DEF ViewInv
<1>5. ASSUME NEW v, Placed(v, buffers) PROVE Placed(v, buffers')
  BY <1>3, <1>5 DEF Placed, InBuffer
<1> QED
  BY <1>1, <1>3, <1>4, <1>5

\* A view is added that lies within its buffer.
LEMMA ViewAdded ==
  ASSUME ViewInv, NEW v, views' = Append(views, v), Placed(v, buffers'),
         Listed(buffers'), \A b \in 1 .. Len(buffers') : Len(buffers'[b]) \in Nat,
         \A w : Placed(w, buffers) => Placed(w, buffers')
  PROVE  ViewInv'
<1>1. views \in Seq(ViewSet) /\ v \in ViewSet
  BY DEF ViewInv, Placed
<1>2. /\ views' \in Seq(ViewSet) /\ Len(views') = Len(views) + 1
      /\ \A s \in 1 .. Len(views) : views'[s] = views[s]
      /\ views'[Len(views) + 1] = v
  BY <1>1
<1>3. ASSUME NEW s \in 1 .. Len(views') PROVE Placed(views'[s], buffers')
  <2>1. CASE s = Len(views) + 1
    BY <2>1, <1>2
  <2>2. CASE s # Len(views) + 1
    <3>1. s \in 1 .. Len(views) /\ views'[s] = views[s]
      BY <2>2, <1>1, <1>2
    <3>2. Placed(views[s], buffers) /\ \A w : w = views[s] => Placed(w, buffers')
      BY <3>1 DEF ViewInv
    <3> QED
      BY <3>1, <3>2
  <2> QED
    BY <2>1, <2>2
<1> QED
  BY <1>2, <1>3 DEF ViewInv

\* The arithmetic of sizes: elements of one, two, four or eight bytes.
LEMMA SizeTimes ==
  ASSUME NEW k \in {1, 2, 4, 8}, NEW n \in Nat
  PROVE  n * k \in Nat
OBVIOUS

LEMMA ToTheEnd ==
  ASSUME NEW k \in {1, 2, 4, 8}, NEW size \in Nat, NEW offset \in Nat,
         offset % k = 0, offset <= size, size % k = 0
  PROVE  /\ offset \div k \in Nat /\ (size - offset) \div k \in Nat
         /\ (offset \div k + (size - offset) \div k) * k <= size
<1>1. CASE k = 1
  BY <1>1
<1>2. CASE k = 2
  BY <1>2
<1>3. CASE k = 4
  BY <1>3
<1>4. CASE k = 8
  BY <1>4
<1> QED
  BY <1>1, <1>2, <1>3, <1>4

LEMMA UpTo ==
  ASSUME NEW k \in {1, 2, 4, 8}, NEW size \in Nat, NEW offset \in Nat, NEW len \in Nat,
         offset % k = 0, offset + len * k <= size
  PROVE  offset \div k \in Nat /\ (offset \div k + len) * k <= size
<1>1. CASE k = 1
  BY <1>1
<1>2. CASE k = 2
  BY <1>2
<1>3. CASE k = 4
  BY <1>3
<1>4. CASE k = 8
  BY <1>4
<1> QED
  BY <1>1, <1>2, <1>3, <1>4

LEMMA Within ==
  ASSUME NEW k \in {1, 2, 4, 8}, NEW size \in Nat, NEW m \in Nat, NEW n \in Nat,
         m <= n, n * k <= size
  PROVE  m * k <= size
<1>1. CASE k = 1
  BY <1>1
<1>2. CASE k = 2
  BY <1>2
<1>3. CASE k = 4
  BY <1>3
<1>4. CASE k = 8
  BY <1>4
<1> QED
  BY <1>1, <1>2, <1>3, <1>4

LEMMA PartOf ==
  ASSUME NEW offset \in Nat, NEW start \in Nat, NEW count \in Nat, NEW len \in Nat,
         start + count <= len
  PROVE  /\ (offset + start) + count \in Nat /\ offset + len \in Nat
         /\ (offset + start) + count <= offset + len
OBVIOUS

LEMMA Clamp ==
  ASSUME NEW n \in Int, NEW len \in Nat
  PROVE  JS_ToInt32Clamp(n, len) \in 0 .. len
<1>1. JS_ToInt32(n) \in Int
  BY DEF JS_ToInt32
<1> QED
  BY <1>1 DEF JS_ToInt32Clamp

\* A length that was given.
LEMMA ByLengthStep ==
  ASSUME ViewInv, NEW c \in Classes, NEW n \in Indices,
         ConstructByLength(c, n)
  PROVE  ViewInv'
<1> DEFINE len == JS_ToInt32(n)
<1>1. len \in Int /\ Size[c] \in {1, 2, 4, 8}
  BY TypedArraysAssumption DEF JS_ToInt32
<1>2. CASE IsIndex(n)
  <2>1. len \in Nat
    BY <1>1, <1>2 DEF IsIndex
  <2> DEFINE v == [class |-> c, buffer |-> Len(buffers) + 1, offset |-> 0, len |-> len]
  <2>2. js_array_buffer_alloc(len * Size[c]) /\ views' = Append(views, v)
    BY <1>2 DEF ConstructByLength, NewView
  <2>3. len * Size[c] \in Nat
    BY <1>1, <2>1, SizeTimes
  <2> HIDE DEF len
  <2>4. /\ Listed(buffers') /\ Len(buffers') = Len(buffers) + 1
        /\ \A b \in 1 .. Len(buffers') : Len(buffers'[b]) \in Nat
        /\ \A w : Placed(w, buffers) => Placed(w, buffers')
        /\ Len(buffers'[Len(buffers) + 1]) = len * Size[c]
    BY <2>2, <2>3, BufferAdded
  <2>5. Len(buffers) \in Nat
    BY DEF ViewInv, Listed
  <2>6. Placed(v, buffers')
    <3>1. v \in ViewSet /\ v.buffer \in 1 .. Len(buffers')
      BY <2>1, <2>4, <2>5 DEF ViewSet
    <3>2. (0 + len) * Size[c] <= Len(buffers'[Len(buffers) + 1])
      BY <2>1, <2>3, <2>4
    <3>3. (v.offset + v.len) * Size[v.class] <= Len(buffers'[v.buffer])
      BY <3>2
    <3> QED
      BY <3>1, <3>3 DEF Placed, InBuffer
  <2> HIDE DEF v
  <2> QED
    BY <2>2, <2>4, <2>6, ViewAdded
<1>3. CASE ~IsIndex(n)
  BY <1>3 DEF ConstructByLength, Refuses, ViewInv, Placed, InBuffer
<1> QED
  BY <1>2, <1>3

\* A buffer that is there.
LEMMA OnBufferStep ==
  ASSUME ViewInv, NEW c \in Classes, NEW b \in 1 .. Len(buffers),
         NEW n \in Indices, NEW m \in Indices, NEW toEnd \in BOOLEAN,
         ConstructOnBuffer(c, b, n, toEnd, m)
  PROVE  ViewInv'
<1> DEFINE offset == JS_ToInt32(n)
           size == Len(buffers[b])
           len == IF toEnd THEN (size - offset) \div Size[c] ELSE JS_ToInt32(m)
           fits == IF toEnd THEN size % Size[c] = 0
                            ELSE IsIndex(m) /\ offset + len * Size[c] <= size
           v == [class |-> c, buffer |-> b, offset |-> offset \div Size[c], len |-> len]
<1>1. /\ offset \in Int /\ JS_ToInt32(m) \in Int /\ Size[c] \in {1, 2, 4, 8}
      /\ size \in Nat /\ Len(buffers) \in Nat
  BY TypedArraysAssumption DEF JS_ToInt32, ViewInv, Listed
<1>2. CASE IsIndex(n) /\ IsPlace(c, b, offset) /\ fits
  <2>1. offset \in Nat /\ offset % Size[c] = 0 /\ offset <= size
    BY <1>1, <1>2 DEF IsIndex, IsPlace
  <2>2. views' = Append(views, v) /\ buffers' = buffers
    BY <1>2 DEF ConstructOnBuffer, NewView
  <2>3. /\ len \in Nat /\ offset \div Size[c] \in Nat
        /\ (offset \div Size[c] + len) * Size[c] <= size
    <3>1. CASE toEnd
      <4>1. size % Size[c] = 0 /\ len = (size - offset) \div Size[c]
        BY <3>1, <1>2
      <4> QED
        BY <4>1, <1>1, <2>1, ToTheEnd, ZenonT(40)
    <3>2. CASE ~toEnd
      <4>1. len = JS_ToInt32(m) /\ len \in Nat /\ offset + len * Size[c] <= size
        BY <3>2, <1>1, <1>2 DEF IsIndex
      <4> HIDE DEF len, offset, size
      <4> QED
        BY <4>1, <1>1, <2>1, UpTo
    <3> QED
      BY <3>1, <3>2
  <2> HIDE DEF len, offset
  <2>4. Placed(v, buffers)
    BY <2>3, <1>1 DEF Placed, InBuffer, ViewSet
  <2>5. \A w : Placed(w, buffers) => Placed(w, buffers')
    BY <2>2 DEF Placed, InBuffer
  <2>6. Placed(v, buffers')
    BY <2>2, <2>4 DEF Placed, InBuffer
  <2>7. Listed(buffers') /\ \A x \in 1 .. Len(buffers') : Len(buffers'[x]) \in Nat
    BY <2>2 DEF ViewInv
  <2> HIDE DEF v
  <2> QED
    BY <2>2, <2>5, <2>6, <2>7, ViewAdded
<1>3. CASE ~(IsIndex(n) /\ IsPlace(c, b, offset) /\ fits)
  BY <1>3 DEF ConstructOnBuffer, Refuses, ViewInv, Placed, InBuffer
<1> QED
  BY <1>2, <1>3

\* A view whose elements are copied.
LEMMA OfViewStep ==
  ASSUME ViewInv, NEW c \in Classes, NEW s \in 1 .. Len(views),
         js_typed_array_constructor_obj(c, s)
  PROVE  ViewInv'
<1> DEFINE len == views[s].len
           v == [class |-> c, buffer |-> Len(buffers) + 1, offset |-> 0, len |-> len]
<1>1. len \in Nat /\ Size[c] \in {1, 2, 4, 8} /\ Len(buffers) \in Nat
  BY TypedArraysAssumption DEF ViewInv, Placed, ViewSet, Listed
<1>2. js_array_buffer_alloc(len * Size[c]) /\ views' = Append(views, v)
  BY DEF js_typed_array_constructor_obj, NewView
<1> HIDE DEF len
<1>3. len * Size[c] \in Nat
  BY <1>1, SizeTimes
<1>4. /\ Listed(buffers') /\ Len(buffers') = Len(buffers) + 1
      /\ \A b \in 1 .. Len(buffers') : Len(buffers'[b]) \in Nat
      /\ \A w : Placed(w, buffers) => Placed(w, buffers')
      /\ Len(buffers'[Len(buffers) + 1]) = len * Size[c]
  BY <1>2, <1>3, BufferAdded
<1>5. Placed(v, buffers')
  <2>1. v \in ViewSet /\ v.buffer \in 1 .. Len(buffers')
    BY <1>1, <1>4 DEF ViewSet
  <2>2. (0 + len) * Size[c] <= Len(buffers'[Len(buffers) + 1])
    BY <1>1, <1>3, <1>4
  <2>3. (v.offset + v.len) * Size[v.class] <= Len(buffers'[v.buffer])
    BY <2>2
  <2> QED
    BY <2>1, <2>3 DEF Placed, InBuffer
<1> HIDE DEF v
<1> QED
  BY <1>2, <1>4, <1>5, ViewAdded

\* A part of a view: its end is clamped to the view's, so that it fits for
\* the reason that the view does; the code's own comparison adds nothing.
LEMMA SubarrayStep ==
  ASSUME ViewInv, NEW s \in 1 .. Len(views), NEW n \in Indices,
         NEW m \in Indices, NEW toEnd \in BOOLEAN,
         js_typed_array_subarray(s, n, toEnd, m)
  PROVE  ViewInv'
<1> DEFINE w == views[s]
           start == JS_ToInt32Clamp(n, w.len)
           final == IF toEnd THEN w.len ELSE JS_ToInt32Clamp(m, w.len)
           count == IF final > start THEN final - start ELSE 0
           v == [class |-> w.class, buffer |-> w.buffer, offset |-> w.offset + start,
                 len |-> count]
<1>1. Placed(w, buffers)
  BY DEF ViewInv
<1>2. w.len \in Nat /\ w.offset \in Nat /\ w.class \in Classes /\ n \in Int /\ m \in Int
  BY <1>1, TypedArraysAssumption DEF Placed, ViewSet
<1>3. start \in 0 .. w.len /\ final \in 0 .. w.len
  <2>1. start \in 0 .. w.len
    BY <1>2, Clamp
  <2>2. JS_ToInt32Clamp(m, w.len) \in 0 .. w.len
    BY <1>2, Clamp
  <2>3. w.len \in 0 .. w.len
    BY <1>2
  <2> QED
    BY <2>1, <2>2, <2>3
<1>4. count \in Nat /\ start + count <= w.len
  <2> HIDE DEF w, start, final
  <2> QED
    BY <1>2, <1>3
<1>5. CASE w.offset + start + count > Len(Bytes(w))
  BY <1>5 DEF js_typed_array_subarray, Refuses, ViewInv, Placed, InBuffer
<1>6. CASE ~(w.offset + start + count > Len(Bytes(w)))
  <2>1. views' = Append(views, v) /\ buffers' = buffers
    BY <1>6 DEF js_typed_array_subarray, NewView
  <2>2. Size[w.class] \in {1, 2, 4, 8} /\ Len(buffers[w.buffer]) \in Nat
    BY <1>1, <1>2, TypedArraysAssumption DEF Placed, ViewInv
  <2> HIDE DEF start, final, count, w
  <2>3. ((w.offset + start) + count) * Size[w.class] <= Len(buffers[w.buffer])
    <3> DEFINE x == (w.offset + start) + count
               y == w.offset + w.len
    <3>1. x \in Nat /\ y \in Nat /\ x <= y
      <4>1. start \in Nat /\ w.len \in Nat
        BY <1>2, <1>3
      <4> QED
        BY <4>1, <1>2, <1>4, PartOf
    <3>2. y * Size[w.class] <= Len(buffers[w.buffer])
      BY <1>1 DEF Placed, InBuffer
    <3> HIDE DEF x, y
    <3>3. x * Size[w.class] <= Len(buffers[w.buffer])
      BY <3>1, <3>2, <2>2, Within
    <3> QED
      BY <3>3 DEF x
  <2>4. Placed(v, buffers)
    <3>1. v \in ViewSet /\ v.buffer \in 1 .. Len(buffers)
      BY <1>1, <1>2, <1>3, <1>4 DEF Placed, ViewSet
    <3> QED
      BY <3>1, <2>3 DEF Placed, InBuffer
  <2>5. \A x : Placed(x, buffers) => Placed(x, buffers')
    BY <2>1 DEF Placed, InBuffer
  <2>6. Placed(v, buffers')
    BY <2>1, <2>4 DEF Placed, InBuffer, w
  <2>7. Listed(buffers') /\ \A x \in 1 .. Len(buffers') : Len(buffers'[x]) \in Nat
    BY <2>1 DEF ViewInv
  <2> HIDE DEF v
  <2> QED
    BY <2>1, <2>5, <2>6, <2>7, ViewAdded
<1> QED
  BY <1>5, <1>6

\* Copies and stores keep every length; the other calls change nothing.
LEMMA StoreStep ==
  ASSUME ViewInv, NEW b, NEW v, NEW i, NEW x,
         buffers' = [buffers EXCEPT ![b] = WithElement(@, v, i, x)], views' = views
  PROVE  ViewInv'
<1> DEFINE bytes == WithElement(buffers[b], v, i, x)
<1>1. b \in 1 .. Len(buffers) => Len(bytes) = Len(buffers[b])
  <2>1. SUFFICES ASSUME b \in 1 .. Len(buffers) PROVE Len(bytes) = Len(buffers[b])
    OBVIOUS
  <2>2. Len(buffers[b]) \in Nat
    BY <2>1 DEF ViewInv
  <2>3. bytes = [p \in 1 .. Len(buffers[b]) |-> bytes[p]]
    BY DEF WithElement
  <2> HIDE DEF bytes
  <2> QED
    BY <2>2, <2>3, FunctionIsListed
<1>2. buffers' = [buffers EXCEPT ![b] = bytes]
  OBVIOUS
<1> HIDE DEF bytes
<1> QED
  BY <1>1, <1>2, BuffersKept

LEMMA SetStep ==
  ASSUME ViewInv, NEW d \in 1 .. Len(views), NEW s \in 1 .. Len(views), NEW n \in Indices,
         js_typed_array_set(d, s, n)
  PROVE  ViewInv'
<1> DEFINE offset == JS_ToInt32(n)
           dst == views[d]
           src == views[s]
           bytes == Moved(dst, src, offset)
<1>1. CASE buffers' = [buffers EXCEPT ![dst.buffer] = bytes] /\ views' = views
  <2>1. Len(buffers[dst.buffer]) \in Nat
    BY DEF ViewInv, Placed
  <2>2. bytes = [p \in 1 .. Len(buffers[dst.buffer]) |-> bytes[p]]
    BY DEF Moved, Bytes
  <2> HIDE DEF bytes
  <2>3. Len(bytes) = Len(buffers[dst.buffer])
    BY <2>1, <2>2, FunctionIsListed
  <2> QED
    BY <1>1, <2>3, BuffersKept
<1>2. CASE UNCHANGED <<buffers, views>>
  BY <1>2 DEF ViewInv, Placed, InBuffer
<1> QED
  BY <1>1, <1>2 DEF js_typed_array_set, Refuses

LEMMA CopyStep ==
  ASSUME ViewInv, CopyElement
  PROVE  ViewInv'
<1>1. CASE UNCHANGED <<buffers, views>>
  BY <1>1 DEF ViewInv, Placed, InBuffer
<1>2. CASE ~UNCHANGED <<buffers, views>>
  <2> DEFINE dst == views[job.dst]
             src == views[job.src]
             at == job.offset + job.next
             x == Element(Bytes(src), src, job.next)
  <2>1. /\ buffers' = [buffers EXCEPT ![dst.buffer] = WithElement(@, dst, at, x)]
        /\ views' = views
    BY <1>2 DEF CopyElement
  <2> HIDE DEF dst, at, x
  <2> QED
    BY <2>1, StoreStep
<1> QED
  BY <1>1, <1>2

LEMMA NewBufferStep ==
  ASSUME ViewInv, NEW n \in Indices, js_array_buffer_constructor(n)
  PROVE  ViewInv'
<1>1. CASE IsIndex(n)
  <2>1. JS_ToInt32(n) \in Nat
    BY <1>1, TypedArraysAssumption DEF IsIndex, JS_ToInt32
  <2>2. js_array_buffer_alloc(JS_ToInt32(n)) /\ views' = views
    BY <1>1 DEF js_array_buffer_constructor
  <2>3. /\ Listed(buffers') /\ \A b \in 1 .. Len(buffers') : Len(buffers'[b]) \in Nat
        /\ \A w : Placed(w, buffers) => Placed(w, buffers')
    BY <2>1, <2>2, BufferAdded
  <2> QED
    BY <2>2, <2>3 DEF ViewInv
<1>2. CASE ~IsIndex(n)
  BY <1>2 DEF js_array_buffer_constructor, Refuses, ViewInv, Placed, InBuffer
<1> QED
  BY <1>1, <1>2

\* No view reaches beyond the end of its buffer, whatever offsets and lengths
\* it and the views it was made of were asked for: elements are read and
\* written with no other check than the view's length.
THEOREM ViewsStayWithin ==
  TypedSpec => []ViewsWithinBuffer
<1>1. TypedInit => ViewInv
  BY SequenceIsListed DEF TypedInit, ViewInv, Listed
<1>2. ViewInv /\ [TypedNext]_typedVars => ViewInv'
  <2> SUFFICES ASSUME ViewInv, [TypedNext]_typedVars PROVE ViewInv'
    OBVIOUS
  <2>1. ASSUME NEW s \in 1 .. Len(views), NEW i, GetElement(s, i) PROVE ViewInv'
    BY <2>1 DEF GetElement, ViewInv, Placed, InBuffer
  <2>2. ASSUME NEW s \in 1 .. Len(views), NEW i, NEW n \in Numbers, SetElement(s, i, n)
        PROVE  ViewInv'
    <3>1. CASE UNCHANGED <<buffers, views>>
      BY <3>1 DEF ViewInv, Placed, InBuffer
    <3>2. CASE ~UNCHANGED <<buffers, views>>
      BY <2>2, <3>2, StoreStep DEF SetElement, Refuses
    <3> QED
      BY <3>1, <3>2
  <2>3. UNCHANGED typedVars => ViewInv'
    BY DEF typedVars, ViewInv, Placed, InBuffer
  <2> QED
    BY <2>1, <2>2, <2>3, NewBufferStep, ByLengthStep, OnBufferStep, OfViewStep, SubarrayStep,
       SetStep, CopyStep DEF TypedNext
<1>3. ViewInv => ViewsWithinBuffer
  BY DEF ViewInv, Placed, InBuffer, ViewsWithinBuffer, Bytes
<1> QED
  BY <1>1, <1>2, <1>3, PTL DEF TypedSpec
=============================================================================
