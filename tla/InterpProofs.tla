---------------------------- MODULE InterpProofs ----------------------------
(***************************************************************************)
(* Theorems about the loop of JS_Call, for every program that is whole and *)
(* every limit of gas, recursion and stack: the count of nested calls is   *)
(* right on every way out, an exception always has a value, and what was   *)
(* interrupted is not taken up again.                                      *)
(*                                                                         *)
(* The argument is about the stack of frames.  Only its top is ever in     *)
(* motion: every frame below waits at an instruction another one follows,  *)
(* and every builtin lies on the function that called it.                  *)
(***************************************************************************)
EXTENDS Interp, FiniteSetTheorems, TLAPS

\* The frames of a program.
JsFrames(program) ==
    {fr \in [kind : {"js"}, fn : DOMAIN program, pc : Nat, catch : Seq(Nat)] :
        /\ fr.pc \in 1 .. Len(program[fr.fn])
        /\ \A i \in DOMAIN fr.catch : fr.catch[i] \in 1 .. Len(program[fr.fn])}

BuiltinFrames(program) == [kind : {"builtin"}, fn : DOMAIN program, left : Nat, sorts : BOOLEAN]

Frames(program) == JsFrames(program) \cup BuiltinFrames(program) \cup {Host}

\* An instruction follows the one the frame is at.
Resumable(program, fr) == program[fr.fn][fr.pc].op \notin {"return", "throw", "goto"}

\* A stack with the host at the bottom.
Sound(program, s) ==
    /\ s \in Seq(Frames(program)) /\ Len(s) \in 1 .. MaxLevels
    /\ s[1] = Host
    /\ \A k \in 2 .. Len(s) : s[k].kind # "host"
    /\ \A k \in 2 .. Len(s) : s[k].kind = "builtin" => s[k - 1].kind = "js"
    /\ \A k \in 2 .. Len(s) - 1 : s[k].kind = "js" => Resumable(program, s[k])

Outer(s) == {k \in DOMAIN s : s[k].kind \in {"host", "builtin"}}
Nested(s) == Cardinality(Outer(s))

Typed ==
    /\ code \in Programs /\ Sound(code, callFrames)
    /\ mode \in {"run", "exception", "return", "builtin", "done"}
    /\ val \in {"plain", "call", "exception"}
    /\ thrown \in {"none", "error", "gas", "interrupted", "memory", "recursion", "unthrown"}
    /\ uncatchable \in BOOLEAN
    /\ tail \in DOMAIN code
    /\ gas \in 0 .. GasLimit /\ counter \in 0 .. PollEvery

\* What is on top.  Where a tail call is made, an instruction follows; or
\* there is no gas to make it.
Control ==
    /\ mode \in {"run", "exception", "return"} => Len(callFrames) >= 2 /\ Current.kind = "js"
    /\ mode = "builtin" => Len(callFrames) >= 2 /\ Current.kind = "builtin"
    /\ mode = "done" => Len(callFrames) = 1
    /\ mode = "exception" /\ val = "call" => Resumable(code, Current) \/ OutOfGas

Counted == rec = Nested(callFrames) - (IF mode \in {"builtin", "done"} THEN 1 ELSE 0)

\* What runs after an interruption has been swallowed is not an exception.
Final == mode = "run" /\ uncatchable => val # "exception"

IInv == Typed /\ Control /\ Counted /\ ExceptionIsPending /\ Final

----------------------------------------------------------------------------
(* Stacks.                                                                 *)

LEMMA OuterFinite ==
    ASSUME NEW S, NEW s \in Seq(S)
    PROVE  IsFiniteSet(Outer(s)) /\ Nested(s) \in Nat
<1>1. DOMAIN s = 1 .. Len(s) /\ Len(s) \in Nat
  OBVIOUS
<1>2. IsFiniteSet(1 .. Len(s))
  BY <1>1, FS_Interval
<1>3. Outer(s) \subseteq 1 .. Len(s)
  BY <1>1 DEF Outer
<1>4. IsFiniteSet(Outer(s))
  BY <1>2, <1>3, FS_Subset
<1> QED BY <1>4, FS_CardinalityType DEF Nested

\* A frame is put on a stack whose top waits.
LEMMA Pushed ==
    ASSUME NEW program, NEW s, Sound(program, s), Len(s) < MaxLevels,
           NEW fr \in JsFrames(program) \cup BuiltinFrames(program),
           s[Len(s)].kind = "js" => Resumable(program, s[Len(s)]),
           fr.kind = "builtin" => s[Len(s)].kind = "js"
    PROVE  /\ Sound(program, Append(s, fr))
           /\ Len(Append(s, fr)) = Len(s) + 1
           /\ Len(Append(s, fr)) >= 2
           /\ Append(s, fr)[Len(Append(s, fr))] = fr
           /\ Nested(Append(s, fr)) = Nested(s) + (IF fr.kind = "builtin" THEN 1 ELSE 0)
<1> DEFINE t == Append(s, fr)
<1>1. /\ s \in Seq(Frames(program)) /\ Len(s) \in 1 .. MaxLevels
      /\ s[1] = Host
      /\ \A k \in 2 .. Len(s) : s[k].kind # "host"
      /\ \A k \in 2 .. Len(s) : s[k].kind = "builtin" => s[k - 1].kind = "js"
      /\ \A k \in 2 .. Len(s) - 1 : s[k].kind = "js" => Resumable(program, s[k])
  BY DEF Sound
<1>2. fr \in Frames(program) /\ fr.kind \in {"js", "builtin"}
  BY DEF Frames, JsFrames, BuiltinFrames
<1>3. /\ t \in Seq(Frames(program)) /\ Len(t) = Len(s) + 1 /\ t[Len(s) + 1] = fr
      /\ \A k \in 1 .. Len(s) : t[k] = s[k]
      /\ Len(s) \in Nat
  BY <1>1, <1>2
<1>4. Sound(program, t)
  <2> HIDE DEF t
  <2>1. Len(t) \in 1 .. MaxLevels /\ t[1] = Host
    BY <1>1, <1>3, InterpAssumption
  <2>2. \A k \in 2 .. Len(t) : t[k].kind # "host"
    BY <1>1, <1>2, <1>3
  <2>3. \A k \in 2 .. Len(t) : t[k].kind = "builtin" => t[k - 1].kind = "js"
    <3> SUFFICES ASSUME NEW k \in 2 .. Len(t), t[k].kind = "builtin" PROVE t[k - 1].kind = "js"
      OBVIOUS
    <3>1. CASE k = Len(s) + 1
      <4>1. k - 1 = Len(s) /\ t[k - 1] = s[Len(s)]
        BY <3>1, <1>1, <1>3
      <4> QED BY <3>1, <4>1, <1>3
    <3>2. CASE k # Len(s) + 1
      <4>1. k \in 2 .. Len(s) /\ k - 1 \in 1 .. Len(s)
        BY <3>2, <1>3
      <4> QED BY <4>1, <1>1, <1>3
    <3> QED BY <3>1, <3>2
  <2>4. \A k \in 2 .. Len(t) - 1 : t[k].kind = "js" => Resumable(program, t[k])
    <3> SUFFICES ASSUME NEW k \in 2 .. Len(t) - 1, t[k].kind = "js" PROVE Resumable(program, t[k])
      OBVIOUS
    <3>1. k \in 1 .. Len(s) /\ t[k] = s[k]
      BY <1>3
    <3>2. CASE k = Len(s)
      BY <3>1, <3>2
    <3>3. CASE k # Len(s)
      <4>1. k \in 2 .. Len(s) - 1
        BY <3>1, <3>3
      <4> QED BY <3>1, <4>1, <1>1
    <3> QED BY <3>2, <3>3
  <2> QED BY <1>3, <2>1, <2>2, <2>3, <2>4 DEF Sound
<1>5. IsFiniteSet(Outer(s)) /\ Nested(s) \in Nat
  BY <1>1, OuterFinite
<1>6. Outer(t) = IF fr.kind = "builtin" THEN Outer(s) \cup {Len(s) + 1} ELSE Outer(s)
  <2>1. DOMAIN t = 1 .. Len(s) + 1 /\ DOMAIN s = 1 .. Len(s)
    BY <1>1, <1>3
  <2> HIDE DEF t
  <2> QED BY <2>1, <1>2, <1>3 DEF Outer
<1>7. Len(s) + 1 \notin Outer(s)
  BY <1>1, <1>3 DEF Outer
<1>8. Nested(t) = Nested(s) + (IF fr.kind = "builtin" THEN 1 ELSE 0)
  <2> HIDE DEF t
  <2>1. Cardinality(Outer(s) \cup {Len(s) + 1}) = Cardinality(Outer(s)) + 1
    BY <1>5, <1>7, FS_AddElement
  <2> QED BY <2>1, <1>5, <1>6 DEF Nested
<1> QED BY <1>1, <1>3, <1>4, <1>8

\* The top frame is left.
LEMMA PoppedStack ==
    ASSUME NEW program, NEW s, Sound(program, s), Len(s) >= 2
    PROVE  /\ Sound(program, Front(s))
           /\ Len(Front(s)) = Len(s) - 1
           /\ \A k \in 1 .. Len(s) - 1 : Front(s)[k] = s[k]
           /\ Nested(Front(s)) = Nested(s) - (IF s[Len(s)].kind = "builtin" THEN 1 ELSE 0)
<1> DEFINE t == Front(s)
<1>1. /\ s \in Seq(Frames(program)) /\ Len(s) \in 1 .. MaxLevels
      /\ s[1] = Host
      /\ \A k \in 2 .. Len(s) : s[k].kind # "host"
      /\ \A k \in 2 .. Len(s) : s[k].kind = "builtin" => s[k - 1].kind = "js"
      /\ \A k \in 2 .. Len(s) - 1 : s[k].kind = "js" => Resumable(program, s[k])
  BY DEF Sound
<1>2. /\ t \in Seq(Frames(program)) /\ Len(t) = Len(s) - 1
      /\ \A k \in 1 .. Len(s) - 1 : t[k] = s[k]
      /\ Len(s) \in Nat
  BY <1>1 DEF Front
<1> HIDE DEF t
<1>3. Sound(program, t)
  <2>1. Len(t) \in 1 .. MaxLevels
    BY <1>1, <1>2, InterpAssumption
  <2>2. t[1] = Host
    BY <1>1, <1>2
  <2>3. ASSUME NEW k \in 2 .. Len(t)
        PROVE  /\ t[k].kind # "host"
               /\ t[k].kind = "builtin" => t[k - 1].kind = "js"
               /\ t[k].kind = "js" => Resumable(program, t[k])
    <3>1. k \in 2 .. Len(s) /\ k \in 2 .. Len(s) - 1 /\ t[k] = s[k] /\ t[k - 1] = s[k - 1]
      BY <1>2
    <3> QED BY <1>1, <3>1
  <2>4. \A k \in 2 .. Len(t) - 1 : k \in 2 .. Len(t)
    BY <1>2
  <2> QED BY <1>2, <2>1, <2>2, <2>3, <2>4 DEF Sound
<1>4. IsFiniteSet(Outer(s)) /\ Nested(s) \in Nat /\ IsFiniteSet(Outer(t)) /\ Nested(t) \in Nat
  BY <1>1, <1>2, OuterFinite
<1>5. DOMAIN t = 1 .. Len(s) - 1 /\ DOMAIN s = 1 .. Len(s)
  BY <1>1, <1>2
<1>6. Outer(s) = IF s[Len(s)].kind = "builtin" THEN Outer(t) \cup {Len(s)} ELSE Outer(t)
  BY <1>1, <1>2, <1>5 DEF Outer
<1>7. Len(s) \notin Outer(t)
  BY <1>2, <1>5 DEF Outer
<1>8. Nested(s) = Nested(t) + (IF s[Len(s)].kind = "builtin" THEN 1 ELSE 0)
  BY <1>4, <1>6, <1>7, FS_AddElement DEF Nested
<1>9. Nested(t) = Nested(s) - (IF s[Len(s)].kind = "builtin" THEN 1 ELSE 0)
  BY <1>4, <1>8
<1> QED BY <1>2, <1>3, <1>9 DEF t

\* The top frame moves.
LEMMA Moved ==
    ASSUME NEW program, NEW s, Sound(program, s), Len(s) >= 2,
           NEW fr \in JsFrames(program) \cup BuiltinFrames(program), fr.kind = s[Len(s)].kind
    PROVE  /\ Sound(program, [s EXCEPT ![Len(s)] = fr])
           /\ Len([s EXCEPT ![Len(s)] = fr]) = Len(s)
           /\ [s EXCEPT ![Len(s)] = fr][Len(s)] = fr
           /\ Nested([s EXCEPT ![Len(s)] = fr]) = Nested(s)
<1> DEFINE t == [s EXCEPT ![Len(s)] = fr]
<1>1. /\ s \in Seq(Frames(program)) /\ Len(s) \in 1 .. MaxLevels
      /\ s[1] = Host
      /\ \A k \in 2 .. Len(s) : s[k].kind # "host"
      /\ \A k \in 2 .. Len(s) : s[k].kind = "builtin" => s[k - 1].kind = "js"
      /\ \A k \in 2 .. Len(s) - 1 : s[k].kind = "js" => Resumable(program, s[k])
  BY DEF Sound
<1>2. fr \in Frames(program)
  BY DEF Frames
<1>3. /\ t \in Seq(Frames(program)) /\ Len(t) = Len(s) /\ t[Len(s)] = fr
      /\ \A k \in 1 .. Len(s) - 1 : t[k] = s[k]
      /\ Len(s) \in Nat /\ DOMAIN t = 1 .. Len(s) /\ DOMAIN s = 1 .. Len(s)
  BY <1>1, <1>2
<1> HIDE DEF t
<1>4. \A k \in 1 .. Len(s) : t[k].kind = s[k].kind
  BY <1>3
<1>5. \A k \in 2 .. Len(t) : t[k].kind = "builtin" => t[k - 1].kind = "js"
  <2> SUFFICES ASSUME NEW k \in 2 .. Len(t), t[k].kind = "builtin" PROVE t[k - 1].kind = "js"
    OBVIOUS
  <2>1. k \in 2 .. Len(s) /\ k - 1 \in 1 .. Len(s) /\ k \in 1 .. Len(s)
    BY <1>3
  <2> QED BY <2>1, <1>1, <1>4
<1>6. Sound(program, t)
  <2>1. \A k \in 2 .. Len(t) : t[k].kind # "host"
    BY <1>1, <1>3, <1>4
  <2>2. t[1] = Host
    BY <1>1, <1>3
  <2>3. \A k \in 2 .. Len(t) - 1 : t[k].kind = "js" => Resumable(program, t[k])
    BY <1>1, <1>3
  <2> QED BY <1>1, <1>3, <1>5, <2>1, <2>2, <2>3 DEF Sound
<1>7. Outer(t) = Outer(s)
  BY <1>3, <1>4 DEF Outer
<1> QED BY <1>3, <1>6, <1>7 DEF t, Nested

----------------------------------------------------------------------------
(* Frames and instructions.                                                *)

LEMMA InstructionIs ==
    ASSUME NEW program \in Programs, NEW fr \in JsFrames(program)
    PROVE  /\ fr.fn \in DOMAIN program /\ fr.pc \in 1 .. Len(program[fr.fn])
           /\ Len(program[fr.fn]) \in Nat \ {0}
           /\ Emitted(program, fr.fn, fr.pc)
<1>1. fr.fn \in DOMAIN program /\ fr.pc \in 1 .. Len(program[fr.fn])
  BY DEF JsFrames
<1> QED BY <1>1, InterpAssumption

\* The frame a function starts with.
LEMMA FirstFrame ==
    ASSUME NEW program \in Programs, NEW f \in DOMAIN program
    PROVE  Frame(f) \in JsFrames(program) /\ Frame(f).kind = "js"
<1>1. Len(program[f]) \in Nat \ {0}
  BY InterpAssumption
<1>2. 1 \in 1 .. Len(program[f]) /\ <<>> \in Seq(Nat)
  BY <1>1
<1> QED BY <1>2 DEF Frame, JsFrames

\* A frame that waits goes on.
LEMMA NextFrame ==
    ASSUME NEW program \in Programs, NEW fr \in JsFrames(program), Resumable(program, fr)
    PROVE  NextPc(fr) \in JsFrames(program) /\ NextPc(fr).kind = "js"
<1>1. /\ fr.fn \in DOMAIN program /\ fr.pc \in 1 .. Len(program[fr.fn])
      /\ Len(program[fr.fn]) \in Nat \ {0}
      /\ Emitted(program, fr.fn, fr.pc)
  BY InstructionIs
<1>2. fr.pc # Len(program[fr.fn])
  BY <1>1 DEF Emitted, Resumable
<1>3. fr.pc + 1 \in 1 .. Len(program[fr.fn])
  BY <1>1, <1>2
<1>4. fr \in [kind : {"js"}, fn : DOMAIN program, pc : Nat, catch : Seq(Nat)]
  BY DEF JsFrames
<1>5. /\ NextPc(fr) = [kind |-> "js", fn |-> fr.fn, pc |-> fr.pc + 1, catch |-> fr.catch]
  BY <1>4 DEF NextPc
<1>6. \A i \in DOMAIN fr.catch : fr.catch[i] \in 1 .. Len(program[fr.fn])
  BY DEF JsFrames
<1> QED BY <1>3, <1>4, <1>5, <1>6 DEF JsFrames

\* A frame somewhere else in its function, with other handlers.
LEMMA FrameAt ==
    ASSUME NEW program \in Programs, NEW fr \in JsFrames(program),
           NEW l \in 1 .. Len(program[fr.fn]), NEW c \in Seq(Nat),
           \A i \in DOMAIN c : c[i] \in 1 .. Len(program[fr.fn])
    PROVE  /\ [fr EXCEPT !.pc = l, !.catch = c] \in JsFrames(program)
           /\ [fr EXCEPT !.pc = l, !.catch = c].kind = "js"
<1>1. fr \in [kind : {"js"}, fn : DOMAIN program, pc : Nat, catch : Seq(Nat)]
  BY DEF JsFrames
<1>2. l \in Nat
  BY InstructionIs
<1>3. /\ [fr EXCEPT !.pc = l, !.catch = c] \in [kind : {"js"}, fn : DOMAIN program, pc : Nat, catch : Seq(Nat)]
      /\ [fr EXCEPT !.pc = l, !.catch = c].fn = fr.fn
      /\ [fr EXCEPT !.pc = l, !.catch = c].pc = l
      /\ [fr EXCEPT !.pc = l, !.catch = c].catch = c
  BY <1>1, <1>2
<1> QED BY <1>3 DEF JsFrames

\* What the frame on top is, and where it is.
LEMMA CurrentIs ==
    ASSUME IInv, mode \in {"run", "exception", "return"}
    PROVE  /\ Current \in JsFrames(code) /\ Current.kind = "js"
           /\ Current = callFrames[Len(callFrames)] /\ Len(callFrames) >= 2
           /\ code \in Programs /\ Sound(code, callFrames)
           /\ Emitted(code, Current.fn, Current.pc)
<1>1. code \in Programs /\ Sound(code, callFrames)
  BY DEF IInv, Typed
<1>2. Len(callFrames) >= 2 /\ Current.kind = "js"
  BY DEF IInv, Control
<1>3. Len(callFrames) \in Nat /\ callFrames \in Seq(Frames(code))
  BY <1>1 DEF Sound
<1>4. Current \in Frames(code)
  BY <1>2, <1>3 DEF Current
<1>5. Current \in JsFrames(code)
  BY <1>2, <1>4 DEF Frames, BuiltinFrames, Host
<1> QED BY <1>1, <1>2, <1>5, InstructionIs DEF Current

----------------------------------------------------------------------------
(* Steps.                                                                  *)

\* A step that leaves the frames as they are and the control within JS_Call.
LEMMA SameFrames ==
    ASSUME IInv, UNCHANGED <<code, callFrames, tail, rec>>,
           mode \in {"run", "exception"}, mode' \in {"exception", "return"},
           val' \in {"plain", "call", "exception"},
           mode' = "exception" /\ val' = "call" => Resumable(code, Current) \/ OutOfGas',
           thrown' \in {"none", "error", "gas", "interrupted", "memory", "recursion", "unthrown"},
           gas' \in 0 .. GasLimit, counter' \in 0 .. PollEvery,
           uncatchable' \in BOOLEAN,
           val' = "exception" => thrown' # "none"
    PROVE  IInv'
<1>1. code' = code /\ callFrames' = callFrames /\ tail' = tail /\ rec' = rec
  OBVIOUS
<1>2. Typed'
  <2>1. code \in Programs /\ Sound(code, callFrames) /\ tail \in DOMAIN code
    BY DEF IInv, Typed
  <2>2. mode' \in {"run", "exception", "return", "builtin", "done"}
    OBVIOUS
  <2> QED BY <1>1, <2>1, <2>2 DEF Typed
<1>3. Control'
  BY <1>1 DEF IInv, Control, Current
<1>4. Counted'
  BY <1>1 DEF IInv, Counted
<1>5. ExceptionIsPending' /\ Final'
  BY DEF ExceptionIsPending, Final
<1> QED BY <1>2, <1>3, <1>4, <1>5 DEF IInv

\* A step after which the frame on top runs, from elsewhere in its function.
LEMMA MovesOn ==
    ASSUME IInv, mode \in {"run", "exception"}, mode' = "run", val' = "exception" => ~uncatchable,
           NEW fr \in JsFrames(code), callFrames' = WithTop(fr),
           UNCHANGED <<code, tail, rec, uncatchable>>,
           val' \in {"plain", "call", "exception"},
           thrown' \in {"none", "error", "gas", "interrupted", "memory", "recursion", "unthrown"},
           gas' \in 0 .. GasLimit, counter' \in 0 .. PollEvery
    PROVE  IInv'
<1>1. code' = code /\ mode' = "run" /\ tail' = tail /\ rec' = rec /\ uncatchable' = uncatchable
  OBVIOUS
<1>2. /\ Current.kind = "js" /\ Current = callFrames[Len(callFrames)]
      /\ Len(callFrames) >= 2 /\ code \in Programs /\ Sound(code, callFrames)
  BY CurrentIs
<1>3. fr.kind = "js"
  BY DEF JsFrames
<1>4. /\ Sound(code, callFrames') /\ Len(callFrames') = Len(callFrames)
      /\ callFrames'[Len(callFrames)] = fr /\ Nested(callFrames') = Nested(callFrames)
  <2>1. callFrames' = [callFrames EXCEPT ![Len(callFrames)] = fr]
    BY DEF WithTop
  <2>2. fr \in JsFrames(code) \cup BuiltinFrames(code) /\ fr.kind = callFrames[Len(callFrames)].kind
    BY <1>2, <1>3
  <2>3. /\ Sound(code, [callFrames EXCEPT ![Len(callFrames)] = fr])
        /\ Len([callFrames EXCEPT ![Len(callFrames)] = fr]) = Len(callFrames)
        /\ [callFrames EXCEPT ![Len(callFrames)] = fr][Len(callFrames)] = fr
        /\ Nested([callFrames EXCEPT ![Len(callFrames)] = fr]) = Nested(callFrames)
    BY <1>2, <2>2, Moved
  <2> QED BY <2>1, <2>3
<1>5. Typed'
  <2>1. uncatchable \in BOOLEAN /\ tail \in DOMAIN code
    BY DEF IInv, Typed
  <2> QED BY <1>1, <1>2, <1>4, <2>1 DEF Typed
<1>6. Control'
  BY <1>1, <1>2, <1>3, <1>4 DEF Control, Current
<1>7. Counted'
  BY <1>1, <1>4 DEF IInv, Counted
<1>8. ExceptionIsPending' /\ Final'
  BY <1>1 DEF IInv, ExceptionIsPending, Final
<1> QED BY <1>5, <1>6, <1>7, <1>8 DEF IInv

\* A poll counts one unit of gas.
LEMMA Ticks ==
    ASSUME IInv, ~OutOfGas, gas' = gas + 1,
           counter' = IF counter <= 1 THEN PollEvery ELSE counter - 1
    PROVE  gas' \in 0 .. GasLimit /\ counter' \in 0 .. PollEvery
<1>1. gas \in 0 .. GasLimit /\ counter \in 0 .. PollEvery
  BY DEF IInv, Typed
<1>2. GasLimit \in Nat /\ PollEvery \in Nat \ {0}
  BY InterpAssumption
<1> QED BY <1>1, <1>2 DEF OutOfGas

\* A poll that does not let the loop go on.
LEMMA PollStops ==
    ASSUME IInv, mode \in {"run", "exception"}, UNCHANGED <<code, callFrames, tail, rec>>,
           mode' = "exception",
           \/ OutOfGas /\ Throw("gas") /\ UNCHANGED <<val, gas, counter>>
           \/ /\ gas' \in 0 .. GasLimit /\ counter' \in 0 .. PollEvery
              /\ thrown' = "interrupted" /\ uncatchable' = TRUE /\ val' = "exception"
    PROVE  IInv'
<1>1. /\ val \in {"plain", "call", "exception"}
      /\ gas \in 0 .. GasLimit /\ counter \in 0 .. PollEvery
  BY DEF IInv, Typed
<1>2. CASE OutOfGas /\ Throw("gas") /\ UNCHANGED <<val, gas, counter>>
  <2>1. thrown' = "gas" /\ uncatchable' = FALSE
    BY <1>2 DEF Throw
  <2>2. OutOfGas'
    BY <1>2 DEF OutOfGas
  <2>3. val' \in {"plain", "call", "exception"} /\ gas' \in 0 .. GasLimit /\ counter' \in 0 .. PollEvery
    BY <1>1, <1>2
  <2> QED BY <2>1, <2>2, <2>3, SameFrames
<1>3. CASE /\ gas' \in 0 .. GasLimit /\ counter' \in 0 .. PollEvery
           /\ thrown' = "interrupted" /\ uncatchable' = TRUE /\ val' = "exception"
  BY <1>3, SameFrames
<1> QED BY <1>2, <1>3

\* A frame is entered, or there is no room for it.
LEMMA Enters ==
    ASSUME IInv, mode \in {"run", "exception"}, val = "exception" => ~uncatchable,
           Resumable(code, Current),
           NEW fr \in JsFrames(code) \cup BuiltinFrames(code), EnterFrame(fr), code' = code,
           gas' \in 0 .. GasLimit, counter' \in 0 .. PollEvery
    PROVE  IInv'
<1>1. /\ Current.kind = "js" /\ Current = callFrames[Len(callFrames)]
      /\ Len(callFrames) >= 2 /\ code \in Programs /\ Sound(code, callFrames)
  BY CurrentIs
<1>2. /\ val \in {"plain", "call", "exception"} /\ tail \in DOMAIN code
      /\ thrown \in {"none", "error", "gas", "interrupted", "memory", "recursion", "unthrown"}
      /\ uncatchable \in BOOLEAN
  BY DEF IInv, Typed
<1>3. CASE /\ Len(callFrames) < MaxLevels
           /\ callFrames' = Append(callFrames, fr)
           /\ mode' = IF fr.kind = "js" THEN "run" ELSE "builtin"
           /\ val' = IF fr.kind = "js" THEN val ELSE "plain"
           /\ UNCHANGED <<tail, thrown, uncatchable, rec>>
  <2>1. fr.kind \in {"js", "builtin"}
    BY DEF JsFrames, BuiltinFrames
  <2>2. /\ Sound(code, Append(callFrames, fr))
        /\ Len(Append(callFrames, fr)) = Len(callFrames) + 1
        /\ Len(Append(callFrames, fr)) >= 2
        /\ Append(callFrames, fr)[Len(Append(callFrames, fr))] = fr
        /\ Nested(Append(callFrames, fr)) = Nested(callFrames) + (IF fr.kind = "builtin" THEN 1 ELSE 0)
    BY <1>1, <1>3, Pushed
  <2>3. /\ Sound(code, callFrames') /\ Len(callFrames') >= 2
        /\ callFrames'[Len(callFrames')] = fr
        /\ Nested(callFrames') = Nested(callFrames) + (IF fr.kind = "builtin" THEN 1 ELSE 0)
    BY <1>3, <2>2
  <2>4. Typed'
    BY <1>1, <1>2, <1>3, <2>1, <2>3 DEF Typed
  <2>5. Control'
    BY <1>3, <2>1, <2>3 DEF Control, Current
  <2>6. Counted'
    <3>1. rec = Nested(callFrames) /\ Nested(callFrames) \in Nat
      <4>1. callFrames \in Seq(Frames(code))
        BY <1>1 DEF Sound
      <4> QED BY <4>1, OuterFinite DEF IInv, Counted
    <3>2. rec' = Nested(callFrames')
               - (IF mode' \in {"builtin", "done"} THEN 1 ELSE 0)
      BY <1>3, <2>1, <2>3, <3>1
    <3> QED BY <3>2 DEF Counted
  <2>7. ExceptionIsPending' /\ Final'
    BY <1>3, <2>1 DEF ExceptionIsPending, Final
  <2> QED BY <2>4, <2>5, <2>6, <2>7 DEF IInv
<1>4. CASE /\ StackCheckFails
           /\ val' = "exception" /\ mode' = "exception"
           /\ UNCHANGED <<callFrames, tail, rec>>
  <2>1. /\ thrown' \in {"error", "gas", "interrupted", "memory", "recursion", "unthrown"}
        /\ uncatchable' \in BOOLEAN
    BY <1>2, <1>4 DEF StackCheckFails, Throw
  <2> QED BY <1>4, <2>1, SameFrames
<1> QED BY <1>3, <1>4 DEF EnterFrame

----------------------------------------------------------------------------
(* The instructions.                                                       *)

\* Handlers of a frame, with one more or one less.
LEMMA Handlers ==
    ASSUME NEW n \in Nat, NEW c \in Seq(Nat), \A i \in DOMAIN c : c[i] \in 1 .. n, NEW l \in 1 .. n
    PROVE  /\ Append(c, l) \in Seq(Nat) /\ \A i \in DOMAIN Append(c, l) : Append(c, l)[i] \in 1 .. n
           /\ Front(c) \in Seq(Nat) /\ \A i \in DOMAIN Front(c) : Front(c)[i] \in 1 .. n
           /\ c # <<>> => Last(c) \in 1 .. n
<1>1. l \in Nat
  OBVIOUS
<1>2. Append(c, l) \in Seq(Nat) /\ \A i \in DOMAIN Append(c, l) : Append(c, l)[i] \in 1 .. n
  BY <1>1
<1>3. Front(c) \in Seq(Nat) /\ \A i \in DOMAIN Front(c) : Front(c)[i] \in 1 .. n
  BY DEF Front
<1>4. c # <<>> => Last(c) \in 1 .. n
  BY DEF Last
<1> QED BY <1>2, <1>3, <1>4

LEMMA FrameWithPc ==
    ASSUME NEW program \in Programs, NEW fr \in JsFrames(program),
           NEW l \in 1 .. Len(program[fr.fn])
    PROVE  [fr EXCEPT !.pc = l] \in JsFrames(program)
<1>1. /\ fr \in [kind : {"js"}, fn : DOMAIN program, pc : Nat, catch : Seq(Nat)]
      /\ \A i \in DOMAIN fr.catch : fr.catch[i] \in 1 .. Len(program[fr.fn])
  BY DEF JsFrames
<1>2. l \in Nat
  BY InstructionIs
<1>3. /\ [fr EXCEPT !.pc = l] \in [kind : {"js"}, fn : DOMAIN program, pc : Nat, catch : Seq(Nat)]
      /\ [fr EXCEPT !.pc = l].fn = fr.fn
      /\ [fr EXCEPT !.pc = l].pc = l
      /\ [fr EXCEPT !.pc = l].catch = fr.catch
  BY <1>1, <1>2
<1> QED BY <1>1, <1>3 DEF JsFrames

LEMMA FrameWithCatch ==
    ASSUME NEW program \in Programs, NEW fr \in JsFrames(program), NEW c \in Seq(Nat),
           \A i \in DOMAIN c : c[i] \in 1 .. Len(program[fr.fn])
    PROVE  [fr EXCEPT !.catch = c] \in JsFrames(program)
<1>1. /\ fr \in [kind : {"js"}, fn : DOMAIN program, pc : Nat, catch : Seq(Nat)]
      /\ fr.pc \in 1 .. Len(program[fr.fn])
  BY DEF JsFrames
<1>2. /\ [fr EXCEPT !.catch = c] \in [kind : {"js"}, fn : DOMAIN program, pc : Nat, catch : Seq(Nat)]
      /\ [fr EXCEPT !.catch = c].fn = fr.fn
      /\ [fr EXCEPT !.catch = c].pc = fr.pc
      /\ [fr EXCEPT !.catch = c].catch = c
  BY <1>1
<1> QED BY <1>1, <1>2 DEF JsFrames

\* What the invariant says of the variables a step leaves alone.
LEMMA VariablesAre ==
    ASSUME IInv
    PROVE  /\ val \in {"plain", "call", "exception"} /\ tail \in DOMAIN code
           /\ thrown \in {"none", "error", "gas", "interrupted", "memory", "recursion", "unthrown"}
           /\ uncatchable \in BOOLEAN
           /\ gas \in 0 .. GasLimit /\ counter \in 0 .. PollEvery
           /\ mode = "run" /\ val = "exception" => ~uncatchable
BY DEF IInv, Typed, Final

LEMMA ComputeStep == ASSUME IInv, Compute PROVE IInv'
<1>1. /\ Current \in JsFrames(code) /\ code \in Programs
      /\ Emitted(code, Current.fn, Current.pc) /\ mode = "run"
  BY CurrentIs DEF Compute, At
<1>2. Instr.op = "op" /\ Instr.result \in {"plain", "call"}
  BY <1>1 DEF Compute, At, Instr, Emitted
<1>3. Resumable(code, Current)
  BY <1>2 DEF Instr, Resumable
<1>4. NextPc(Current) \in JsFrames(code)
  BY <1>1, <1>3, NextFrame
<1>5. /\ callFrames' = WithTop(NextPc(Current)) /\ val' \in {"plain", "call"}
      /\ UNCHANGED <<code, mode, tail, thrown, uncatchable, gas, counter, rec>>
  BY <1>2 DEF Compute
<1> QED BY <1>1, <1>4, <1>5, VariablesAre, MovesOn

LEMMA PushCatchStep == ASSUME IInv, PushCatch PROVE IInv'
<1>1. /\ Current \in JsFrames(code) /\ code \in Programs
      /\ Emitted(code, Current.fn, Current.pc) /\ mode = "run"
  BY CurrentIs DEF PushCatch, At
<1>2. Instr.op = "catch" /\ Instr.to \in 1 .. Len(code[Current.fn])
  BY <1>1 DEF PushCatch, At, Instr, Emitted
<1>3. Resumable(code, Current)
  BY <1>2 DEF Instr, Resumable
<1>4. NextPc(Current) \in JsFrames(code) /\ NextPc(Current).fn = Current.fn
  <2>1. Current \in [kind : {"js"}, fn : DOMAIN code, pc : Nat, catch : Seq(Nat)]
    BY <1>1 DEF JsFrames
  <2> QED BY <1>1, <1>3, <2>1, NextFrame DEF NextPc
<1>5. /\ Append(NextPc(Current).catch, Instr.to) \in Seq(Nat)
      /\ \A i \in DOMAIN Append(NextPc(Current).catch, Instr.to) :
            Append(NextPc(Current).catch, Instr.to)[i] \in 1 .. Len(code[NextPc(Current).fn])
  <2>1. /\ NextPc(Current).catch \in Seq(Nat)
        /\ \A i \in DOMAIN NextPc(Current).catch :
              NextPc(Current).catch[i] \in 1 .. Len(code[NextPc(Current).fn])
    BY <1>4 DEF JsFrames
  <2>2. Len(code[NextPc(Current).fn]) \in Nat
    BY <1>1, <1>4, InstructionIs
  <2> QED BY <1>2, <1>4, <2>1, <2>2, Handlers
<1>6. [NextPc(Current) EXCEPT !.catch = Append(@, Instr.to)] \in JsFrames(code)
  BY <1>1, <1>4, <1>5, FrameWithCatch
<1>7. /\ callFrames' = WithTop([NextPc(Current) EXCEPT !.catch = Append(@, Instr.to)])
      /\ UNCHANGED <<code, mode, val, tail, thrown, uncatchable, gas, counter, rec>>
  BY DEF PushCatch
<1> QED BY <1>1, <1>6, <1>7, VariablesAre, MovesOn

LEMMA DropCatchStep == ASSUME IInv, DropCatch PROVE IInv'
<1>1. /\ Current \in JsFrames(code) /\ code \in Programs
      /\ Emitted(code, Current.fn, Current.pc) /\ mode = "run"
  BY CurrentIs DEF DropCatch, At
<1>2. Resumable(code, Current)
  BY DEF DropCatch, At, Instr, Resumable
<1>3. NextPc(Current) \in JsFrames(code)
  BY <1>1, <1>2, NextFrame
<1>4. /\ Front(NextPc(Current).catch) \in Seq(Nat)
      /\ \A i \in DOMAIN Front(NextPc(Current).catch) :
            Front(NextPc(Current).catch)[i] \in 1 .. Len(code[NextPc(Current).fn])
  <2>1. /\ NextPc(Current).catch \in Seq(Nat)
        /\ \A i \in DOMAIN NextPc(Current).catch :
              NextPc(Current).catch[i] \in 1 .. Len(code[NextPc(Current).fn])
    BY <1>3 DEF JsFrames
  <2>2. Len(code[NextPc(Current).fn]) \in Nat /\ 1 \in 1 .. Len(code[NextPc(Current).fn])
    BY <1>1, <1>3, InstructionIs
  <2> QED BY <2>1, <2>2, Handlers
<1>5. [NextPc(Current) EXCEPT !.catch = Front(@)] \in JsFrames(code)
  BY <1>1, <1>3, <1>4, FrameWithCatch
<1>6. /\ callFrames' = WithTop([NextPc(Current) EXCEPT !.catch = Front(@)])
      /\ UNCHANGED <<code, mode, val, tail, thrown, uncatchable, gas, counter, rec>>
  BY DEF DropCatch
<1> QED BY <1>1, <1>5, <1>6, VariablesAre, MovesOn

LEMMA JumpStep == ASSUME IInv, Jump PROVE IInv'
<1>1. /\ Current \in JsFrames(code) /\ code \in Programs
      /\ Emitted(code, Current.fn, Current.pc) /\ mode = "run"
  BY CurrentIs DEF Jump, At
<1>2. Instr.op \in {"goto", "if"} /\ Instr.to \in 1 .. Len(code[Current.fn])
  BY <1>1 DEF Jump, At, Instr, Emitted
<1>3. CASE Jumps /\ ~OutOfGas /\ gas' = gas + 1
           /\ counter' = IF counter <= 1 THEN PollEvery ELSE counter - 1
  <2>1. gas' \in 0 .. GasLimit /\ counter' \in 0 .. PollEvery
    BY <1>3, Ticks
  <2>2. UNCHANGED <<code, mode, val, tail, thrown, uncatchable, rec>>
    BY <1>3 DEF Jump, Jumps
  <2>3. CASE callFrames' = WithTop([Current EXCEPT !.pc = Instr.to])
    BY <1>1, <1>2, <2>1, <2>2, <2>3, FrameWithPc, VariablesAre, MovesOn
  <2>4. CASE Instr.op = "if" /\ callFrames' = WithTop(NextPc(Current))
    <3>1. NextPc(Current) \in JsFrames(code)
      BY <1>1, <2>4, NextFrame DEF Instr, Resumable
    <3> QED BY <1>1, <2>1, <2>2, <2>4, <3>1, VariablesAre, MovesOn
  <2> QED BY <1>3, <2>3, <2>4 DEF Jumps
<1>4. CASE /\ UNCHANGED <<callFrames, tail, rec>> /\ mode' = "exception"
           /\ \/ OutOfGas /\ Throw("gas") /\ UNCHANGED <<val, gas, counter>>
              \/ /\ ~OutOfGas /\ gas' = gas + 1
                 /\ counter' = IF counter <= 1 THEN PollEvery ELSE counter - 1
                 /\ thrown' = "interrupted" /\ uncatchable' = TRUE /\ val' = "exception"
  BY <1>1, <1>4, Ticks, PollStops DEF Jump
<1> QED BY <1>3, <1>4 DEF Jump, Poll

LEMMA FailsStep == ASSUME IInv, Fails PROVE IInv'
<1>1. mode = "run" /\ UNCHANGED <<code, callFrames, tail, gas, counter, rec>>
  BY DEF Fails, At
<1>2. thrown' = "error" /\ uncatchable' = FALSE /\ val' = "exception" /\ mode' = "exception"
  BY DEF Fails, ThrowValue, Throw
<1> QED BY <1>1, <1>2, VariablesAre, SameFrames

LEMMA GetPropertyStep == ASSUME IInv, GetProperty PROVE IInv'
<1>1. /\ Current \in JsFrames(code) /\ code \in Programs /\ Current.kind = "js"
      /\ Emitted(code, Current.fn, Current.pc) /\ mode = "run" /\ Len(callFrames) >= 2
      /\ Sound(code, callFrames)
  BY CurrentIs DEF GetProperty, At
<1>2. Instr.op = "get" /\ Instr.f \in DOMAIN code
  BY <1>1 DEF GetProperty, At, Instr, Emitted
<1>3. Resumable(code, Current)
  BY <1>2 DEF Instr, Resumable
<1>4. /\ val' = "call" /\ tail' \in DOMAIN code /\ mode' = "exception"
      /\ UNCHANGED <<code, callFrames, thrown, uncatchable, gas, counter, rec>>
  BY <1>2 DEF GetProperty
<1>5. Typed'
  BY <1>1, <1>4, VariablesAre DEF Typed
<1>6. Control'
  BY <1>1, <1>3, <1>4 DEF Control, Current
<1>7. Counted'
  BY <1>1, <1>4 DEF IInv, Counted
<1>8. ExceptionIsPending' /\ Final'
  BY <1>1, <1>4, VariablesAre DEF ExceptionIsPending, Final
<1> QED BY <1>5, <1>6, <1>7, <1>8 DEF IInv

LEMMA ReturnValueStep == ASSUME IInv, ReturnValue PROVE IInv'
<1>1. /\ Current \in JsFrames(code) /\ code \in Programs
      /\ Emitted(code, Current.fn, Current.pc) /\ mode = "run"
  BY CurrentIs DEF ReturnValue, At
<1>2. Instr.result \in {"plain", "call"}
  BY <1>1 DEF ReturnValue, At, Instr, Emitted
<1>3. /\ val' \in {"plain", "call"} /\ mode' = "return"
      /\ UNCHANGED <<code, callFrames, tail, thrown, uncatchable, gas, counter, rec>>
  BY <1>2 DEF ReturnValue
<1> QED BY <1>1, <1>3, VariablesAre, SameFrames

\* A call made by the frame on top, after a poll.
LEMMA Calls ==
    ASSUME IInv, mode \in {"run", "exception"}, val = "exception" => ~uncatchable,
           Resumable(code, Current) \/ OutOfGas,
           NEW fr \in JsFrames(code) \cup BuiltinFrames(code),
           Poll(EnterFrame(fr)), UNCHANGED code
    PROVE  IInv'
<1>1. CASE /\ ~OutOfGas /\ gas' = gas + 1
           /\ counter' = IF counter <= 1 THEN PollEvery ELSE counter - 1
           /\ EnterFrame(fr)
  BY <1>1, Ticks, Enters
<1>2. CASE /\ UNCHANGED <<callFrames, tail, rec>> /\ mode' = "exception"
           /\ \/ OutOfGas /\ Throw("gas") /\ UNCHANGED <<val, gas, counter>>
              \/ /\ ~OutOfGas /\ gas' = gas + 1
                 /\ counter' = IF counter <= 1 THEN PollEvery ELSE counter - 1
                 /\ thrown' = "interrupted" /\ uncatchable' = TRUE /\ val' = "exception"
  BY <1>2, Ticks, PollStops
<1> QED BY <1>1, <1>2 DEF Poll

LEMMA CallFunctionStep == ASSUME IInv, CallFunction PROVE IInv'
<1>1. /\ code \in Programs /\ Emitted(code, Current.fn, Current.pc) /\ mode = "run"
  BY CurrentIs DEF CallFunction, At
<1>2. Instr.op = "call" /\ Instr.f \in DOMAIN code
  BY <1>1 DEF CallFunction, At, Instr, Emitted
<1>3. Resumable(code, Current)
  BY <1>2 DEF Instr, Resumable
<1>4. Frame(Instr.f) \in JsFrames(code)
  BY <1>1, <1>2, FirstFrame
<1>5. Poll(EnterFrame(Frame(Instr.f))) /\ UNCHANGED code
  BY DEF CallFunction
<1> QED BY <1>1, <1>3, <1>4, <1>5, VariablesAre, Calls

LEMMA CallBuiltinStep == ASSUME IInv, CallBuiltin PROVE IInv'
<1>1. /\ code \in Programs /\ Emitted(code, Current.fn, Current.pc) /\ mode = "run"
  BY CurrentIs DEF CallBuiltin, At
<1>2. Instr.op \in {"each", "sort"} /\ Instr.f \in DOMAIN code /\ Instr.times \in Nat
  BY <1>1 DEF CallBuiltin, At, Instr, Emitted
<1>3. Resumable(code, Current)
  BY <1>2 DEF Instr, Resumable
<1>4. Builtin(Instr.f, Instr.times, Instr.op = "sort") \in BuiltinFrames(code)
  BY <1>2 DEF Builtin, BuiltinFrames
<1>5. Poll(EnterFrame(Builtin(Instr.f, Instr.times, Instr.op = "sort"))) /\ UNCHANGED code
  BY DEF CallBuiltin
<1> QED BY <1>1, <1>3, <1>4, <1>5, VariablesAre, Calls

LEMMA TailCallStep == ASSUME IInv, TailCall PROVE IInv'
<1>1. mode = "exception" /\ val = "call" /\ Poll(EnterFrame(Frame(tail))) /\ UNCHANGED code
  BY DEF TailCall
<1>2. Resumable(code, Current) \/ OutOfGas
  BY <1>1 DEF IInv, Control
<1>3. Frame(tail) \in JsFrames(code)
  BY FirstFrame DEF IInv, Typed
<1> QED BY <1>1, <1>2, <1>3, Calls

\* The innermost handler takes the exception.
LEMMA UnwindStep == ASSUME IInv, Unwind PROVE IInv'
<1>1. /\ Current \in JsFrames(code) /\ code \in Programs
      /\ Current = callFrames[Len(callFrames)] /\ Len(callFrames) >= 2
      /\ Sound(code, callFrames) /\ mode = "exception" /\ val # "call" /\ Current.kind = "js"
  BY CurrentIs DEF Unwind
<1>2. UNCHANGED <<code, val, tail, uncatchable, gas, counter, rec>>
  BY DEF Unwind
<1>3. CASE LeaveFrame
  <2>1. val = "exception" => thrown # "none"
    BY <1>1 DEF IInv, ExceptionIsPending, Final
  <2> QED BY <1>1, <1>2, <1>3, <2>1, VariablesAre, SameFrames DEF LeaveFrame
<1>4. CASE ~uncatchable /\ Current.catch # <<>> /\ CatchException
  <2> DEFINE fr == [Current EXCEPT !.pc = Last(Current.catch), !.catch = Front(Current.catch)]
  <2>1. /\ Current.catch \in Seq(Nat) /\ Current.fn \in DOMAIN code
        /\ \A i \in DOMAIN Current.catch : Current.catch[i] \in 1 .. Len(code[Current.fn])
    BY <1>1 DEF JsFrames
  <2>2. Len(code[Current.fn]) \in Nat /\ 1 \in 1 .. Len(code[Current.fn])
    BY <1>1, InstructionIs
  <2>3. /\ Last(Current.catch) \in 1 .. Len(code[Current.fn])
        /\ Front(Current.catch) \in Seq(Nat)
        /\ \A i \in DOMAIN Front(Current.catch) : Front(Current.catch)[i] \in 1 .. Len(code[Current.fn])
    BY <1>4, <2>1, <2>2, Handlers
  <2>4. fr \in JsFrames(code)
    BY <1>1, <2>3, FrameAt
  <2>5. callFrames' = WithTop(fr) /\ thrown' = "none" /\ mode' = "run"
    BY <1>4 DEF CatchException
  <2> HIDE DEF fr
  <2> QED BY <1>1, <1>2, <1>4, <2>4, <2>5, VariablesAre, MovesOn
<1> QED BY <1>3, <1>4 DEF Unwind

----------------------------------------------------------------------------
(* The ends of calls, and the calls from builtins.                         *)

LEMMA AboveTwo == ASSUME NEW n \in Nat, n >= 2, n # 2 PROVE n - 1 \in 2 .. n
OBVIOUS

\* The stack without its top, and what is then on top.
LEMMA LeftStack ==
    ASSUME IInv, mode \in {"run", "exception", "return", "builtin"}
    PROVE  /\ code \in Programs /\ Sound(code, Popped) /\ Len(callFrames) >= 2
           /\ Len(Popped) = Len(callFrames) - 1 /\ Len(Popped) \in Nat \ {0}
           /\ Popped[Len(Popped)] = Below
           /\ Current.kind = IF mode = "builtin" THEN "builtin" ELSE "js"
           /\ Nested(Popped) = Nested(callFrames) - (IF mode = "builtin" THEN 1 ELSE 0)
           /\ Below.kind \in {"host", "js", "builtin"}
           /\ mode = "builtin" => Below.kind = "js"
           /\ Below.kind = "host" => Len(Popped) = 1
           /\ Below.kind # "host" => Len(Popped) >= 2
           /\ Below.kind = "js" => Below \in JsFrames(code) /\ Resumable(code, Below)
<1>1. code \in Programs /\ Sound(code, callFrames)
  BY DEF IInv, Typed
<1>2. Len(callFrames) >= 2 /\ Current.kind = IF mode = "builtin" THEN "builtin" ELSE "js"
  BY DEF IInv, Control
<1>3. /\ callFrames \in Seq(Frames(code)) /\ Len(callFrames) \in Nat
      /\ callFrames[1] = Host
      /\ \A k \in 2 .. Len(callFrames) : callFrames[k].kind # "host"
      /\ \A k \in 2 .. Len(callFrames) : callFrames[k].kind = "builtin" => callFrames[k - 1].kind = "js"
      /\ \A k \in 2 .. Len(callFrames) - 1 : callFrames[k].kind = "js" => Resumable(code, callFrames[k])
  BY <1>1 DEF Sound
<1>4. /\ Sound(code, Front(callFrames)) /\ Len(Front(callFrames)) = Len(callFrames) - 1
      /\ \A k \in 1 .. Len(callFrames) - 1 : Front(callFrames)[k] = callFrames[k]
      /\ Nested(Front(callFrames))
           = Nested(callFrames) - (IF callFrames[Len(callFrames)].kind = "builtin" THEN 1 ELSE 0)
  BY <1>1, <1>2, PoppedStack
<1>5. /\ Sound(code, Popped) /\ Len(Popped) = Len(callFrames) - 1 /\ Len(Popped) \in Nat \ {0}
      /\ Popped[Len(Popped)] = Below
      /\ Nested(Popped) = Nested(callFrames) - (IF mode = "builtin" THEN 1 ELSE 0)
  BY <1>2, <1>3, <1>4 DEF Popped, Below, Current
<1>6. Below \in Frames(code)
  BY <1>2, <1>3 DEF Below
<1>7. Below.kind \in {"host", "js", "builtin"} /\ (Below.kind = "js" => Below \in JsFrames(code))
  BY <1>6 DEF Frames, JsFrames, BuiltinFrames, Host
<1>8. mode = "builtin" => Below.kind = "js"
  <2>1. Len(callFrames) \in 2 .. Len(callFrames)
    BY <1>2, <1>3
  <2> QED BY <2>1, <1>2, <1>3 DEF Below, Current
<1>9. (Below.kind = "host" => Len(Popped) = 1) /\ (Below.kind # "host" => Len(Popped) >= 2)
  <2>1. CASE Len(callFrames) = 2
    <3>1. Below = Host
      BY <2>1, <1>3 DEF Below
    <3> QED BY <2>1, <3>1, <1>5 DEF Host
  <2>2. CASE Len(callFrames) # 2
    <3>1. Len(callFrames) - 1 \in 2 .. Len(callFrames)
      <4>1. Len(callFrames) >= 2 /\ Len(callFrames) \in Nat
        BY <1>2, <1>3
      <4> QED BY <4>1, <2>2, AboveTwo
    <3>2. Below.kind # "host"
      BY <3>1, <1>3 DEF Below
    <3> QED BY <3>1, <3>2, <1>3, <1>5
  <2> QED BY <2>1, <2>2
<1>10. Below.kind = "js" => Resumable(code, Below)
  <2>1. ASSUME Below.kind = "js" PROVE Len(callFrames) - 1 \in 2 .. Len(callFrames) - 1
    BY <2>1, <1>3, <1>5, <1>9
  <2> QED BY <2>1, <1>3 DEF Below
<1> QED BY <1>1, <1>2, <1>5, <1>7, <1>8, <1>9, <1>10

\* A call ends and the function below goes on or unwinds.
LEMMA Resumes ==
    ASSUME IInv, mode \in {"return", "builtin"}, Below.kind = "js",
           val' \in {"plain", "call", "exception"}, Resume(val'),
           val' = "exception" => thrown' # "none",
           thrown' \in {"none", "error", "gas", "interrupted", "memory", "recursion", "unthrown"},
           uncatchable' \in BOOLEAN,
           UNCHANGED <<code, tail, gas, counter, rec>>
    PROVE  IInv'
<1>1. /\ code \in Programs /\ Sound(code, Popped) /\ Len(Popped) \in Nat \ {0}
      /\ Popped[Len(Popped)] = Below /\ Len(Popped) >= 2
      /\ Nested(Popped) = Nested(callFrames) - (IF mode = "builtin" THEN 1 ELSE 0)
      /\ Below \in JsFrames(code) /\ Resumable(code, Below)
  BY LeftStack
<1>2. rec = Nested(callFrames) - (IF mode = "builtin" THEN 1 ELSE 0)
  BY DEF IInv, Counted
<1>3. /\ Sound(code, callFrames') /\ Len(callFrames') >= 2
      /\ callFrames'[Len(callFrames')].kind = "js" /\ Nested(callFrames') = Nested(Popped)
  <2>1. CASE val' = "exception"
    <3>1. callFrames' = Popped
      BY <2>1 DEF Resume
    <3> QED BY <3>1, <1>1
  <2>2. CASE val' # "exception"
    <3>1. NextPc(Below) \in JsFrames(code) /\ NextPc(Below).kind = "js"
      BY <1>1, NextFrame
    <3>2. /\ Sound(code, [Popped EXCEPT ![Len(Popped)] = NextPc(Below)])
          /\ Len([Popped EXCEPT ![Len(Popped)] = NextPc(Below)]) = Len(Popped)
          /\ [Popped EXCEPT ![Len(Popped)] = NextPc(Below)][Len(Popped)] = NextPc(Below)
          /\ Nested([Popped EXCEPT ![Len(Popped)] = NextPc(Below)]) = Nested(Popped)
      BY <1>1, <3>1, Moved
    <3>3. callFrames' = [Popped EXCEPT ![Len(Popped)] = NextPc(Below)]
      BY <2>2, <1>1 DEF Resume
    <3> QED BY <1>1, <3>1, <3>2, <3>3
  <2> QED BY <2>1, <2>2
<1>4. mode' \in {"run", "exception"} /\ (mode' = "exception" <=> val' = "exception")
  BY DEF Resume
<1>5. Typed'
  BY <1>1, <1>3, <1>4, VariablesAre DEF Typed
<1>6. Control'
  BY <1>3, <1>4 DEF Control, Current
<1>7. Counted'
  BY <1>1, <1>2, <1>3, <1>4 DEF Counted
<1>8. ExceptionIsPending' /\ Final'
  BY <1>4 DEF IInv, ExceptionIsPending, Final
<1> QED BY <1>5, <1>6, <1>7, <1>8 DEF IInv

LEMMA ReturnStep == ASSUME IInv, Return PROVE IInv'
<1>1. mode = "return" /\ UNCHANGED <<code, val, tail, thrown, uncatchable, gas, counter>>
  BY DEF Return
<1>2. val = "exception" => thrown # "none"
  BY <1>1 DEF IInv, ExceptionIsPending, Final
<1>3. CASE Below.kind = "js"
  BY <1>1, <1>2, <1>3, VariablesAre, Resumes DEF Return
<1>4. CASE Below.kind # "js"
  <2>1. /\ code \in Programs /\ Sound(code, Popped) /\ Len(Popped) \in Nat \ {0}
        /\ Popped[Len(Popped)] = Below
        /\ Nested(Popped) = Nested(callFrames)
        /\ Below.kind \in {"host", "builtin"}
        /\ Below.kind = "host" => Len(Popped) = 1
        /\ Below.kind # "host" => Len(Popped) >= 2
    <3>1. /\ code \in Programs /\ Sound(code, Popped) /\ Len(Popped) \in Nat \ {0}
          /\ Popped[Len(Popped)] = Below
          /\ Below.kind \in {"host", "js", "builtin"}
          /\ Below.kind = "host" => Len(Popped) = 1
          /\ Below.kind # "host" => Len(Popped) >= 2
      BY <1>1, LeftStack
    <3>2. Nested(Popped) = Nested(callFrames) - (IF mode = "builtin" THEN 1 ELSE 0)
      BY <1>1, LeftStack
    <3>3. Nested(callFrames) \in Nat
      <4>1. callFrames \in Seq(Frames(code))
        BY DEF IInv, Typed, Sound
      <4> QED BY <4>1, OuterFinite
    <3> QED BY <1>1, <1>4, <3>1, <3>2, <3>3
  <2>2. /\ callFrames' = Popped /\ rec' = rec - 1
        /\ mode' = IF Below.kind = "host" THEN "done" ELSE "builtin"
    BY <1>4 DEF Return
  <2>3. Typed'
    BY <1>1, <2>1, <2>2, VariablesAre DEF Typed
  <2>4. Control'
    BY <2>1, <2>2 DEF Control, Current
  <2>5. Counted'
    <3>1. rec = Nested(callFrames)
      <4>1. callFrames \in Seq(Frames(code))
        BY DEF IInv, Typed, Sound
      <4> QED BY <1>1, <4>1, OuterFinite DEF IInv, Counted
    <3> QED BY <2>1, <2>2, <3>1 DEF Counted
  <2>6. ExceptionIsPending' /\ Final'
    BY <1>1, <1>2, <2>2 DEF IInv, ExceptionIsPending, Final
  <2> QED BY <2>3, <2>4, <2>5, <2>6 DEF IInv
<1> QED BY <1>3, <1>4

LEMMA BuiltinReturnsStep == ASSUME IInv, BuiltinReturns PROVE IInv'
<1>1. /\ mode = "builtin" /\ Resume(val')
      /\ UNCHANGED <<code, tail, thrown, uncatchable, gas, counter, rec>>
      /\ \/ val = "exception" /\ val' = val
         \/ val' = "call"
  BY DEF BuiltinReturns
<1>2. Below.kind = "js"
  BY <1>1, LeftStack
<1>3. val = "exception" => thrown # "none"
  BY <1>1 DEF IInv, ExceptionIsPending, Final
<1> QED BY <1>1, <1>2, <1>3, VariablesAre, Resumes

LEMMA SortFailsStep == ASSUME IInv, SortFails PROVE IInv'
<1>1. /\ mode = "builtin" /\ val' = "exception" /\ Resume(val')
      /\ UNCHANGED <<code, tail, gas, counter, rec>>
      /\ StackCheckFails \/ Throw("error")
  BY DEF SortFails
<1>2. Below.kind = "js"
  BY <1>1, LeftStack
<1>3. /\ thrown' \in {"error", "gas", "interrupted", "memory", "recursion", "unthrown"}
      /\ uncatchable' \in BOOLEAN
  BY <1>1, VariablesAre DEF StackCheckFails, Throw
<1> QED BY <1>1, <1>2, <1>3, Resumes

LEMMA CallBackStep == ASSUME IInv, CallBack PROVE IInv'
<1>1. /\ mode = "builtin" /\ Current.left > 0 /\ NestedCall
      /\ UNCHANGED <<code, tail, gas, counter>>
  BY DEF CallBack
<1>3. /\ code \in Programs /\ Sound(code, callFrames) /\ Len(callFrames) >= 2
      /\ Current.kind = "builtin" /\ Current = callFrames[Len(callFrames)]
  BY <1>1 DEF IInv, Typed, Control, Current
<1>4. callFrames \in Seq(Frames(code)) /\ Len(callFrames) \in Nat
  BY <1>3 DEF Sound
<1>5. Current \in BuiltinFrames(code)
  <2>1. Current \in Frames(code)
    BY <1>3, <1>4
  <2> QED BY <1>3, <2>1 DEF Frames, JsFrames, Host
<1>6. rec = Nested(callFrames) - 1 /\ Nested(callFrames) \in Nat
  BY <1>1, <1>4, OuterFinite DEF IInv, Counted
<1> DEFINE fr == [Current EXCEPT !.left = @ - 1]
           s == [callFrames EXCEPT ![Len(callFrames)] = fr]
<1>10. fr \in BuiltinFrames(code) /\ fr.kind = "builtin"
  <2>1. Current.left - 1 \in Nat
    BY <1>1, <1>5 DEF BuiltinFrames
  <2> QED BY <1>5, <2>1 DEF BuiltinFrames
<1>11. WithTop(fr) = s
  BY DEF WithTop
<1> HIDE DEF fr
<1>12. /\ Sound(code, s) /\ Len(s) = Len(callFrames) /\ s[Len(s)] = fr
       /\ Nested(s) = Nested(callFrames)
  BY <1>3, <1>10, Moved
<1> HIDE DEF s
<1>7. CASE /\ rec < MaxCalls /\ Len(callFrames) < MaxLevels
           /\ callFrames' = Append(s, Frame(Current.fn))
           /\ rec' = rec + 1
           /\ val' = "plain" /\ mode' = "run"
           /\ UNCHANGED <<thrown, uncatchable>>
  <2>2. Frame(Current.fn) \in JsFrames(code) /\ Frame(Current.fn).kind = "js"
    BY <1>3, <1>5, FirstFrame DEF BuiltinFrames
  <2>5. /\ Sound(code, Append(s, Frame(Current.fn)))
        /\ Len(Append(s, Frame(Current.fn))) >= 2
        /\ Append(s, Frame(Current.fn))[Len(Append(s, Frame(Current.fn)))] = Frame(Current.fn)
        /\ Nested(Append(s, Frame(Current.fn)))
             = Nested(s) + (IF Frame(Current.fn).kind = "builtin" THEN 1 ELSE 0)
    BY <1>7, <1>10, <1>12, <2>2, Pushed
  <2>6. /\ Sound(code, callFrames') /\ Len(callFrames') >= 2
        /\ callFrames'[Len(callFrames')].kind = "js" /\ Nested(callFrames') = Nested(callFrames)
    BY <1>6, <1>7, <1>12, <2>2, <2>5
  <2>7. Typed'
    BY <1>1, <1>3, <1>7, <2>6, VariablesAre DEF Typed
  <2>8. Control'
    BY <1>7, <2>6 DEF Control, Current
  <2>9. Counted'
    BY <1>6, <1>7, <2>6 DEF Counted
  <2>10. ExceptionIsPending' /\ Final'
    BY <1>7 DEF ExceptionIsPending, Final
  <2> QED BY <2>7, <2>8, <2>9, <2>10 DEF IInv
<1>8. CASE /\ IF rec >= MaxCalls THEN Throw("recursion") ELSE StackCheckFails
           /\ val' = "exception"
           /\ callFrames' = s
           /\ UNCHANGED <<mode, rec>>
  <2>1. /\ thrown' \in {"error", "gas", "interrupted", "memory", "recursion", "unthrown"}
        /\ uncatchable' \in BOOLEAN
    BY <1>8, VariablesAre DEF StackCheckFails, Throw
  <2>2. Typed'
    BY <1>1, <1>3, <1>8, <1>12, <2>1, VariablesAre DEF Typed
  <2>3. Control'
    BY <1>1, <1>3, <1>8, <1>10, <1>12 DEF Control, Current
  <2>4. Counted'
    BY <1>1, <1>8, <1>12 DEF IInv, Counted
  <2>5. ExceptionIsPending' /\ Final'
    BY <1>1, <1>8, <2>1 DEF ExceptionIsPending, Final
  <2> QED BY <2>2, <2>3, <2>4, <2>5 DEF IInv
<1> QED BY <1>1, <1>7, <1>8, <1>11 DEF NestedCall, fr

----------------------------------------------------------------------------
(* The theorems.                                                           *)

LEMMA InitIInv == LoopInit => IInv
<1> SUFFICES ASSUME LoopInit PROVE IInv
  OBVIOUS
<1> DEFINE s == <<Host>>
<1>1. code \in Programs /\ Main \in DOMAIN code
  BY InterpAssumption DEF LoopInit
<1>2. Frame(Main) \in JsFrames(code) /\ Frame(Main).kind = "js"
  BY <1>1, FirstFrame
<1>3. s \in Seq(Frames(code)) /\ Len(s) = 1 /\ s[1] = Host /\ Host.kind = "host"
  BY DEF Frames, Host
<1> HIDE DEF s
<1>4. Sound(code, s)
  BY <1>3, InterpAssumption DEF Sound
<1>5. Outer(s) = {1}
  BY <1>3 DEF Outer
<1>6. Nested(s) = 1
  BY <1>5, FS_Singleton DEF Nested
<1>7. callFrames = Append(s, Frame(Main))
  BY DEF LoopInit, s
<1>8. /\ Sound(code, callFrames) /\ Len(callFrames) = 2
      /\ callFrames[2] = Frame(Main) /\ Nested(callFrames) = 1
  <2>1. /\ Sound(code, Append(s, Frame(Main)))
        /\ Len(Append(s, Frame(Main))) = Len(s) + 1
        /\ Append(s, Frame(Main))[Len(Append(s, Frame(Main)))] = Frame(Main)
        /\ Nested(Append(s, Frame(Main)))
             = Nested(s) + (IF Frame(Main).kind = "builtin" THEN 1 ELSE 0)
    <3>1. Len(s) < MaxLevels /\ s[Len(s)].kind = "host"
      BY <1>3, InterpAssumption
    <3> QED BY <1>2, <1>4, <3>1, Pushed
  <2> QED BY <1>2, <1>3, <1>6, <1>7, <2>1
<1>9. Typed
  BY <1>1, <1>8 DEF LoopInit, Typed
<1>10. Control
  BY <1>2, <1>8 DEF LoopInit, Control, Current
<1>11. Counted
  BY <1>8 DEF LoopInit, Counted
<1>12. ExceptionIsPending /\ Final
  BY DEF LoopInit, ExceptionIsPending, Final
<1> QED BY <1>9, <1>10, <1>11, <1>12 DEF IInv

LEMMA NextIInv == IInv /\ [LoopNext]_loopVars => IInv'
<1> SUFFICES ASSUME IInv, [LoopNext]_loopVars PROVE IInv'
  OBVIOUS
<1>1. CASE UNCHANGED loopVars
  BY <1>1 DEF loopVars, IInv, Typed, Control, Current, OutOfGas, Counted, ExceptionIsPending, Final
<1>2. CASE LoopNext
  BY <1>2, ComputeStep, FailsStep, JumpStep, CallFunctionStep, CallBuiltinStep, GetPropertyStep,
     PushCatchStep, DropCatchStep, ReturnValueStep, TailCallStep, UnwindStep, ReturnStep,
     CallBackStep, SortFailsStep, BuiltinReturnsStep DEF LoopNext
<1> QED BY <1>1, <1>2

\* In every reachable state the stack of frames is sound, with on top what the
\* control needs, the count of nested calls is that of the frames, and
\* JS_EXCEPTION has a pending exception.
THEOREM LoopInvariant == LoopSpec => []IInv
<1>1. LoopInit => IInv
  BY InitIInv
<1>2. IInv /\ [LoopNext]_loopVars => IInv'
  BY NextIInv
<1> QED BY <1>1, <1>2, PTL DEF LoopSpec

\* The control, the countdown, the gas and the depth of the stack stay in
\* their ranges, for every limit and every program.
THEOREM LoopTypeCorrect == LoopSpec => []LoopTypeOK
<1>1. IInv => LoopTypeOK
  BY DEF IInv, Typed, Sound, LoopTypeOK
<1> QED BY <1>1, LoopInvariant, PTL

\* js_call_rec_count is the number of JS_Calls under way, on whatever path the
\* others have ended, and JS_EXCEPTION is never returned without an exception
\* that is pending.
THEOREM CallsAlwaysCounted == LoopSpec => []CallsAreCounted
<1>1. IInv => CallsAreCounted
  BY DEF IInv, Counted, Nested, Outer, CallsAreCounted, RecursionIsCounted
<1> QED BY <1>1, LoopInvariant, PTL

\* An interruption that is on its way out passes every try block and every
\* builtin but sort, and no instruction runs meanwhile.
THEOREM InterruptStaysFinal == LoopSpec => InterruptIsFinal
<1> DEFINE Leaving == uncatchable /\ val = "exception" /\ ~(mode = "builtin" /\ Current.sorts)
           Left == uncatchable' /\ val' = "exception" /\ mode' # "run"
<1>1. IInv /\ [LoopNext]_loopVars => [Leaving => Left]_loopVars
  <2> SUFFICES ASSUME IInv, LoopNext, Leaving PROVE Left
    OBVIOUS
  <2>1. mode # "run"
    BY DEF IInv, ExceptionIsPending, Final
  <2>2. CASE Unwind
    BY <2>2 DEF Unwind, LeaveFrame
  <2>3. CASE Return
    BY <2>3 DEF Return, Resume
  <2>4. CASE BuiltinReturns
    BY <2>4 DEF BuiltinReturns, Resume
  <2> QED BY <2>1, <2>2, <2>3, <2>4 DEF LoopNext, Compute, Fails, Jump, CallFunction, CallBuiltin, GetProperty,
          PushCatch, DropCatch, ReturnValue, TailCall, CallBack, SortFails, At
<1> QED BY <1>1, LoopInvariant, PTL DEF LoopSpec, InterruptIsFinal
=============================================================================
