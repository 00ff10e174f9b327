---------------------------- MODULE TypedArrays ----------------------------
(***************************************************************************)
(* Array buffers and the typed arrays that look at them: where a view may  *)
(* lie, what an element is for a view's class, and the copies which go     *)
(* through two views of what may be the same bytes.                        *)
(*                                                                         *)
(* A number is an integer that counts halves, so that 3 is 1.5: the        *)
(* conversions differ in how they round.  The classes of floating point    *)
(* numbers, whose elements are bit patterns, are left out.                 *)
(***************************************************************************)
EXTENDS Integers, Sequences

CONSTANTS
  Classes,             \* the classes of typed arrays
  Size, Signed,        \* of each: bytes of an element, whether it has a sign
  Clamped,             \* the class that clamps instead of wrapping around
  ByteBase,            \* the values of a byte (256 in the code)
  Numbers,             \* bound: numbers the script stores
  Indices,             \* bound: numbers the script gives as lengths and offsets
  MaxBuffers, MaxViews, MaxAccesses   \* bounds: what is made, and the calls

ASSUME TypedArraysAssumption ==
  /\ Size \in [Classes -> {1, 2, 4, 8}]
  /\ Signed \in [Classes -> BOOLEAN]
  /\ ByteBase \in Nat \ {0}
  /\ Indices \subseteq Int

VARIABLES
  buffers,   \* the bytes of every buffer
  views,     \* the typed arrays
  job,       \* a copy that is under way, or Idle
  returned,    \* what the last call returned
  accesses

typedVars == <<buffers, views, job, returned, accesses>>

Undefined == <<"undefined">>
Exception == <<"exception">>
Number(n) == <<"number", n>>
View(i) == <<"view", i>>
Buffer(i) == <<"buffer", i>>

Idle == [src |-> 0, dst |-> 0, offset |-> 0, next |-> 0, before |-> <<>>]

(***************************************************************************)
(* Conversions.                                                            *)
(***************************************************************************)
\* Towards zero.
JS_ToInt32(n) == IF n >= 0 THEN n \div 2 ELSE -((-n) \div 2)

\* To the nearest, and to the even one of two.
Rounded(n) == IF n % 4 = 3 THEN (n + 1) \div 2 ELSE n \div 2

JS_ToUint8Clamp(n) ==
  IF n < 0 THEN 0
  ELSE IF n > 2 * (ByteBase - 1) THEN ByteBase - 1
  ELSE Rounded(n)

\* A length or an offset; negative ones are refused.
IsIndex(n) == JS_ToInt32(n) >= 0

\* Fault of JS_ToInt32Clamp: a place past the end is kept.
JS_ToInt32Clamp_Past(n, len) ==
  LET v == JS_ToInt32(n) IN IF v < 0 THEN (IF v + len < 0 THEN 0 ELSE v + len) ELSE v

\* A place counted from the end when it is negative.
JS_ToInt32Clamp(n, len) ==
  LET v == JS_ToInt32(n)
  IN  IF v < 0 THEN (IF v + len < 0 THEN 0 ELSE v + len)
               ELSE (IF v > len THEN len ELSE v)

Modulus(c) == ByteBase ^ Size[c]

\* What an element of class c holds once n is stored in it, as an integer.
Stored(c, n) == (IF c = Clamped THEN JS_ToUint8Clamp(n) ELSE JS_ToInt32(n)) % Modulus(c)

\* What the bits u of an element are worth.
Worth(c, u) == IF Signed[c] /\ 2 * u >= Modulus(c) THEN u - Modulus(c) ELSE u

ByteOf(u, k) == (u \div (ByteBase ^ k)) % ByteBase

(***************************************************************************)
(* Elements.                                                               *)
(***************************************************************************)
\* The place of element i of a view, in bytes.
Place(v, i) == (v.offset + i) * Size[v.class]

Bits(bytes, v, i) ==
  LET b == Place(v, i)
      at[k \in 0 .. 7] == IF k = 0 THEN bytes[b + 1]
                          ELSE at[k - 1] + bytes[b + 1 + k] * ByteBase ^ k
  IN  at[Size[v.class] - 1]

Element(bytes, v, i) == 2 * Worth(v.class, Bits(bytes, v, i))

WithElement(bytes, v, i, n) ==
  [p \in 1 .. Len(bytes) |->
     IF p - 1 \in Place(v, i) .. Place(v, i + 1) - 1
     THEN ByteOf(Stored(v.class, n), p - 1 - Place(v, i))
     ELSE bytes[p]]

Bytes(v) == buffers[v.buffer]

Elements(v) == [i \in 1 .. v.len |-> Element(Bytes(v), v, i - 1)]

(***************************************************************************)
(* The operations.                                                         *)
(***************************************************************************)
CanCall ==
  /\ job = Idle
  /\ accesses < MaxAccesses
  /\ accesses' = accesses + 1

Refuses == returned' = Exception /\ UNCHANGED <<buffers, views, job>>

js_array_buffer_alloc(len) ==
  buffers' = Append(buffers, [p \in 1 .. len |-> 0])

js_array_buffer_constructor(n) ==
  /\ CanCall
  /\ Len(buffers) < MaxBuffers
  /\ IF IsIndex(n)
     THEN /\ js_array_buffer_alloc(JS_ToInt32(n))
          /\ returned' = Buffer(Len(buffers) + 1)
          /\ UNCHANGED <<views, job>>
     ELSE Refuses

NewView(c, b, offset, len) ==
  /\ views' = Append(views, [class |-> c, buffer |-> b, offset |-> offset, len |-> len])
  /\ returned' = View(Len(views) + 1)

\* new Class(length)
ConstructByLength(c, n) ==
  /\ CanCall
  /\ Len(buffers) < MaxBuffers /\ Len(views) < MaxViews
  /\ IF IsIndex(n)
     THEN /\ js_array_buffer_alloc(JS_ToInt32(n) * Size[c])
          /\ NewView(c, Len(buffers) + 1, 0, JS_ToInt32(n))
          /\ UNCHANGED job
     ELSE Refuses

IsPlace(c, b, offset) == offset % Size[c] = 0 /\ offset <= Len(buffers[b])

\* new Class(buffer, offset, length); without a length, to the buffer's end.
ConstructOnBuffer(c, b, n, toEnd, m) ==
  LET offset == JS_ToInt32(n)
      size == Len(buffers[b])
      len == IF toEnd THEN (size - offset) \div Size[c] ELSE JS_ToInt32(m)
      fits == IF toEnd THEN size % Size[c] = 0
                       ELSE IsIndex(m) /\ offset + len * Size[c] <= size
  IN  /\ CanCall
      /\ Len(views) < MaxViews
      /\ IF IsIndex(n) /\ IsPlace(c, b, offset) /\ fits
         THEN NewView(c, b, offset \div Size[c], len) /\ UNCHANGED <<buffers, job>>
         ELSE Refuses

\* new Class(view): a new buffer, and the elements one by one.
js_typed_array_constructor_obj(c, s) ==
  /\ CanCall
  /\ Len(buffers) < MaxBuffers /\ Len(views) < MaxViews
  /\ js_array_buffer_alloc(views[s].len * Size[c])
  /\ NewView(c, Len(buffers) + 1, 0, views[s].len)
  /\ job' = [src |-> s, dst |-> Len(views) + 1, offset |-> 0, next |-> 0,
             before |-> Elements(views[s])]

js_typed_array_subarray(s, n, toEnd, m) ==
  LET v == views[s]
      start == JS_ToInt32Clamp(n, v.len)
      final == IF toEnd THEN v.len ELSE JS_ToInt32Clamp(m, v.len)
      count == IF final > start THEN final - start ELSE 0
  IN  /\ CanCall
      /\ Len(views) < MaxViews
      /\ IF v.offset + start + count > Len(Bytes(v)) THEN Refuses
         ELSE NewView(v.class, v.buffer, v.offset + start, count)
              /\ UNCHANGED <<buffers, job>>

\* Fault of Moved: the source's own offset is forgotten.
Moved_Start(d, s, offset) ==
  LET to == Place(d, offset)
      count == s.len * Size[s.class]
  IN  [p \in 1 .. Len(Bytes(d)) |->
         IF p - 1 \in to .. to + count - 1 THEN Bytes(s)[p - to] ELSE Bytes(d)[p]]

\* Views of one class: the bytes, as if they were all read first.
Moved(d, s, offset) ==
  LET to == Place(d, offset)
      from == Place(s, 0)
      count == s.len * Size[s.class]
  IN  [p \in 1 .. Len(Bytes(d)) |->
         IF p - 1 \in to .. to + count - 1 THEN Bytes(s)[p - to + from] ELSE Bytes(d)[p]]

js_typed_array_set(d, s, n) ==
  LET offset == JS_ToInt32(n)
      dst == views[d]
      src == views[s]
  IN  /\ CanCall
      /\ IF offset < 0 \/ src.len > dst.len \/ offset > dst.len - src.len
         THEN Refuses
         ELSE IF src.class = dst.class
         THEN /\ buffers' = [buffers EXCEPT ![dst.buffer] = Moved(dst, src, offset)]
              /\ returned' = Undefined
              /\ UNCHANGED <<views, job>>
         ELSE /\ job' = [src |-> s, dst |-> d, offset |-> offset, next |-> 0,
                         before |-> Elements(src)]
              /\ returned' = Undefined
              /\ UNCHANGED <<buffers, views>>

\* One element of a copy; the copy ends with the source.
CopyElement ==
  LET src == views[job.src]
      dst == views[job.dst]
  IN  /\ job # Idle
      /\ IF job.next < src.len
         THEN /\ buffers' = [buffers EXCEPT ![dst.buffer] =
                               WithElement(@, dst, job.offset + job.next,
                                           Element(Bytes(src), src, job.next))]
              /\ job' = [job EXCEPT !.next = @ + 1]
         ELSE job' = Idle /\ UNCHANGED buffers
      /\ UNCHANGED <<views, returned, accesses>>

GetElement(s, i) ==
  /\ CanCall
  /\ returned' = IF i < views[s].len THEN Number(Element(Bytes(views[s]), views[s], i))
                                   ELSE Undefined
  /\ UNCHANGED <<buffers, views, job>>

SetElement(s, i, n) ==
  /\ CanCall
  /\ IF i >= views[s].len THEN Refuses
     ELSE /\ buffers' = [buffers EXCEPT ![views[s].buffer] = WithElement(@, views[s], i, n)]
          /\ returned' = Undefined
          /\ UNCHANGED <<views, job>>

(***************************************************************************)
(* The specification.                                                      *)
(***************************************************************************)
TypedInit ==
  /\ buffers = <<>> /\ views = <<>> /\ job = Idle
  /\ returned = Undefined /\ accesses = 0

TypedNext ==
  \/ \E n \in Indices : js_array_buffer_constructor(n)
  \/ \E c \in Classes, n \in Indices : ConstructByLength(c, n)
  \/ \E c \in Classes, b \in 1 .. Len(buffers), n, m \in Indices, toEnd \in BOOLEAN :
       ConstructOnBuffer(c, b, n, toEnd, m)
  \/ \E c \in Classes, s \in 1 .. Len(views) : js_typed_array_constructor_obj(c, s)
  \/ \E s \in 1 .. Len(views), n, m \in Indices, toEnd \in BOOLEAN :
       js_typed_array_subarray(s, n, toEnd, m)
  \/ \E d, s \in 1 .. Len(views), n \in Indices : js_typed_array_set(d, s, n)
  \/ CopyElement
  \/ \E s \in 1 .. Len(views), i \in {JS_ToInt32(n) : n \in Indices} \cap Nat :
       GetElement(s, i) \/ \E n \in Numbers : SetElement(s, i, n)

TypedSpec == TypedInit /\ [][TypedNext]_typedVars

(***************************************************************************)
(* Properties.                                                             *)
(***************************************************************************)
TypedTypeOK ==
  /\ \A b \in 1 .. Len(buffers) : buffers[b] \in Seq(0 .. ByteBase - 1)
  /\ \A s \in 1 .. Len(views) :
       /\ views[s].class \in Classes /\ views[s].buffer \in 1 .. Len(buffers)
       /\ views[s].offset \in Nat /\ views[s].len \in Nat
  /\ accesses \in 0 .. MaxAccesses

\* Whatever offsets and lengths views and views of views are made with, every
\* element of a view is within its buffer: the code reads and writes elements
\* with no other check than the view's length.
ViewsWithinBuffer ==
  \A s \in 1 .. Len(views) :
    (views[s].offset + views[s].len) * Size[views[s].class] <= Len(Bytes(views[s]))

SharesBytes(v, w) ==
  /\ v.buffer = w.buffer
  /\ Place(v, 0) < Place(w, w.len) /\ Place(w, 0) < Place(v, v.len)

\* The element that a number becomes: of the clamped class the nearest there
\* is, the even one of two, of the others the one that differs from the number,
\* cut to an integer, by a multiple of the modulus.
Distance(m, n) == IF 2 * m >= n THEN 2 * m - n ELSE n - 2 * m

Meant(c, n) ==
  IF c = Clamped
  THEN CHOOSE m \in 0 .. ByteBase - 1 : \A k \in 0 .. ByteBase - 1 :
         \/ Distance(m, n) < Distance(k, n)
         \/ Distance(m, n) = Distance(k, n) /\ (m % 2 = 0 \/ k = m)
  ELSE LET low == IF Signed[c] THEN -(Modulus(c) \div 2) ELSE 0
       IN  CHOOSE m \in low .. low + Modulus(c) - 1 : (m - JS_ToInt32(n)) % Modulus(c) = 0

\* A copy leaves in the destination what the source held when it began, each
\* element stored for the destination's class; so it does when the two overlap
\* and are of one class.  (Of two classes, elements are overwritten before they
\* are read.)
CopiesAreWhole ==
  [][ /\ job # Idle /\ job' = Idle /\ ~SharesBytes(views[job.src], views[job.dst]) =>
           \A i \in 1 .. Len(job.before) :
             Element(Bytes(views[job.dst]), views[job.dst], job.offset + i - 1)
               = 2 * Meant(views[job.dst].class, job.before[i])
      /\ \A d, s \in 1 .. Len(views), n \in Indices :
           /\ views[d].class = views[s].class
           /\ js_typed_array_set(d, s, n) /\ returned' = Undefined
           => \A i \in 0 .. views[s].len - 1 :
                Element(buffers'[views[d].buffer], views[d], JS_ToInt32(n) + i)
                  = Element(Bytes(views[s]), views[s], i) ]_typedVars

\* Storing an element leaves every element of every view as it was unless they
\* share a byte, and is read back as the number that its class makes of it.
ElementsAreSeparate ==
  [][\A s \in 1 .. Len(views), n \in Numbers :
       \A i \in 0 .. views[s].len - 1 :
         SetElement(s, i, n) =>
           /\ Element(buffers'[views[s].buffer], views[s], i) = 2 * Meant(views[s].class, n)
           /\ \A t \in 1 .. Len(views) : \A j \in 0 .. views[t].len - 1 :
                \/ /\ views[t].buffer = views[s].buffer
                   /\ Place(views[t], j) < Place(views[s], i + 1)
                   /\ Place(views[s], i) < Place(views[t], j + 1)
                \/ Element(buffers'[views[t].buffer], views[t], j)
                     = Element(Bytes(views[t]), views[t], j)]_typedVars
=============================================================================
