------------------------------- MODULE Arrays -------------------------------
(***************************************************************************)
(* The arrays of core/runtime/mquickjs.c: a table with room for more than  *)
(* the len values of the array, the methods that resize it, those that     *)
(* call back for each value while the callback may resize it, and the      *)
(* heap sort with a comparison function.  One array; the callback and the  *)
(* conversion of an argument are steps of the program, which may call the  *)
(* methods that need no callback.  Memory does not run out here.           *)
(***************************************************************************)
EXTENDS Integers, SequencesExt, FiniteSetsExt

CONSTANTS
    Values,    \* numbers, none of them 0
    Initials,  \* arrays to begin with
    Returned,  \* values that callbacks return
    Items,     \* sequences of values given to push, unshift and splice
    Ints,      \* numbers given as indices and lengths
    MaxLen,    \* bound of the model: length of the array
    Key(_),    \* the comparison function compares the keys of the values
    Throws,    \* methods whose callback throws
    MaxCalls   \* bound of the model: calls by the program

VARIABLES
    tab,       \* the table, <<>> for JS_NULL
    len,
    frame,     \* the method that waits for a callback or a conversion, or <<>>
    result,    \* what the method that returned last has returned
    calls,     \* made by the program
    thrown     \* the callback of the method that runs or ran last has thrown

vars == <<tab, len, frame, result, calls, thrown>>

Undef == 0
Thrown == <<-9>>
Unordered == -9  \* for Lists: a comparison of sort has thrown
Filled(n) == [i \in 1..n |-> Undef]
Least(a, b) == IF a < b THEN a ELSE b
Most(a, b) == IF a > b THEN a ELSE b

----------------------------------------------------------------------------
(* The table.                                                              *)

js_resize_value_array(t, n) ==
    IF n > Len(t) THEN t \o Filled(Most(n, Len(t) + Len(t) \div 2) - Len(t)) ELSE t

\* memmove: the values from the index i on go to the index j, n of them.
Moved(t, j, i, n) ==
    <<>> \o [k \in DOMAIN t |-> IF k - 1 \in j..(j + n - 1) THEN t[k - j + i] ELSE t[k]]
Put(t, i, vs) ==
    <<>> \o [k \in DOMAIN t |-> IF k - 1 \in i..(i + Len(vs) - 1) THEN vs[k - i] ELSE t[k]]

js_array_resize(t, l, n) ==
    IF n < l
    THEN IF n < Len(t) \div 2 /\ Len(t) >= 4 THEN SubSeq(t, 1, n) ELSE Put(t, n, Filled(l - n))
    ELSE Put(js_resize_value_array(t, n), l, Filled(n - l))

----------------------------------------------------------------------------
(* Methods without a callback.                                             *)

Idle == frame = <<>>

Init ==
    /\ tab \in Initials /\ len = Len(tab)
    /\ frame = <<>> /\ result = <<>> /\ calls = 0 /\ thrown = FALSE

Called == calls < MaxCalls /\ calls' = calls + 1

\* A method has returned r and left the table t with l values.
Leaves(t, l, r) ==
    /\ Called /\ l <= MaxLen /\ tab' = t /\ len' = l /\ result' = r
    /\ thrown' = (thrown /\ ~Idle) /\ UNCHANGED frame

js_array_push(vs, unshift) ==
    LET n == len + Len(vs)
        t == js_resize_value_array(tab, n)
        at == IF unshift THEN Moved(t, Len(vs), 0, len) ELSE t
    IN Leaves(Put(at, IF unshift THEN 0 ELSE len, vs), n, <<n>>)

js_array_pop == IF len > 0 THEN Leaves(tab, len - 1, <<tab[len]>>) ELSE Leaves(tab, len, <<Undef>>)

js_array_shift ==
    IF len > 0 THEN Leaves(Moved(tab, 0, 1, len - 1), len - 1, <<tab[1]>>)
    ELSE Leaves(tab, len, <<Undef>>)

js_array_set_length(n) ==
    IF n < 0 THEN Leaves(tab, len, Thrown) ELSE Leaves(js_array_resize(tab, len, n), n, <<Undef>>)

\* a[i] = v: in the table, in its free room, or by JS_SetPropertyInternal.
OP_put_array_el(i, v) ==
    IF i < len THEN Leaves(Put(tab, i, <<v>>), len, <<v>>)
    ELSE IF i > len THEN Leaves(tab, len, Thrown)
    ELSE IF tab # <<>> /\ i < Len(tab) THEN Leaves(Put(tab, i, <<v>>), i + 1, <<v>>)
    ELSE Leaves(Put(js_resize_value_array(tab, i + 1), i, <<v>>), len + 1, <<v>>)
OP_get_array_el(i) == Leaves(tab, len, <<IF i < len THEN tab[i + 1] ELSE Undef>>)

\* js_reverse_val exchanges the two ends, one after the other.
RECURSIVE Swapped(_, _)
Swapped(t, i) ==
    IF i >= len \div 2 THEN t
    ELSE Swapped([t EXCEPT ![i + 1] = t[len - i], ![len - i] = t[i + 1]], i + 1)
js_array_reverse == Leaves(Swapped(tab, 0), len, <<Undef>>)

\* The array, a value and the array again.
js_array_concat ==
    LET arr == SubSeq(tab, 1, len)
        t == Put(Put(Put(Filled(2 * len + 1), 0, arr), len, <<1>>), len + 1, arr)
    IN Leaves(tab, len, t)

----------------------------------------------------------------------------
(* Methods that convert their arguments between reading the length and     *)
(* using it; the conversion is a step of the program.                      *)

JS_ToInt32Clamp(i, min, max, offset) ==
    LET j == IF i < min THEN i + offset ELSE i
    IN IF i < min THEN Most(j, min) ELSE Least(i, max)

Frame(m) == [m |-> m, k |-> 0, len |-> len, out |-> <<>>, val |-> Undef]
Convert(m) ==
    /\ Idle /\ Called /\ frame' = Frame(m) /\ result' = <<>> /\ thrown' = FALSE
    /\ UNCHANGED <<tab, len>>
Converted(m, t, l, r) ==
    /\ ~Idle /\ frame.m = m /\ frame' = <<>> /\ result' = r /\ l <= MaxLen
    /\ tab' = t /\ len' = l /\ UNCHANGED <<calls, thrown>>

\* Fault of js_array_indexOf: it looks at the table up to the length it read.
js_array_indexOf_Stale(v, i) ==
    LET n == JS_ToInt32Clamp(i, 0, frame.len, frame.len)
        is == {k \in n..(frame.len - 1) : k < Len(tab) /\ tab[k + 1] = v}
    IN Converted("indexOf", tab, len, <<IF is = {} THEN -1 ELSE Min(is)>>)

js_array_indexOf(v, i) ==
    LET n == JS_ToInt32Clamp(i, 0, frame.len, frame.len)
        is == {k \in n..(len - 1) : tab[k + 1] = v}
    IN Converted("indexOf", tab, len, <<IF is = {} THEN -1 ELSE Min(is)>>)
js_array_lastIndexOf(v, i) ==
    LET n == Least(JS_ToInt32Clamp(i, -1, frame.len - 1, frame.len), len - 1)
        is == {k \in 0..n : tab[k + 1] = v}
    IN Converted("lastIndexOf", tab, len, <<IF is = {} THEN -1 ELSE Max(is)>>)

js_array_slice(a, b) ==
    LET start == JS_ToInt32Clamp(a, 0, frame.len, frame.len)
        final == Least(JS_ToInt32Clamp(b, 0, frame.len, frame.len), len)
    IN Converted("slice", tab, len, <<>> \o [k \in 1..Most(final - start, 0) |-> tab[start + k]])

js_array_splice(a, d, vs) ==
    LET start == JS_ToInt32Clamp(a, 0, frame.len, frame.len)
        del == JS_ToInt32Clamp(d, 0, frame.len - start, 0)
        items == Len(vs)
        new_len == frame.len + items - del
        Close(t) == Moved(t, start + items, start + del, frame.len - (start + del))
        t1 == IF del > items THEN Close(tab) ELSE tab
        t2 == IF del # items THEN js_array_resize(t1, len, new_len) ELSE t1
        t3 == IF del < items THEN Close(t2) ELSE t2
    IN IF len # frame.len THEN Converted("splice", tab, len, Thrown)
       ELSE Converted("splice", Put(t3, start, vs), new_len,
                      <<>> \o [k \in 1..del |-> tab[start + k]])

----------------------------------------------------------------------------
(* Methods with a callback.                                                *)

\* What the method returns when its loop is over.
Value(f) ==
    CASE f.m = "every" -> <<1>> [] f.m = "some" -> <<0>> [] f.m = "forEach" -> <<Undef>>
      [] OTHER -> f.out

\* The head of the loop: the callback is called for the index k, unless k is
\* len, or the length that the array has now.
Index(f) == IF f.m = "reduceRight" THEN f.len - f.k - 1 ELSE f.k
Loop(f) ==
    IF f.k >= f.len \/ Index(f) >= len THEN frame' = <<>> /\ result' = Value(f)
    ELSE frame' = [f EXCEPT !.val = tab[Index(f) + 1]] /\ result' = <<>>

js_array_every(m) ==
    /\ Idle /\ Called /\ thrown' = FALSE /\ UNCHANGED <<tab, len>>
    /\ Loop([Frame(m) EXCEPT !.out = IF m = "map" THEN Filled(len) ELSE <<>>])

\* reduce and reduceRight without a first value.
js_array_reduce(m) ==
    /\ Idle /\ Called /\ thrown' = FALSE /\ UNCHANGED <<tab, len>>
    /\ IF len = 0 THEN frame' = <<>> /\ result' = Thrown
       ELSE LET f == Frame(m)
            IN Loop([f EXCEPT !.k = 1, !.out = <<tab[Index(f) + 1]>>])

\* The callback returns v, 0 is also FALSE.
Return(v) ==
    LET f == [frame EXCEPT !.k = @ + 1]
        Stop(r) == frame' = <<>> /\ result' = r
    IN /\ ~Idle /\ frame.m \in {"every", "some", "forEach", "map", "filter", "reduce", "reduceRight"}
       /\ UNCHANGED <<tab, len, calls, thrown>>
       /\ CASE f.m = "every" /\ v = 0 -> Stop(<<0>>)
            [] f.m = "some" /\ v # 0 -> Stop(<<1>>)
            [] f.m = "map" -> Loop([f EXCEPT !.out[frame.k + 1] = v])
            [] f.m = "filter" /\ v # 0 -> Loop([f EXCEPT !.out = Append(@, f.val)])
            [] f.m \in {"reduce", "reduceRight"} -> Loop([f EXCEPT !.out = <<v>>])
            [] OTHER -> Loop(f)

Throw ==
    /\ ~Idle /\ frame.m # "sort" /\ frame.m \in Throws
    /\ frame' = <<>> /\ result' = Thrown /\ thrown' = TRUE /\ UNCHANGED <<tab, len, calls>>

----------------------------------------------------------------------------
(* The heap sort.  f.out has the pairs <<value, index>> that are sorted;   *)
(* f.i is the element that goes down while the heap is built, or how many  *)
(* are in the heap while it is emptied; f.r goes down.  The comparison     *)
(* that waits is that of the children of f.r, or of f.r and its child f.c. *)

Child(f) == 2 * f.r + 1
Limit(f) == IF f.building THEN Len(f.out) ELSE f.i
Exchanged(s, i, j) == [s EXCEPT ![i + 1] = s[j + 1], ![j + 1] = s[i + 1]]

\* The next comparison, with the elements that are swapped before it.
RECURSIVE Sift(_), NextRound(_)
Sift(f) ==
    IF Child(f) >= Limit(f) THEN NextRound(f)
    ELSE [f EXCEPT !.c = Child(f), !.ask = IF Child(f) < Limit(f) - 1 THEN "child" ELSE "parent"]
NextRound(f) ==
    IF f.building /\ f.i > 0 THEN Sift([f EXCEPT !.i = @ - 1, !.r = f.i - 1])
    ELSE LET i == IF f.building THEN Len(f.out) - 1 ELSE f.i - 1
         IN IF i <= 0 THEN [f EXCEPT !.ask = "done"]
            ELSE Sift([f EXCEPT !.building = FALSE, !.i = i, !.r = 0,
                                !.out = Exchanged(f.out, 0, i)])

\* The comparison that waited has given c.
Compared(f, c) ==
    IF f.ask = "child" THEN [f EXCEPT !.c = IF c <= 0 THEN @ + 1 ELSE @, !.ask = "parent"]
    ELSE IF c > 0 THEN NextRound(f)
    ELSE Sift([f EXCEPT !.out = Exchanged(f.out, f.r, f.c), !.r = f.c])

\* The two elements it is asked about; the one that comes first in the array
\* is less when the keys are equal.
Asked(f) == IF f.ask = "child" THEN <<f.out[f.c + 1], f.out[f.c + 2]>>
            ELSE <<f.out[f.r + 1], f.out[f.c + 1]>>
Sign(i) == IF i > 0 THEN 1 ELSE IF i < 0 THEN -1 ELSE 0
js_array_sort_cmp(a, b) ==
    IF Key(a[1]) = Key(b[1]) THEN Sign(a[2] - b[2]) ELSE Sign(Key(a[1]) - Key(b[1]))

js_array_sort ==
    LET pairs == [i \in 1..len |-> <<tab[i], i - 1>>]
        out == SelectSeq(pairs, LAMBDA p : p[1] # Undef)
        f == [Frame("sort") EXCEPT !.out = out]
             @@ [building |-> TRUE, i |-> Len(out) \div 2, r |-> 0, c |-> 0, ask |-> "done"]
    IN /\ Idle /\ Called /\ thrown' = FALSE /\ result' = <<>> /\ UNCHANGED <<tab, len>>
       /\ frame' = IF Len(out) > 1 THEN NextRound(f) ELSE f

Compare ==
    /\ ~Idle /\ frame.m = "sort" /\ frame.ask # "done"
    /\ LET ab == Asked(frame) IN frame' = Compared(frame, js_array_sort_cmp(ab[1], ab[2]))
    /\ UNCHANGED <<tab, len, result, calls, thrown>>

\* The comparison function, which is called for different values, throws: the
\* value of the exception is taken for the result, a positive number, and the
\* sort goes on.
CompareThrows ==
    /\ ~Idle /\ frame.m = "sort" /\ frame.m \in Throws /\ frame.ask # "done"
    /\ LET ab == Asked(frame) IN ab[1][1] # ab[2][1]
    /\ frame' = Compared(frame, 1) /\ thrown' = TRUE /\ UNCHANGED <<tab, len, calls, result>>

EndSort ==
    LET n == Least(frame.len, len)
        out == [i \in 1..n |-> IF i <= Len(frame.out) THEN frame.out[i][1] ELSE Undef]
    IN /\ ~Idle /\ frame.m = "sort" /\ frame.ask = "done"
       /\ tab' = Put(tab, 0, out) /\ frame' = <<>> /\ result' = <<Undef>>
       /\ UNCHANGED <<len, calls, thrown>>

----------------------------------------------------------------------------
Next ==
    \/ \E vs \in Items, unshift \in BOOLEAN : js_array_push(vs, unshift)
    \/ js_array_pop \/ js_array_shift \/ js_array_reverse \/ js_array_concat
    \/ \E i \in Ints :
         \/ js_array_set_length(i)
         \/ i >= 0 /\ (OP_get_array_el(i) \/ \E v \in Values : OP_put_array_el(i, v))
    \/ \E m \in {"indexOf", "lastIndexOf", "slice", "splice"} : Convert(m)
    \/ \E i \in Ints :
         \/ \E v \in Values : js_array_indexOf(v, i) \/ js_array_lastIndexOf(v, i)
         \/ \E j \in Ints : \/ js_array_slice(i, j)
                            \/ \E vs \in Items : ~Idle /\ js_array_splice(i, j, vs)
    \/ \E m \in {"every", "some", "forEach", "map", "filter"} : js_array_every(m)
    \/ \E m \in {"reduce", "reduceRight"} : js_array_reduce(m)
    \/ \E v \in Returned : Return(v)
    \/ Throw \/ js_array_sort \/ Compare \/ CompareThrows \/ EndSort

Spec == Init /\ [][Next]_vars

----------------------------------------------------------------------------
(* Properties.                                                             *)

\* The table has room for the array, and what a method has returned is made of
\* values.
TypeOK ==
    /\ len \in 0..Least(MaxLen, Len(tab)) /\ \A i \in DOMAIN tab : tab[i] \in Values \cup {Undef}
    /\ \A i \in DOMAIN result : result[i] \in {-9, -1} \cup 0..MaxLen \cup Values
    /\ thrown \in BOOLEAN

\* What the iteration still has to do, without the table and without the heap.
Rest(f) ==
    LET n == f.len - f.k
        all == SortSeq(f.out, LAMBDA a, b : js_array_sort_cmp(a, b) < 0)
    IN [m |-> f.m, len |-> f.len, val |-> IF f.m = "sort" /\ thrown THEN Unordered ELSE f.val,
        left |-> IF f.m \in {"sort", "indexOf", "lastIndexOf", "slice", "splice"} THEN <<>>
                 ELSE <<>> \o [i \in 1..n |-> IF f.m = "reduceRight" THEN n - i ELSE f.k + i - 1],
        out |-> CASE f.m = "map" -> SubSeq(f.out, 1, f.k)
                  [] f.m = "sort" -> [i \in 1..Len(all) |-> all[i][1]] \o Filled(f.len - Len(all))
                  [] OTHER -> f.out]
L == INSTANCE Lists WITH list <- SubSeq(tab, 1, len), running <- IF Idle THEN <<>> ELSE Rest(frame)

\* Every method returns, and leaves in the array, what it promises of a
\* sequence, whatever the room of the table and whatever the callback or a
\* conversion does to the array in the middle of it.  What a method with a
\* callback promises is in Lists: it ends at the first index that is not there
\* any more, which for reduceRight leaves out those below it that are; sort
\* sorts and keeps equal values in their order, unless its callback throws, when
\* it goes on and leaves the values in some order.
ImplementsLists == L!Spec
=============================================================================
