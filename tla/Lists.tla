------------------------------- MODULE Lists -------------------------------
(***************************************************************************)
(* What the methods of an array promise: an array is a sequence.  A method *)
(* with a callback visits the indices that there were when it was called,  *)
(* in its order, until it comes to one that is not there any more; the     *)
(* callback may change the array in between.  For the methods that go up   *)
(* these are the indices that ECMAScript visits; reduceRight, which goes   *)
(* down, ends at the first one that is gone where ECMAScript skips it.     *)
(***************************************************************************)
EXTENDS Integers, SequencesExt, FiniteSetsExt

CONSTANTS Values, Initials, Items, Ints, Returned, MaxLen, Key(_)

Undef == 0
Thrown == <<-9>>
Unordered == -9

VARIABLES
    list,     \* the array
    running,  \* the method with a callback: [m, left, len, out, val], or <<>>
    result    \* what the method that returned last has returned

Clamp(i, min, max, offset) ==
    LET j == IF i < min THEN i + offset ELSE i
    IN IF j < min THEN min ELSE IF j > max THEN max ELSE j
Between(s, i, j) == SubSeq(s, i + 1, IF j > Len(s) THEN Len(s) ELSE j)
From(s, i) == Between(s, i, Len(s))
Cut(s, n) == IF n <= Len(s) THEN SubSeq(s, 1, n) ELSE s \o [i \in 1..(n - Len(s)) |-> Undef]
Bool(b) == IF b THEN <<1>> ELSE <<0>>

\* Sorted by the key, equal ones in their order, what is undefined last.
Sorted(s) ==
    LET n == Len(s)
        Rank(v) == IF v = Undef THEN 100 ELSE Key(v)
        Place(i) == Cardinality({j \in 1..n : Rank(s[j]) < Rank(s[i])
                                             \/ (Rank(s[j]) = Rank(s[i]) /\ j <= i)})
    IN <<>> \o [p \in 1..n |-> s[CHOOSE i \in 1..n : Place(i) = p]]

Init == list \in Initials /\ running = <<>> /\ result = <<>>

Changed(l, r) == list' = l /\ result' = r /\ Len(l) <= MaxLen /\ UNCHANGED running
Push(vs) == Changed(list \o vs, <<Len(list \o vs)>>)
Unshift(vs) == Changed(vs \o list, <<Len(vs \o list)>>)
Pop == IF list = <<>> THEN Changed(list, <<Undef>>) ELSE Changed(Front(list), <<Last(list)>>)
Shift == IF list = <<>> THEN Changed(list, <<Undef>>) ELSE Changed(Tail(list), <<Head(list)>>)
SetLength(n) == IF n < 0 THEN Changed(list, Thrown) ELSE Changed(Cut(list, n), <<Undef>>)
SetElement(i, v) ==
    IF i > Len(list) THEN Changed(list, Thrown)
    ELSE Changed([Cut(list, IF i = Len(list) THEN i + 1 ELSE Len(list)) EXCEPT ![i + 1] = v], <<v>>)
GetElement(i) == Changed(list, <<IF i < Len(list) THEN list[i + 1] ELSE Undef>>)
Reversed == Changed(Reverse(list), <<Undef>>)
Concat == Changed(list, list \o <<1>> \o list)

\* indexOf, lastIndexOf, slice and splice read the length, convert their
\* arguments, which may change the array, and go on with what there is.
Convert(m) ==
    /\ running = <<>> /\ running' = [m |-> m, left |-> <<>>, len |-> Len(list), out |-> <<>>, val |-> Undef]
    /\ result' = <<>> /\ UNCHANGED list
Converted(m, r) == running # <<>> /\ running.m = m /\ running' = <<>> /\ result' = r
IndexOf(v, i) ==
    LET is == {k \in Clamp(i, 0, running.len, running.len)..(Len(list) - 1) : list[k + 1] = v}
    IN /\ Converted("indexOf", IF is = {} THEN <<-1>> ELSE <<Min(is)>>) /\ UNCHANGED list
LastIndexOf(v, i) ==
    LET n == Clamp(i, -1, running.len - 1, running.len)
        is == {k \in 0..n : k < Len(list) /\ list[k + 1] = v}
    IN /\ Converted("lastIndexOf", IF is = {} THEN <<-1>> ELSE <<Max(is)>>) /\ UNCHANGED list
Slice(a, b) ==
    LET n == running.len
    IN /\ Converted("slice", Between(list, Clamp(a, 0, n, n), Clamp(b, 0, n, n))) /\ UNCHANGED list
Splice(a, d, vs) ==
    LET n == running.len
        start == Clamp(a, 0, n, n)
        del == Clamp(d, 0, n - start, 0)
        new == SubSeq(list, 1, start) \o vs \o From(list, start + del)
    IN /\ running # <<>>
       /\ IF Len(list) # n THEN Converted("splice", Thrown) /\ UNCHANGED list
          ELSE /\ Converted("splice", SubSeq(list, start + 1, start + del))
               /\ list' = new /\ Len(new) <= MaxLen

Indices(m, n) ==
    LET up == [i \in 1..n |-> i - 1] IN
    CASE m = "reduceRight" -> Reverse(up) [] m = "sort" -> <<>> [] OTHER -> <<>> \o up
\* What the method returns when there is no index left.
Value(r) ==
    CASE r.m = "every" -> <<1>> [] r.m = "some" -> <<0>> [] r.m = "forEach" -> <<Undef>>
      [] r.m = "map" -> r.out \o [i \in 1..(r.len - Len(r.out)) |-> Undef]
      [] OTHER -> r.out

\* The next index; the method ends when there is none or the array has become
\* too short for it.
Goes(r) ==
    IF r.left = <<>> \/ r.left[1] >= Len(list) THEN running' = <<>> /\ result' = Value(r)
    ELSE running' = [r EXCEPT !.val = list[r.left[1] + 1]] /\ result' = <<>>

Begin(m) ==
    /\ running = <<>> /\ UNCHANGED list
    /\ Goes([m |-> m, left |-> Indices(m, Len(list)), len |-> Len(list), out |-> <<>>, val |-> Undef])
\* reduce without a first value.
BeginReduce(m) ==
    LET is == Indices(m, Len(list)) IN
    /\ running = <<>> /\ UNCHANGED list
    /\ IF list = <<>> THEN running' = <<>> /\ result' = Thrown
       ELSE Goes([m |-> m, left |-> Tail(is), len |-> Len(list), out |-> <<list[is[1] + 1]>>,
                 val |-> Undef])

\* The callback returns v.
Return(v) ==
    LET r == [running EXCEPT !.left = Tail(@)]
        stop == (running.m = "every" /\ v = 0) \/ (running.m = "some" /\ v # 0)
    IN /\ running # <<>> /\ running.left # <<>> /\ UNCHANGED list
       /\ IF stop THEN running' = <<>> /\ result' = Bool(v # 0)
          ELSE Goes(CASE r.m = "map" -> [r EXCEPT !.out = Append(@, v)]
                      [] r.m = "filter" -> IF v = 0 THEN r ELSE [r EXCEPT !.out = Append(@, r.val)]
                      [] r.m \in {"reduce", "reduceRight"} -> [r EXCEPT !.out = <<v>>]
                      [] OTHER -> r)
Throw == running # <<>> /\ running.m # "sort" /\ running' = <<>> /\ result' = Thrown /\ UNCHANGED list

BeginSort ==
    /\ running = <<>> /\ UNCHANGED list /\ result' = <<>>
    /\ running' = [m |-> "sort", left |-> <<>>, len |-> Len(list), out |-> Sorted(list), val |-> Undef]
\* A comparison throws: sort goes on, and the order is lost.
FailSort ==
    /\ running # <<>> /\ running.m = "sort" /\ running' = [running EXCEPT !.val = Unordered]
    /\ UNCHANGED <<list, result>>
\* What is left of the array gets the first of the sorted values; without an
\* order, some of the values and none of them twice.
Count(s, v) == Cardinality({i \in DOMAIN s : s[i] = v})
EndSort ==
    LET Written(out) == [i \in DOMAIN list |-> IF i <= running.len THEN out[i] ELSE list[i]]
    IN /\ running # <<>> /\ running.m = "sort" /\ running' = <<>> /\ result' = <<Undef>>
       /\ IF running.val # Unordered THEN list' = Written(running.out)
          ELSE /\ Len(list') = Len(list) /\ list' = Written(list')
               /\ \A v \in Values \cup {Undef} :
                     Count(Cut(list', Min({running.len, Len(list)})), v) <= Count(running.out, v)

Next ==
    \/ \E vs \in Items : Push(vs) \/ Unshift(vs)
    \/ Pop \/ Shift \/ Reversed \/ Concat
    \/ \E i \in Ints : SetLength(i) \/ (i >= 0 /\ GetElement(i)) \/ \E v \in Values : i >= 0 /\ SetElement(i, v)
    \/ \E m \in {"indexOf", "lastIndexOf", "slice", "splice"} : Convert(m)
    \/ \E i \in Ints : \/ \E v \in Values : IndexOf(v, i) \/ LastIndexOf(v, i)
                       \/ \E j \in Ints : Slice(i, j) \/ \E vs \in Items : Splice(i, j, vs)
    \/ \E m \in {"every", "some", "forEach", "map", "filter"} : Begin(m)
    \/ \E m \in {"reduce", "reduceRight"} : BeginReduce(m)
    \/ \E v \in Returned : Return(v)
    \/ Throw \/ BeginSort \/ FailSort \/ EndSort

Spec == Init /\ [][Next]_<<list, running, result>>
=============================================================================
