-------------------------------- MODULE Text --------------------------------
(***************************************************************************)
(* What the string methods promise: a string is a sequence of UTF-16       *)
(* units, and each method is a function of the units.                      *)
(***************************************************************************)
EXTENDS Integers, FiniteSetsExt, SequencesExt, TLC

CONSTANTS Constants, MaxUnits

VARIABLES text, call, answer

None == "none"
Order(u) == CASE u = " " -> 1 [] u = "A" -> 2 [] u = "a" -> 3 [] u = "h" -> 4 [] u = "l" -> 5 [] u = "f" -> 6
Both(u, v) == IF u = "h" /\ v = "l" THEN "S" ELSE u
Spelled(c) == IF c = "S" THEN <<"h", "l">> ELSE <<c>>
UnitsOfConst == <<>> @@ [n \in DOMAIN Constants |->
                           FlattenSeq([i \in DOMAIN Constants[n] |-> Spelled(Constants[n][i])])]

At(t, i) == IF i \in 0..(Len(t) - 1) THEN t[i + 1] ELSE None
Within(t, i) == IF i < 0 THEN 0 ELSE IF i > Len(t) THEN Len(t) ELSE i
FromEnd(t, i) == Within(t, IF i < 0 THEN Len(t) + i ELSE i)
Part(t, a, b) == SubSeq(t, a + 1, b)
Occurs(t, u) == {i \in 0..(Len(t) - Len(u)) : SubSeq(t, i + 1, i + Len(u)) = u}
Upper(u) == IF u = "a" THEN "A" ELSE u
NotSpace(t) == {i \in 1..Len(t) : t[i] # " "}

\* The order of the first units that differ.
Sign(t, u) ==
    LET n == IF Len(t) < Len(u) THEN Len(t) ELSE Len(u)
        k == Min({i \in 1..n : t[i] # u[i]} \cup {n + 1})
        d == IF k = n + 1 THEN Len(t) - Len(u) ELSE Order(t[k]) - Order(u[k])
    IN IF d < 0 THEN -1 ELSE IF d > 0 THEN 1 ELSE 0

\* The string that the call c on the text t returns.
String(t, c) ==
    CASE c[1] = "charAt" -> IF At(t, c[2]) = None THEN <<>> ELSE <<At(t, c[2])>>
      [] c[1] = "slice" -> Part(t, FromEnd(t, c[2]), FromEnd(t, c[3]))
      [] c[1] = "substring" ->
           LET p == {Within(t, c[2]), Within(t, c[3])} IN Part(t, Min(p), Max(p))
      [] c[1] = "concat" -> t \o UnitsOfConst[c[2]]
      [] c[1] = "prepend" -> UnitsOfConst[c[2]] \o t
      [] c[1] = "toUpperCase" -> [i \in DOMAIN t |-> Upper(t[i])]
      [] c[1] = "trim" ->
           IF NotSpace(t) = {} THEN <<>> ELSE Part(t, Min(NotSpace(t)) - 1, Max(NotSpace(t)))

\* The other values.  (What is the same property key is said elsewhere.)
Value(t, c) ==
    CASE c[1] = "length" -> Len(t)
      [] c[1] = "charCodeAt" -> At(t, c[2])
      [] c[1] = "codePointAt" ->
           IF At(t, c[2]) = None THEN None ELSE Both(At(t, c[2]), At(t, c[2] + 1))
      [] c[1] = "indexOf" ->
           LET at == {i \in Occurs(t, UnitsOfConst[c[2]]) : i >= Within(t, c[3])}
           IN IF at = {} THEN -1 ELSE Min(at)
      [] c[1] = "lastIndexOf" ->
           Max({i \in Occurs(t, UnitsOfConst[c[2]]) : i <= Within(t, c[3])} \cup {-1})
      [] c[1] = "compare" -> Sign(t, UnitsOfConst[c[2]])

Strings == {"charAt", "slice", "substring", "concat", "prepend", "toUpperCase", "trim"}

Init == Len(text) <= MaxUnits /\ call = <<>> /\ answer = <<>>

Returns ==
    /\ call = <<>> /\ call' # <<>>
    /\ LET t == text IN
       IF call'[1] \in Strings THEN text' = String(t, call') /\ answer' = <<>>
       ELSE text' = t /\ (call'[1] # "key" => answer' = <<Value(t, call')>>)

Continues == call # <<>> /\ call' = <<>> /\ answer' = <<>> /\ text' = text

Next == Returns \/ Continues
Spec == Init /\ [][Next]_<<text, call, answer>>
=============================================================================
