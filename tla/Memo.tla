------------------------------- MODULE Memo --------------------------------
(***************************************************************************)
(* What a replay cache promises to the code that calls it: an answer once  *)
(* recorded for a key is never replaced by another one.  The only way to   *)
(* lose it is to lose all of them (the context is freed, the process       *)
(* ends).  The three effect caches are shown to implement this module.     *)
(***************************************************************************)
CONSTANTS Keys, Values

VARIABLE memo      \* a function from a subset of Keys to Values

Empty == [k \in {} |-> k]

Init == memo = Empty

Record(k, v) ==
    /\ k \notin DOMAIN memo
    /\ memo' = [x \in DOMAIN memo \cup {k} |-> IF x = k THEN v ELSE memo[x]]

Forget == memo' = Empty

Next == Forget \/ \E k \in Keys, v \in Values : Record(k, v)

Spec == Init /\ [][Next]_memo
=============================================================================
