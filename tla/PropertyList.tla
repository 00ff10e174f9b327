---------------------------- MODULE PropertyList ----------------------------
(***************************************************************************)
(* What an object promises to the script: its properties, in the order in  *)
(* which they were added.  PropertyTable is shown to implement it.         *)
(***************************************************************************)
EXTENDS Naturals, Sequences, SequencesExt

CONSTANTS Keys, Values

VARIABLE list   \* the own properties: a sequence of [key, value]

Has(k) == \E i \in DOMAIN list : list[i].key = k

Init == list \in Seq([key : Keys, value : Values])

Add(k, v) ==
    /\ ~Has(k)
    /\ list' = Append(list, [key |-> k, value |-> v])

Change(k, v) ==
    \E i \in DOMAIN list :
       /\ list[i].key = k
       /\ list' = [list EXCEPT ![i].value = v]

Delete(k) ==
    \E i \in DOMAIN list :
       /\ list[i].key = k
       /\ list' = RemoveAt(list, i)

Next ==
    \E k \in Keys : Delete(k) \/ \E v \in Values : Add(k, v) \/ Change(k, v)

Spec == Init /\ [][Next]_list
=============================================================================
