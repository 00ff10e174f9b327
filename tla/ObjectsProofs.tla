--------------------------- MODULE ObjectsProofs ---------------------------
(* Theorems about Objects, for every number of objects, names, worlds and  *)
(* calls: the chains of prototypes end.  Only three things happen to the   *)
(* links: nothing, a new object is put in front of a live one, and a link  *)
(* is changed that js_set_prototype_internal let pass.                     *)
EXTENDS Objects, TLAPS

Linked ==
  /\ kind \in [Objects -> {"free", "object", "closure"}]
  /\ proto \in [Objects -> Objects \cup {Nil}]
  /\ ObjectPrototype \in Live
  /\ \A o \in Live : proto[o] \in Live \cup {Nil}

IInv == Linked /\ ChainsEnd

Kept == kind' = kind /\ proto' = proto

Made == HasMemory /\ \E q \in Live \cup {Nil} : NewObject(q)

Relinked ==
  /\ kind' = kind
  /\ \E o \in Live, q \in Live \cup {Nil} :
       js_set_prototype_internal(o, q) /\ proto' = [proto EXCEPT ![o] = q]

\* A property that is read makes at most the prototype of a function.
LEMMA GetLinks ==
  ASSUME Linked, NEW fs, NEW recv, NEW k, JS_GetProperty(fs, recv, k)
  PROVE  Kept \/ Made
<1>1. ASSUME js_function_get_prototype(fs, recv) PROVE Kept \/ Made
  BY <1>1 DEF js_function_get_prototype, Linked, Kept, Made
<1>2. UNCHANGED <<kind, proto, props>> => Kept
  BY DEF Kept
<1> QED
  BY <1>1, <1>2 DEF JS_GetProperty

\* A property that is assigned makes nothing.
LEMMA SetLinks ==
  ASSUME NEW fs, NEW recv, NEW k, NEW v, JS_SetProperty(fs, recv, k, v)
  PROVE  Kept
BY DEF JS_SetProperty, js_function_set_prototype, Kept

\* Every step does one of the three.
LEMMA StepLinks ==
  ASSUME Linked, [Next]_vars
  PROVE  Kept \/ Made \/ Relinked
<1>1. ASSUME NEW recv \in Receivers, NEW k \in Keys, Get(recv, k) PROVE Kept \/ Made
  BY <1>1, GetLinks DEF Get
<1>2. ASSUME NEW recv \in Receivers, NEW k \in Keys, NEW v \in Values, Put(recv, k, v) PROVE Kept
  BY <1>2, SetLinks DEF Put
<1>3. ASSUME NEW o \in Touched, NEW k \in Keys,
             JS_DeleteProperty(o, k) \/ js_object_hasOwnProperty(o, k) \/ js_operator_in(o, k)
      PROVE  Kept
  BY <1>3 DEF JS_DeleteProperty, js_object_hasOwnProperty, js_operator_in, Kept
<1>4. ASSUME NEW o \in Touched, NEW k \in Keys, NEW d \in Descriptors,
             js_object_defineProperty(o, k, d)
      PROVE  Kept
  BY <1>4 DEF js_object_defineProperty, Kept
<1>5. ASSUME NEW o \in Touched, js_object_getPrototypeOf(o) PROVE Kept
  BY <1>5 DEF js_object_getPrototypeOf, Kept
<1>6. ASSUME NEW o \in Touched, NEW q \in Live \cup {Nil}, js_object_setPrototypeOf(o, q)
      PROVE  Kept \/ Relinked
  <2>1. o \in Live
    BY DEF Touched
  <2> QED
    BY <1>6, <2>1 DEF js_object_setPrototypeOf, Kept, Relinked
<1>7. ASSUME NEW q \in Touched \cup {Nil}, js_object_create(q) PROVE Kept \/ Made
  <2>1. q \in Live \cup {Nil}
    BY DEF Touched
  <2> QED
    BY <1>7, <2>1 DEF js_object_create, Kept, Made
<1>8. ASSUME NEW f \in Touched, New(f) PROVE Kept \/ Made
  BY <1>8, GetLinks DEF New
<1>9. ASSUME NEW o \in Touched, NEW f \in Touched, js_operator_instanceof(o, f) PROVE Kept \/ Made
  BY <1>9, GetLinks DEF js_operator_instanceof
<1>10. ASSUME ReadDescriptor PROVE Kept \/ Made
  BY <1>10, GetLinks DEF ReadDescriptor, Kept
<1>11. ASSUME Define PROVE Kept
  BY <1>11 DEF Define, Kept
<1>12. ASSUME js_call_constructor_start PROVE Kept \/ Made
  BY <1>12 DEF js_call_constructor_start, Kept, Made
<1>13. ASSUME InstanceOf PROVE Kept
  BY <1>13 DEF InstanceOf, Kept
<1>14. ASSUME NEW v \in Values \cup {Exception}, Return(v) PROVE Kept
  BY <1>14 DEF Return, Kept
<1>15. UNCHANGED vars => Kept
  BY DEF vars, Kept
<1> QED
  BY <1>1, <1>2, <1>3, <1>4, <1>5, <1>6, <1>7, <1>8, <1>9, <1>10, <1>11, <1>12, <1>13, <1>14, <1>15
  DEF Next

\* A new object is pointed to by none, so no cycle goes through it.
LEMMA MadeEnds ==
  ASSUME ObjectsAssumption, IInv, Made
  PROVE  IInv'
<1> DEFINE f == Fresh
<1>1. PICK q \in Live \cup {Nil} : NewObject(q)
  BY DEF Made
<1>2. f \in Objects /\ kind[f] = "free"
  BY DEF Made, HasMemory, Fresh
<1>3. kind' = [kind EXCEPT ![f] = "object"] /\ proto' = [proto EXCEPT ![f] = q]
  BY <1>1 DEF NewObject
<1> HIDE DEF f
<1>4. f \notin Live /\ Live' = Live \cup {f}
  BY <1>2, <1>3 DEF Live, IInv, Linked
<1>5. q \in Objects \cup {Nil}
  BY DEF Live
<1>6. proto'[f] = q /\ \A o \in Objects \ {f} : proto'[o] = proto[o]
  BY <1>2, <1>3 DEF IInv, Linked
<1>7. Linked'
  <2>1. kind' \in [Objects -> {"free", "object", "closure"}]
    BY <1>2, <1>3 DEF IInv, Linked
  <2>2. proto' \in [Objects -> Objects \cup {Nil}]
    BY <1>2, <1>3, <1>5 DEF IInv, Linked
  <2>3. ObjectPrototype \in Live'
    BY <1>4 DEF IInv, Linked
  <2>4. ASSUME NEW o \in Live' PROVE proto'[o] \in Live' \cup {Nil}
    <3>1. CASE o = f
      BY <3>1, <1>1, <1>4, <1>6
    <3>2. CASE o # f
      <4>1. o \in Live /\ o \in Objects
        BY <3>2, <1>4 DEF Live
      <4> QED
        BY <3>2, <4>1, <1>4, <1>6 DEF IInv, Linked
    <3> QED
      BY <3>1, <3>2
  <2> QED
    BY <2>1, <2>2, <2>3, <2>4 DEF Linked
<1>8. ASSUME NEW S \in SUBSET Live', S # {}, \A o \in S : proto'[o] \in S
      PROVE  FALSE
  <2> DEFINE T == S \ {f}
  <2>1. T \subseteq Live
    BY <1>4
  <2>2. f \notin T
    OBVIOUS
  <2>3. T # {}
    <3>1. CASE f \in S
      BY <3>1, <1>1, <1>4, <1>6, <1>8, <1>2 DEF ObjectsAssumption, Live
    <3>2. CASE f \notin S
      BY <3>2, <1>8
    <3> QED
      BY <3>1, <3>2
  <2>4. PICK o \in T : proto[o] \notin T
    BY <2>1, <2>3 DEF IInv, ChainsEnd
  <2>5. o \in Live /\ o \in Objects /\ o # f /\ o \in S
    BY <2>1, <2>2 DEF Live
  <2>6. proto[o] \in S
    BY <2>5, <1>6, <1>8
  <2>7. proto[o] \in Live \cup {Nil} /\ Nil \notin Objects
    BY <2>5 DEF IInv, Linked, ObjectsAssumption
  <2>8. proto[o] # f
    BY <2>7, <1>2, <1>4
  <2> QED
    BY <2>4, <2>6, <2>8
<1>9. ChainsEnd'
  BY <1>8 DEF ChainsEnd
<1> QED
  BY <1>7, <1>9 DEF IInv

\* A cycle through the changed link would go on, from its new end, inside a
\* closed set that has the new end and not the object: without the object it
\* was a cycle before.
LEMMA RelinkedEnds ==
  ASSUME ObjectsAssumption, IInv, Relinked
  PROVE  IInv'
<1>1. PICK o \in Live, q \in Live \cup {Nil} :
        js_set_prototype_internal(o, q) /\ proto' = [proto EXCEPT ![o] = q]
  BY DEF Relinked
<1>2. kind' = kind /\ Live' = Live
  BY DEF Relinked, Live
<1>3. o \in Objects /\ q \in Objects \cup {Nil}
  BY DEF Live
<1>4. proto'[o] = q /\ \A x \in Objects \ {o} : proto'[x] = proto[x]
  BY <1>1, <1>3 DEF IInv, Linked
<1>5. Linked'
  <2>1. proto' \in [Objects -> Objects \cup {Nil}]
    BY <1>1, <1>3 DEF IInv, Linked
  <2>2. ASSUME NEW x \in Live PROVE proto'[x] \in Live \cup {Nil}
    BY <1>4 DEF IInv, Linked, Live
  <2> QED
    BY <2>1, <2>2, <1>2 DEF IInv, Linked
<1>6. ASSUME NEW S \in SUBSET Live, S # {}, \A x \in S : proto'[x] \in S
      PROVE  FALSE
  <2>1. \A x \in S : x \in Objects /\ x # Nil
    BY DEF Live, ObjectsAssumption
  <2>2. PICK y \in S : proto[y] \notin S
    BY <1>6 DEF IInv, ChainsEnd
  <2>3. y = o /\ q \in S /\ proto[o] # q
    BY <2>1, <2>2, <1>4, <1>6
  <2>4. PICK C \in SUBSET Objects : q \in C /\ IsClosed(C) /\ o \notin C
    BY <2>1, <2>3, <1>1 DEF js_set_prototype_internal, OnChain
  <2> DEFINE T == S \cap C
  <2>5. PICK z \in T : proto[z] \notin T
    <3>1. T \subseteq Live /\ q \in T
      BY <2>3, <2>4
    <3> QED
      BY <3>1 DEF IInv, ChainsEnd
  <2>6. z \in S /\ z \in C /\ z # o /\ z \in Objects
    BY <2>1, <2>4
  <2>7. proto[z] \in S
    BY <2>6, <1>4, <1>6
  <2>8. proto[z] \in C
    BY <2>1, <2>4, <2>6, <2>7 DEF IsClosed
  <2> QED
    BY <2>5, <2>7, <2>8
<1>7. ChainsEnd'
  BY <1>6, <1>2 DEF ChainsEnd
<1> QED
  BY <1>5, <1>7 DEF IInv

\* No calls of the script make a cycle of prototypes: every lookup of the
\* engine comes to an end.
THEOREM ChainsAlwaysEnd == ASSUME ObjectsAssumption PROVE Spec => []ChainsEnd
<1>1. Init => IInv
  <2> SUFFICES ASSUME Init PROVE IInv
    OBVIOUS
  <2>1. PICK w \in Worlds : kind = w.kind /\ proto = w.proto
    BY DEF Init
  <2>2. IsWorld(w)
    BY DEF ObjectsAssumption
  <2> QED
    BY <2>1, <2>2 DEF IsWorld, IInv, Linked, ChainsEnd, Live
<1>2. IInv /\ [Next]_vars => IInv'
  <2> SUFFICES ASSUME IInv, [Next]_vars PROVE IInv'
    OBVIOUS
  <2>1. Kept => IInv'
    BY DEF Kept, IInv, Linked, ChainsEnd, Live
  <2>2. Kept \/ Made \/ Relinked
    BY StepLinks DEF IInv
  <2> QED
    BY <2>1, <2>2, MadeEnds, RelinkedEnds
<1>3. IInv => ChainsEnd
  BY DEF IInv
<1> QED
  BY <1>1, <1>2, <1>3, PTL DEF Spec
=============================================================================
