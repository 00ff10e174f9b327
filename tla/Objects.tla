------------------------------ MODULE Objects ------------------------------
(***************************************************************************)
(* The objects of the engine: own properties, prototype chains, accessors, *)
(* and the built-in operations of Object and Function that work on them.   *)
(*                                                                         *)
(* A property lookup walks the prototype chain and may call a function the *)
(* script wrote (a getter or a setter), in which anything may happen       *)
(* before the lookup's caller goes on.  A running function is a frame; the *)
(* operations which go on after a call (Object.defineProperty, new,        *)
(* instanceof) are frames too, with what they have read so far.            *)
(*                                                                         *)
(* A property's hash table is the subject of PropertyTable and the machine *)
(* which calls functions of Interp and Calls; here a table is a function   *)
(* from names to slots and a call is a frame.                              *)
(***************************************************************************)
EXTENDS Integers, Sequences, TLC

CONSTANTS
  Objects,            \* the objects there is memory for
  Nil,                \* the end of a prototype chain
  ObjectPrototype,
  FunctionPrototype,
  Keys,               \* the names the script uses
  Worlds,             \* the heaps the script may start with
  Untouched,          \* bound: objects whose slots and chain the script leaves alone
  MaxSteps, MaxDepth  \* bounds: operations of the script, nested calls

\* What has been made in a world is linked by prototypes without a cycle.
IsWorld(w) ==
  LET there == {o \in Objects : w.kind[o] # "free"}
  IN  /\ w.kind \in [Objects -> {"free", "object", "closure"}]
      /\ w.proto \in [Objects -> Objects \cup {Nil}]
      /\ ObjectPrototype \in there
      /\ \A o \in there : w.proto[o] \in there \cup {Nil}
      /\ \A S \in SUBSET there : S # {} => \E o \in S : w.proto[o] \notin S

ObjectsAssumption ==
  /\ Nil \notin Objects
  /\ {ObjectPrototype, FunctionPrototype} \subseteq Objects
  /\ \A w \in Worlds : IsWorld(w)

VARIABLES
  kind,    \* of each object: "free", "object" or "closure"
  proto,   \* of each object: the object its lookups go on with
  props,   \* of each object: its own slots, by name
  frames,  \* the running functions, the last called first
  made,    \* of each object: the function whose instance it is known to be
  steps    \* the operations the script has performed

vars == <<kind, proto, props, frames, made, steps>>

(***************************************************************************)
(* Values and slots.                                                       *)
(***************************************************************************)
Undefined == <<"undefined">>
Exception == <<"exception">>
Bool(b) == <<"bool", b>>
Number(n) == <<"number", n>>
Ref(o) == <<"object", o>>
Builtin(name) == <<"function", name>>

Normal(v) == [type |-> "normal", value |-> v, setter |-> Undefined]
GetSet(g, s) == [type |-> "getset", value |-> g, setter |-> s]

Live == {o \in Objects : kind[o] # "free"}

JS_IsObject(v) == \E o \in Live : v = Ref(o)

IsClosure(v) == \E o \in Live : v = Ref(o) /\ kind[o] = "closure"

Own(o, k) == k \in DOMAIN props[o]

\* The object on the chain of o which has a property of that name first.
find_property(o, k) ==
  LET find[p \in Objects] == IF Own(p, k) THEN p
                             ELSE IF proto[p] = Nil THEN Nil
                             ELSE find[proto[p]]
  IN  find[o]

\* The chain which starts with q is within every closed set that has q: the
\* loop which looks for a cycle meets p exactly when p is in all of them.
IsClosed(C) == \A o \in C : proto[o] \in C \cup {Nil}

OnChain(p, q) == \A C \in SUBSET Objects : q \in C /\ IsClosed(C) => p \in C

(***************************************************************************)
(* Frames.  `ret` is what the last operation under a frame gave it.        *)
(***************************************************************************)
\* `use` says what becomes of the result: it is the value of the operation,
\* it is dropped (a setter), or `this` stands for it unless it is an object.
ScriptFrame(f, this, arg, use) ==
  [fn |-> "script", callee |-> f, this |-> this, arg |-> arg, use |-> use,
   ret |-> Undefined]

DescriptorKeys == <<"value", "get", "set">>

DefineFrame(o, k, d) ==
  [fn |-> "define", obj |-> o, key |-> k, desc |-> d, stage |-> 1, asked |-> {},
   value |-> Undefined, get |-> Undefined, set |-> Undefined, ret |-> Undefined]

NewFrame(f, known) ==
  [fn |-> "new", callee |-> f, known |-> known, ret |-> Undefined]

InstanceFrame(o, f) ==
  [fn |-> "instanceof", obj |-> o, callee |-> f, ret |-> Undefined]

Running == Head(frames)

\* The value is the result of the operation the topmost of fs waits for.
Give(fs, v) == frames' = <<[Head(fs) EXCEPT !.ret = v]>> \o Tail(fs)

\* Only a function can be called.
Call(fs, f, this, arg, use) ==
  IF IsClosure(f) THEN frames' = <<ScriptFrame(f[2], this, arg, use)>> \o fs
                  ELSE Give(fs, Exception)

(***************************************************************************)
(* The heap.                                                               *)
(***************************************************************************)
HasMemory == \E o \in Objects : kind[o] = "free"

Fresh == CHOOSE o \in Objects : kind[o] = "free"

NewObject(q) ==
  /\ kind' = [kind EXCEPT ![Fresh] = "object"]
  /\ proto' = [proto EXCEPT ![Fresh] = q]

With(ps, o, k, slot) == [ps EXCEPT ![o] = (k :> slot) @@ @]

\* An accessor keeps the half that is not given; a property keeps its kind.
Redefined(old, new) ==
  IF old.type # new.type THEN old
  ELSE IF new.type = "normal" THEN new
  ELSE GetSet(IF new.value # Undefined THEN new.value ELSE old.value,
              IF new.setter # Undefined THEN new.setter ELSE old.setter)

JS_DefineProperty(o, k, slot) ==
  With(props, o, k, IF Own(o, k) THEN Redefined(props[o][k], slot) ELSE slot)

\* A function's prototype is made when it is first asked for.
js_function_get_prototype(fs, this) ==
  IF ~IsClosure(this)
  THEN /\ Give(fs, IF JS_IsObject(this) THEN Exception ELSE Undefined)
       /\ UNCHANGED <<kind, proto, props>>
  ELSE IF ~HasMemory
  THEN Give(fs, Exception) /\ UNCHANGED <<kind, proto, props>>
  ELSE /\ NewObject(ObjectPrototype)
       /\ props' = With(JS_DefineProperty(this[2], "prototype", Normal(Ref(Fresh))),
                        Fresh, "constructor", Normal(this))
       /\ Give(fs, Ref(Fresh))

js_function_set_prototype(fs, this, v) ==
  /\ UNCHANGED <<kind, proto>>
  /\ IF IsClosure(this)
     THEN /\ props' = JS_DefineProperty(this[2], "prototype", Normal(v))
          /\ Give(fs, Undefined)
     ELSE Give(fs, Exception) /\ UNCHANGED props

\* Where the lookups of a value that may not be an object start.
StartOf(recv) == IF JS_IsObject(recv) THEN recv[2]
                 ELSE IF recv = Undefined THEN Nil
                 ELSE FunctionPrototype

JS_GetProperty(fs, recv, k) ==
  LET h == IF StartOf(recv) = Nil THEN Nil ELSE find_property(StartOf(recv), k)
      Slot == props[h][k]
      Gives(v) == Give(fs, v) /\ UNCHANGED <<kind, proto, props>>
  IN  IF StartOf(recv) = Nil THEN Gives(Exception)
      ELSE IF h = Nil THEN Gives(Undefined)
      ELSE IF Slot.type = "normal" THEN Gives(Slot.value)
      ELSE IF Slot.value = Undefined THEN Gives(Undefined)
      ELSE IF Slot.value = Builtin("get prototype")
      THEN js_function_get_prototype(fs, recv)
      ELSE Call(fs, Slot.value, recv, Undefined, "value") /\ UNCHANGED <<kind, proto, props>>

\* Fault of SlotToSet: the search stops at the object's own slots.
SlotToSet_Own(recv, k) ==
  IF JS_IsObject(recv) /\ Own(recv[2], k) THEN recv[2] ELSE Nil

\* The own slot if there is one, else the first above it: an accessor is
\* called, and anything else leaves the object to get a slot of its own.
SlotToSet(recv, k) ==
  LET p == StartOf(recv)
  IN  IF ~JS_IsObject(recv) \/ Own(p, k) THEN find_property(p, k)
      ELSE IF proto[p] = Nil THEN Nil
      ELSE find_property(proto[p], k)

JS_SetProperty(fs, recv, k, v) ==
  LET h == IF StartOf(recv) = Nil THEN Nil ELSE SlotToSet(recv, k)
      Stays == UNCHANGED <<kind, proto, props>>
  IN  IF StartOf(recv) = Nil THEN Give(fs, Exception) /\ Stays
      ELSE IF h # Nil /\ props[h][k].type = "getset"
      THEN IF props[h][k].setter = Builtin("set prototype")
           THEN js_function_set_prototype(fs, recv, v)
           ELSE Call(fs, props[h][k].setter, recv, v, "drop") /\ Stays
      ELSE IF ~JS_IsObject(recv) THEN Give(fs, Exception) /\ Stays
      ELSE /\ props' = With(props, recv[2], k, Normal(v))
           /\ Give(fs, Undefined)
           /\ UNCHANGED <<kind, proto>>

(***************************************************************************)
(* What the script does.  An instance is known as long as neither the      *)
(* function's prototype nor the object's is touched.                       *)
(***************************************************************************)
Script ==
  /\ Running.fn = "script"
  /\ steps < MaxSteps /\ Len(frames) <= MaxDepth
  /\ steps' = steps + 1

Forget(f, k) ==
  made' = IF k = "prototype" THEN [o \in Objects |-> IF made[o] = f THEN Nil ELSE made[o]]
                             ELSE made

Get(recv, k) ==
  /\ Script
  /\ JS_GetProperty(frames, recv, k)
  /\ UNCHANGED made

Put(recv, k, v) ==
  /\ Script
  /\ JS_SetProperty(frames, recv, k, v)
  /\ Forget(StartOf(recv), k)

JS_DeleteProperty(o, k) ==
  /\ Script
  /\ props' = [props EXCEPT ![o] = [x \in DOMAIN @ \ {k} |-> @[x]]]
  /\ Give(frames, Bool(TRUE))
  /\ Forget(o, k)
  /\ UNCHANGED <<kind, proto>>

js_object_hasOwnProperty(o, k) ==
  /\ Script
  /\ Give(frames, Bool(Own(o, k)))
  /\ UNCHANGED <<kind, proto, props, made>>

js_operator_in(o, k) ==
  /\ Script
  /\ Give(frames, Bool(find_property(o, k) # Nil))
  /\ UNCHANGED <<kind, proto, props, made>>

js_object_getPrototypeOf(o) ==
  /\ Script
  /\ Give(frames, IF proto[o] = Nil THEN Undefined ELSE Ref(proto[o]))
  /\ UNCHANGED <<kind, proto, props, made>>

\* Fault of js_set_prototype_internal: only the object itself is looked at.
js_set_prototype_internal_Direct(o, q) == q # o

js_set_prototype_internal(o, q) ==
  proto[o] # q => (q # Nil => ~OnChain(o, q))

js_object_setPrototypeOf(o, q) ==
  /\ Script
  /\ IF js_set_prototype_internal(o, q)
     THEN /\ proto' = [proto EXCEPT ![o] = q]
          /\ made' = IF proto[o] = q THEN made ELSE [made EXCEPT ![o] = Nil]
          /\ Give(frames, Ref(o))
     ELSE Give(frames, Exception) /\ UNCHANGED <<proto, made>>
  /\ UNCHANGED <<kind, props>>

js_object_create(q) ==
  /\ Script
  /\ IF HasMemory
     THEN NewObject(q) /\ Give(frames, Ref(Fresh))
     ELSE Give(frames, Exception) /\ UNCHANGED <<kind, proto>>
  /\ UNCHANGED <<props, made>>

(***************************************************************************)
(* Object.defineProperty: reads the descriptor, which may call functions   *)
(* of the script, then defines.  The result of the definition is ignored.  *)
(***************************************************************************)
js_object_defineProperty(o, k, d) ==
  /\ Script
  /\ frames' = <<DefineFrame(o, k, d)>> \o frames
  /\ UNCHANGED <<kind, proto, props, made>>

\* The frame with the answer it waited for.
Taken(fr) ==
  IF fr.stage - 1 \in fr.asked
  THEN CASE fr.stage = 2 -> [fr EXCEPT !.value = fr.ret]
         [] fr.stage = 3 -> [fr EXCEPT !.get = fr.ret]
         [] fr.stage = 4 -> [fr EXCEPT !.set = fr.ret]
  ELSE fr

ReadDescriptor ==
  LET fr == [Taken(Running) EXCEPT !.stage = @ + 1]
      k == DescriptorKeys[Running.stage]
  IN  /\ Running.fn = "define" /\ Running.stage <= 3
      /\ IF find_property(fr.desc, k) = Nil
         THEN /\ frames' = <<fr>> \o Tail(frames)
              /\ UNCHANGED <<kind, proto, props>>
         ELSE JS_GetProperty(<<[fr EXCEPT !.asked = @ \cup {Running.stage}]>> \o Tail(frames),
                             Ref(fr.desc), k)
      /\ UNCHANGED <<made, steps>>

Define ==
  LET fr == Taken(Running)
  IN  /\ Running.fn = "define" /\ Running.stage = 4
      /\ IF fr.asked = {}
         THEN /\ Give(Tail(frames), Exception)
              /\ UNCHANGED <<props, made>>
         ELSE /\ props' = JS_DefineProperty(fr.obj, fr.key,
                            IF 1 \in fr.asked THEN Normal(fr.value)
                                              ELSE GetSet(fr.get, fr.set))
              /\ Give(Tail(frames), Ref(fr.obj))
              /\ Forget(fr.obj, fr.key)
      /\ UNCHANGED <<kind, proto, steps>>

(***************************************************************************)
(* new and instanceof ask the function for its prototype.                  *)
(***************************************************************************)
\* The function's prototype is its own or will be made for it.
HasKnownPrototype(f) ==
  LET h == find_property(f, "prototype")
  IN  \/ h = FunctionPrototype /\ props[h]["prototype"].value = Builtin("get prototype")
      \/ (h = f /\ props[f]["prototype"].type = "normal")

New(f) ==
  /\ Script
  /\ JS_GetProperty(<<NewFrame(f, HasKnownPrototype(f))>> \o frames, Ref(f), "prototype")
  /\ UNCHANGED made

js_call_constructor_start ==
  /\ Running.fn = "new"
  /\ IF Running.ret = Exception \/ ~HasMemory
     THEN Give(Tail(frames), Exception) /\ UNCHANGED <<kind, proto, made>>
     ELSE /\ \E q \in Live :
               /\ q = IF JS_IsObject(Running.ret) THEN Running.ret[2] ELSE ObjectPrototype
               /\ NewObject(q)
          /\ frames' = <<ScriptFrame(Running.callee, Ref(Fresh), Undefined, "construct")>>
                         \o Tail(frames)
          /\ made' = IF Running.known /\ JS_IsObject(Running.ret)
                     THEN [made EXCEPT ![Fresh] = Running.callee] ELSE made
  /\ UNCHANGED <<props, steps>>

js_operator_instanceof(o, f) ==
  /\ Script
  /\ JS_GetProperty(<<InstanceFrame(o, f)>> \o frames, Ref(f), "prototype")
  /\ UNCHANGED made

IsAbove(o, v) ==
  LET above[p \in Objects] == IF proto[p] = Nil THEN FALSE
                              ELSE IF Ref(proto[p]) = v THEN TRUE
                              ELSE above[proto[p]]
  IN  above[o]

InstanceOf ==
  /\ Running.fn = "instanceof"
  /\ Give(Tail(frames), IF Running.ret = Exception THEN Exception
                        ELSE Bool(IsAbove(Running.obj, Running.ret)))
  /\ UNCHANGED <<kind, proto, props, made, steps>>

(***************************************************************************)
(* A function ends.  A function that throws inside Object.defineProperty   *)
(* is left out: what it throws is taken for a value.                       *)
(***************************************************************************)
Return(v) ==
  /\ Running.fn = "script" /\ Len(frames) > 1
  /\ v = Exception => frames[2].fn # "define"
  /\ Give(Tail(frames), CASE v = Exception -> v
                          [] Running.use = "drop" /\ v # Exception -> Undefined
                          [] Running.use = "construct" /\ v # Exception ->
                               IF JS_IsObject(v) THEN v ELSE Running.this
                          [] OTHER -> v)
  /\ UNCHANGED <<kind, proto, props, made, steps>>

(***************************************************************************)
(* The specification.                                                      *)
(***************************************************************************)
Touched == Live \ Untouched

Values == {Undefined, Number(1)} \cup {Ref(o) : o \in Touched}

Receivers == {Ref(o) : o \in Touched} \cup {Undefined, Builtin("get prototype")}

Descriptors ==
  {d \in Live : \E k \in {"value", "get", "set"} : Own(d, k)} \cup {ObjectPrototype}

Init ==
  /\ \E w \in Worlds : kind = w.kind /\ proto = w.proto /\ props = w.props
  /\ frames = <<ScriptFrame(Nil, Undefined, Undefined, "value")>>
  /\ made = [o \in Objects |-> Nil]
  /\ steps = 0

Next ==
  \/ \E recv \in Receivers, k \in Keys : Get(recv, k) \/ \E v \in Values : Put(recv, k, v)
  \/ \E o \in Touched, k \in Keys :
       JS_DeleteProperty(o, k) \/ js_object_hasOwnProperty(o, k) \/ js_operator_in(o, k)
  \/ \E o \in Touched, k \in Keys, d \in Descriptors : js_object_defineProperty(o, k, d)
  \/ \E o \in Touched : js_object_getPrototypeOf(o)
  \/ \E o \in Touched, q \in Live \cup {Nil} : js_object_setPrototypeOf(o, q)
  \/ \E q \in Touched \cup {Nil} : js_object_create(q)
  \/ \E f \in Touched : kind[f] = "closure" /\ New(f)
  \/ \E o \in Touched, f \in Touched : kind[f] = "closure" /\ js_operator_instanceof(o, f)
  \/ ReadDescriptor
  \/ Define
  \/ js_call_constructor_start
  \/ InstanceOf
  \/ \E v \in Values \cup {Exception} : Return(v)

Spec == Init /\ [][Next]_vars

(***************************************************************************)
(* Properties.                                                             *)
(***************************************************************************)
\* Types: no slot holds the mark of an exception, and every object on a chain
\* or in a slot is one that was made.
TypeOK ==
  /\ kind \in [Objects -> {"free", "object", "closure"}]
  /\ proto \in [Objects -> Objects \cup {Nil}]
  /\ \A o \in Live : proto[o] \in Live \cup {Nil}
  /\ \A o \in Objects : \A k \in DOMAIN props[o] :
       /\ props[o][k].type \in {"normal", "getset"}
       /\ {props[o][k].value, props[o][k].setter}
            \subseteq {Undefined, Number(1)} \cup {Ref(x) : x \in Live} \cup {Builtin("get prototype"), Builtin("set prototype")}
  /\ Len(frames) \in 1 .. 2 * MaxDepth + 2
  /\ made \in [Objects -> Objects \cup {Nil}]
  /\ steps \in 0 .. MaxSteps

\* Every prototype chain ends: no set of objects has all its prototypes in
\* itself, whatever order the script sets prototypes and makes objects in.
\* Every lookup of the engine loops until the chain ends.
ChainsEnd ==
  \A S \in SUBSET Live : S # {} => \E o \in S : proto[o] \notin S

\* What `new` made stays an instance of its function until one of the two
\* prototypes is set: the prototype that a function is given when it is first
\* asked for is the one it keeps, whoever asked and whatever was called between.
InstancesAreKept ==
  \A o \in Objects : made[o] # Nil =>
    /\ proto[o] # Nil
    /\ "prototype" \in DOMAIN props[made[o]]
    /\ props[made[o]]["prototype"].type = "normal"
    /\ props[made[o]]["prototype"].value = Ref(proto[o])

\* The objects on the chain of o, and the first of them that has the name.
Chain(o) ==
  LET chain[p \in Objects] == {p} \cup IF proto[p] = Nil THEN {} ELSE chain[proto[p]]
  IN  chain[o]

Holders(o, k) == {h \in Chain(o) : Own(h, k)}

First(o, k) ==
  CHOOSE h \in Holders(o, k) : \A x \in Holders(o, k) : h \in Chain(x) => x = h

Accessor(o, k) == Holders(o, k) # {} /\ props[First(o, k)][k].type = "getset"

AsRead(o, k) ==
  IF Holders(o, k) = {} THEN frames'[1].ret = Undefined
  ELSE LET v == props[First(o, k)][k].value
       IN  IF ~Accessor(o, k) THEN frames'[1].ret = v
           ELSE IsClosure(v) =>
                  frames' = <<ScriptFrame(v[2], Ref(o), Undefined, "value")>> \o frames

AsAssigned(o, k, v) ==
  IF Accessor(o, k)
  THEN LET s == props[First(o, k)][k].setter
       IN  IsClosure(s) => /\ frames' = <<ScriptFrame(s[2], Ref(o), v, "drop")>> \o frames
                           /\ props' = props
  ELSE /\ props'[o] = (k :> Normal(v)) @@ props[o]
       /\ \A x \in Objects \ {o} : props'[x] = props[x]

\* A read answers with the first property on the chain and an assignment
\* changes the object it names and no other; the function of an accessor that
\* is inherited is called for that object, not for the one which holds it.
LookupsAsWritten ==
  [][steps' # steps => \A o \in Touched, k \in Keys :
       /\ Get(Ref(o), k) => AsRead(o, k)
       /\ \A v \in Values : Put(Ref(o), k, v) => AsAssigned(o, k, v)]_vars
=============================================================================
