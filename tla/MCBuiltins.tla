----------------------------- MODULE MCBuiltins -----------------------------
(* The values of the standard library, for TLC: JSON, digests and equality  *)
(* (Json), arrays (Arrays), objects and their prototypes (Objects).  A      *)
(* behaviour is one of the three; the others stay as they began.            *)
EXTENDS Objects

CONSTANTS
    Parts,      \* which of the three
    Kind, Initials, Names, Scalars, Replacements, Foreign, MaxEdits, MaxGarbled, \* of Json, its Keys here Names
    MaxCalls    \* of Arrays

VARIABLES
    part,
    heap, edits, text, parsed, digest,
    tab, len, frame, returned, calls, thrown

\* A function (3), a plain object (4) and a descriptor (5), and memory for two
\* more objects.  The worlds differ in what the two objects have.
NoProps == <<>>

World(plain, descriptor, plainProto) ==
  [kind |-> <<"object", "object", "closure", "object", "object", "free", "free">>,
   proto |-> <<0, 1, 2, plainProto, 1, 0, 0>>,
   props |-> << NoProps,
                "prototype" :> GetSet(Builtin("get prototype"), Builtin("set prototype")),
                NoProps, plain, descriptor, NoProps, NoProps >>]

MCWorlds ==
  { World("p" :> GetSet(Ref(3), Ref(3)), "value" :> Normal(Number(1)), 1),
    World("p" :> Normal(Number(1)), "get" :> Normal(Ref(3)), 3),
    World(NoProps, ("value" :> GetSet(Ref(3), Undefined)) @@ ("set" :> Normal(Ref(3))), 5),
    World(NoProps, ("p" :> GetSet(Undefined, Ref(3))) @@ ("get" :> Normal(Undefined)), 5) }

J == INSTANCE Json WITH Keys <- Names

\* Two objects and an array that refer to each other, and damage to texts.
JsonUndefined == <<"undefined", <<>>>>
JsonNull == <<"null", <<>>>>
LetterA == <<97>>
QuoteKey == <<34, 10>>
LettersABCD == <<65, 66, 67, 68>>
JsonNumber == <<"num", <<-1>>>>
JsonSeven == <<"num", <<7>>>>
JsonText == <<"str", <<92, 31>>>>
MCKind == <<"object", "object", "array">>
MCNames == {LetterA, QuoteKey, LettersABCD}
MCScalars == {JsonNumber, JsonText}
MCInitials == {
    <<(<<(<<LettersABCD, <<"ref", <<2>>>>>>), (<<LetterA, JsonSeven>>)>>), (<<(<<LetterA, JsonNumber>>)>>), <<JsonUndefined>> >>,
    <<(<<(<<LettersABCD, <<"ref", <<3>>>>>>)>>), (<<(<<QuoteKey, JsonNull>>), (<<LetterA, JsonUndefined>>)>>), <<JsonNumber, JsonNull>> >>,
    <<(<<(<<QuoteKey, JsonNumber>>), (<<LetterA, JsonText>>)>>), (<<(<<LetterA, JsonText>>), (<<QuoteKey, JsonNumber>>)>>), <<>> >>}
MCReplacements == {<<>>, <<44>>, <<58>>, <<91>>, <<93>>, <<123>>, <<125>>,
    <<44, 34, 97, 34, 58, 49, 44>>, <<93, 44, 93>>, <<32, 125>>, <<45>>,
    <<58, 48>>, <<46, 44>>, <<46, 125>>, <<11, 44>>,   \* :0  .,  .}  and a tab
    <<44, 34, 92, 120, 54, 50, 34, 58, 49, 44>>,       \* ,"\x62":1,
    <<44, 34, 92, 117, 123, 54, 50, 125, 34, 58, 49, 44>>, \* ,"\u{62}":1,
    <<44, 34, 92, 97, 34, 58, 49, 44>>,                \* ,"\a":1,
    <<44, 34, 92, 99, 34, 58, 34, 92, 118, 9, 92, 48, 34, 44>>} \* ,"\c":"\v<tab>\0",
MCForeign == {<<98>>, <<99>>, <<11, 9, 0>>}

ArrayInitials == {<<1>>, <<2, 3, 1, 2>>}
ArrayItems == {<<1>>, <<3, 2>>}
ArrayInts == {-1, 0, 2}
Halved(v) == v \div 2

Arr == INSTANCE Arrays WITH
    Values <- {1, 2, 3}, Initials <- ArrayInitials, Returned <- {0, 2}, Items <- ArrayItems,
    Ints <- ArrayInts, MaxLen <- 5, Key <- Halved, Throws <- {"forEach", "map", "reduce", "sort"},
    result <- returned

\* The constants are what the module of the objects assumes.
ASSUME ObjectsAreAsAssumed == ObjectsAssumption

jsonVars == <<heap, edits, text, parsed, digest>>
arrayVars == <<tab, len, frame, returned, calls, thrown>>
objectVars == vars
allVars == <<part, jsonVars, arrayVars, objectVars>>

InitAll ==
    /\ part \in Parts
    /\ J!Init /\ (part # "json" => heap = CHOOSE h \in Initials : TRUE)
    /\ Arr!Init /\ (part # "arrays" => tab = <<1>>)
    /\ Init /\ (part # "objects" =>
                   LET w == CHOOSE w \in Worlds : TRUE
                   IN kind = w.kind /\ proto = w.proto /\ props = w.props)

JsonStep ==
    /\ part = "json" /\ J!Next
    /\ UNCHANGED <<part, arrayVars, objectVars>>
ArrayStep ==
    /\ part = "arrays" /\ Arr!Next
    /\ UNCHANGED <<part, jsonVars, objectVars>>
ObjectStep ==
    /\ part = "objects" /\ Next
    /\ UNCHANGED <<part, jsonVars, arrayVars>>
NextAll == JsonStep \/ ArrayStep \/ ObjectStep

SpecAll == InitAll /\ [][NextAll]_allVars

-----------------------------------------------------------------------------
(* What the run checks; the parts are named in the components' modules.     *)

\* The types of the states of all three.
TypesOK ==
    /\ part = "json" => J!TypeOK
    /\ part = "arrays" => Arr!TypeOK
    /\ part = "objects" => TypeOK

\* Texts and digests depend on the value alone, JSON.parse accepts a grammar, that
\* of JSON with some liberties, and plain objects are === when their trees are.
JsonAsWritten ==
    part = "json" =>
        /\ J!CanonicalText /\ J!ParsesJson /\ J!DigestFollowsValue
        /\ text = <<>> /\ digest = <<>> => J!EqualityIsStructural

\* What v === w is, w === v is.
EqualityIsAgreed == part = "json" => J!EqualityIsSymmetric

\* The methods of arrays do what Lists says of a sequence, whatever their
\* callbacks and the conversions of their arguments do to the array meanwhile:
\* reduceRight ends early when its callback makes the array shorter, and sort
\* goes on in some order when its callback throws.
ImplementsLists == Arr!ImplementsLists

\* A property is read from the first object of the chain that has it, and is
\* assigned where the setter or the object itself says; what `new` made stays
\* an instance of its function.
ReadsAsWritten == LookupsAsWritten /\ [](part = "objects" => InstancesAreKept)
=============================================================================
