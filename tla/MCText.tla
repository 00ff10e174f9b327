------------------------------- MODULE MCText -------------------------------
(* Texts, for TLC: the compiler and the interpreter of regular expressions  *)
(* (RegExp), strings with their cache of positions (Strings), and the       *)
(* methods that search in them (TextSearch).  A behaviour is one of the     *)
(* three; the others are not there.                                         *)
EXTENDS RegExp

CONSTANTS
    Parts,           \* which of the three
    StringInitials, StringConstants, StringIndices,                  \* of Strings
    SearchPatterns, SearchTexts, Needles, Replacements, Limits, SearchIndices,  \* of TextSearch
    CacheSize, MinLen, MaxUnits, MaxCalls

VARIABLES
    part,
    this, garbage, cache, counter, calls, call, answer,
    searched, within, last_index, asked, outcome

\* Words for the trees.
C(c) == <<"char", c>>
Capture(t) == <<"capture", <<<<t>>>>>>
AorB == <<"capture", << <<C(97)>>, <<C(98)>> >>>>

Atoms ==
    [a |-> C(97), b |-> C(98), e |-> C(233), line |-> C(10), dot |-> <<"dot">>, word |-> <<"set", "w">>,
     space |-> <<"set", "s">>, notdigit |-> <<"set", "D">>,
     range |-> <<"class", << <<97, 97>>, <<"W">> >>, FALSE>>,
     outside |-> <<"class", << <<98, 120>>, <<97, 97>>, <<100, 101>>, <<98, 98>> >>, TRUE>>,
     far |-> <<"class", << <<232, 300>>, <<98, 98>> >>, FALSE>>,
     capture |-> Capture(C(97)), either |-> AorB,
     maybe |-> <<"group", << <<C(97)>>, <<>> >>>>, nothing |-> <<"group", << <<>> >>>>,
     last |-> <<"capture", << <<<<"quant", 0, Infinite, TRUE, C(97)>>>>, <<C(98)>> >>>>,
     back |-> <<"backref", 1>>]
Assertions ==
    [start |-> <<"start">>, end |-> <<"end">>, edge |-> <<"boundary", FALSE>>,
     inside |-> <<"boundary", TRUE>>, ahead |-> <<"look", << <<AorB>>, <<C(98)>> >>, FALSE>>,
     notahead |-> <<"look", << <<Capture(C(97)), C(98)>> >>, TRUE>>]
Quantifiers ==
    [star |-> <<0, Infinite>>, plus |-> <<1, Infinite>>, optional |-> <<0, 1>>, twice |-> <<2, 2>>,
     uptotwo |-> <<0, 2>>, two |-> <<1, 2>>, twomore |-> <<2, Infinite>>, never |-> <<0, 0>>]

Repeated(q, greedy, t) == <<"quant", Quantifiers[q][1], Quantifiers[q][2], greedy, t>>
Term(x) == IF x \in DOMAIN Atoms THEN Atoms[x] ELSE Assertions[x]
Terms == DOMAIN Atoms \cup DOMAIN Assertions
Plain == [multi |-> FALSE, dotall |-> FALSE, icase |-> FALSE, sticky |-> FALSE]

Families ==
    ({"two"} \X (DOMAIN Atoms \ {"word", "space", "notdigit", "range", "line"}) \X (DOMAIN Quantifiers) \X {"a", "either", "back", "edge", "ahead"} \X BOOLEAN)
    \cup ({"nested"} \X {"a", "either", "maybe", "last"} \X (DOMAIN Quantifiers) \X {"star", "twice", "two"} \X BOOLEAN)
    \cup ({"around"} \X (Terms \ {"e", "line"}) \X {"star", "optional"} \X {"a", "capture", "ahead", "notahead", "back"} \X BOOLEAN)
    \cup ({"row"} \X {"a", "e", "line"} \X {"a", "e", "line"} \X {"a", "e", "maybe"} \X BOOLEAN)
    \cup ({"flags"} \X {"multi", "dotall", "icase", "sticky"} \X Terms \X {"a", "dot", "end"} \X {TRUE})

Tree(k) ==
    CASE k[1] = "two" -> << <<Repeated(k[3], k[5], Atoms[k[2]]), Term(k[4])>> >>
      [] k[1] = "nested" ->
           << <<Repeated(k[4], k[5], <<"capture", << <<Repeated(k[3], TRUE, Atoms[k[2]]), C(98)>>,
                                                      <<C(97)>> >>>>), <<"backref", 1>>>> >>
      [] k[1] = "around" ->
           << <<Repeated(k[3], k[5], Capture(<<"group", << <<Term(k[2]), Term(k[4])>>, <<C(98)>> >>>>)),
                <<"backref", 2>>, C(98)>>, <<AorB>> >>
      [] k[1] = "row" -> << <<Atoms[k[2]], Atoms[k[3]],
                                     IF k[5] THEN Atoms[k[4]] ELSE Repeated("optional", TRUE, Atoms[k[4]])>>,
                                   <<C(98)>> >>
      [] k[1] = "flags" -> << <<Term(k[3]), Term(k[4])>>, <<C(98), C(98)>> >>

MCPatterns ==
    [k \in Families |->
        [d |-> Tree(k)] @@ IF k[1] = "flags" THEN [Plain EXCEPT ![k[2]] = TRUE] ELSE Plain]

\* LET: what TLC has computed of them already.
MCCompiled == LET compiled == CompiledPatterns IN compiled

\* "", "ab", "baab", "a", an e with an accent, a line feed and "A".
MCTexts == {<<>>, <<97, 98>>, <<98, 97, 97, 98>>, <<97, 195, 169, 10, 65>>}

Str == INSTANCE Strings WITH
    Initials <- StringInitials, Constants <- StringConstants, Indices <- StringIndices
Search == INSTANCE TextSearch WITH
    Patterns <- SearchPatterns, Texts <- SearchTexts, Indices <- SearchIndices,
    regexp <- searched, text <- within, call <- asked, result <- outcome

MCStringInitials == {<<"a", "S", " ">>}
MCStringConstants == [l |-> <<"l">>, S |-> <<"S">>, ha |-> <<"h", "a">>]
MCStringIndices == {-1, 1, 4}
\* Patterns, texts and replacements of the methods.
SearchTrees ==
    [b |-> << <<C(98)>> >>, ba |-> << <<C(98), C(97)>> >>, dot |-> << <<<<"dot">>>> >>,
     as |-> << << <<"quant", 0, Infinite, TRUE, C(97)>> >> >>,
     aorb |-> << <<Capture(C(97))>>, <<C(98)>> >>, pair |-> << <<Capture(C(97)), Capture(C(98))>> >>,
     end |-> << << <<"end">> >> >>, edge |-> << << <<"boundary", FALSE>> >> >>]
MCSearchPatterns ==
    [k \in (DOMAIN SearchTrees) \X {"", "g", "y", "gy"} |->
        [d |-> SearchTrees[k[1]], multi |-> FALSE, dotall |-> FALSE, icase |-> FALSE,
         sticky |-> k[2] \in {"y", "gy"}, global |-> k[2] \in {"g", "gy"}]]
MCSearchTexts == {<<>>, <<97>>, <<97, 98>>, <<98, 97, 97, 98>>, <<97, 32, 97, 98, 97, 98>>}
MCNeedles == {<<>>, <<97>>, <<97, 98>>, <<98, 98>>}
MCReplacements ==
    {<< <<"text", <<91>>>>, <<"group", 1>>, <<"text", <<93>>>> >>,
     << <<"before">>, <<"match">>, <<"text", <<120>>>>, <<"after">> >>,
     << <<"dollar">>, <<"text", <<36, 57, 57, 36>>>> >>}
MCLimits == {-1, 0, 1, 2}
MCSearchIndices == {-1, 1, 2, 9}

matcherVars == vars
stringVars == <<this, garbage, cache, counter, calls, call, answer>>
searchVars == <<searched, within, last_index, asked, outcome>>
allVars == <<part, matcherVars, stringVars, searchVars>>

\* What the parts that are not there have for state.
Off == <<>>

InitAll ==
    /\ part \in Parts
    /\ \/ part = "matcher" /\ Init
       \/ part # "matcher" /\ regexp = Off /\ text = Off /\ pc = Off /\ cptr = Off
                        /\ capture = Off /\ stack = Off /\ bp = Off /\ rc = Running
    /\ Str!Init /\ (part # "strings" => this.chars = CHOOSE cs \in StringInitials : TRUE)
    /\ \/ part = "search" /\ Search!Init
       \/ part # "search" /\ searched = Off /\ within = Off /\ last_index = Off
                        /\ asked = Off /\ outcome = Off

MatcherStep == part = "matcher" /\ Next /\ UNCHANGED <<part, stringVars, searchVars>>
StringStep == part = "strings" /\ Str!Next /\ UNCHANGED <<part, matcherVars, searchVars>>
SearchStep == part = "search" /\ Search!Next /\ UNCHANGED <<part, matcherVars, stringVars>>

NextAll == MatcherStep \/ StringStep \/ SearchStep

SpecAll == InitAll /\ [][NextAll]_allVars

-----------------------------------------------------------------------------
(* What the run checks; the parts are named in the components' modules.     *)

\* The types of the states of all three.
TypesOK ==
    /\ part = "matcher" => TypeOK
    /\ part = "strings" => Str!TypeOK
    /\ part = "search" => Search!TypeOK

\* The interpreter finds the match and the groups that the pattern means, unless
\* a character of several bytes is right after another one, and the methods of
\* strings and regular expressions say what ECMAScript says but for the
\* differences that SearchesAsWritten names.
FindsAsWritten ==
    /\ part = "matcher" => MatchesAsWritten
    /\ part = "search" => Search!SearchesAsWritten

\* An entry of the cache of positions is about the string that has its address.
CacheIsRight == part = "strings" => Str!CacheIsRight

\* The methods of a string do with it what they would do with its UTF-16 units.
AnswersInUnits == Str!AnswersInUnits
=============================================================================
