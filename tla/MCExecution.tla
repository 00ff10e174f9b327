---------------------------- MODULE MCExecution ----------------------------
(* What runs code and what makes it, for TLC: the compiler of scripts and   *)
(* the machine it compiles for (Script), the opcodes of calls (Calls), and  *)
(* the front end of the other language, whose output is a script            *)
(* (Compiler).  A behaviour is one of the three; the others are not there.  *)
EXTENDS MCScript

CONSTANTS
    Parts,           \* which of them
    Closures, ParameterCount, Accessors, MaxDepth, MaxCalls,  \* of Calls
    CompilerPrograms, CompilerDamages   \* of Compiler

VARIABLES
    part,
    words, callees, calling, boundOnes, due, calls,
    meant, written, lexemes, place, declarations, phase, verdict, output

-----------------------------------------------------------------------------
Opcodes == INSTANCE Calls WITH stack <- words, frames <- callees, bound <- boundOnes
FrontEnd == INSTANCE Compiler WITH Programs <- CompilerPrograms, Damages <- CompilerDamages,
                              program <- meant, source <- written,
                                tokens <- lexemes, position <- place

MCParameterCount == "f" :> 2 @@ "g" :> 0
\* For the front end: programs of a function or a route of one or two
\* statements, alone and with other declarations around it.
Named(name) == [awaited |-> FALSE, name |-> name]
Await(name) == [awaited |-> TRUE, name |-> name]
Then(operator, operand) == [operator |-> operator, operand |-> operand]

Expressions ==
  { [first |-> Named("a"), rest |-> <<>>],
    [first |-> Await("a"), rest |-> <<>>],
    [first |-> Named("1.5"), rest |-> <<Then("*", Named("2")), Then("-", Named("true"))>>],
    [first |-> Named("1"), rest |-> <<Then("+", Await("a"))>>],
    [first |-> Named("a"), rest |-> <<Then("|>", Named("g")), Then("|>", Named("h"))>>],
    [first |-> Await("a"), rest |-> <<Then("|>", Named("g"))>>],
    [first |-> Named("'s'"), rest |-> <<Then("|>", Named("g"))>>] }
Statements == [variable : {"", "x"}, value : Expressions]
Bodies ==
  {<<s>> : s \in Statements} \cup {<<s, t>> : s \in {u \in Statements : u.variable = "x"}, t \in Statements}
Small ==
  {[kind |-> k, params |-> p, effects |-> <<>>, body |-> b] :
      k \in {"function", "api"}, p \in {<<>>, <<"x", "b">>}, b \in Bodies}
Effectful ==
  {[kind |-> k, params |-> <<>>, effects |-> e, body |-> <<s>>] :
      k \in {"function", "api"}, e \in {<<"Async">>, <<"Async", "DbWrite">>}, s \in Statements}
OtherDeclarations == {[kind |-> "import"], [kind |-> "serve"], [kind |-> "routes"]}

MCCompilerPrograms ==
  {<<f>> : f \in Small \cup Effectful}
    \cup {<<e, f>> : e \in {e \in Effectful : Len(e.effects) = 1},
                     f \in {f \in Small : Len(f.body) = 1 /\ f.params = <<>>}}
    \cup {<<d, f>> : d \in OtherDeclarations,
                     f \in {f \in Small : Len(f.body) = 1 /\ f.params = <<>>}}
    \cup {<<f, d, f>> : d \in OtherDeclarations,
                        f \in {f \in Small : Len(f.body) = 1 /\ f.params # <<>>}}
MCCompilerDamages == 0..24

\* LET: what TLC has computed of them already.
MCCode == LET code == CompiledPrograms IN code
MCMeanings == LET meanings == MeaningsOfPrograms IN meanings

scriptVars == <<program, frames, heap, refs, globals, thrown, outcome>>
opcodeVars == <<words, callees, calling, boundOnes, due, calls>>
frontVars == <<meant, written, lexemes, place, declarations, phase, verdict, output>>
allVars == <<part, scriptVars, opcodeVars, frontVars>>

\* What the parts that are not there have for state.
Off == <<>>

InitAll ==
    /\ part \in Parts
    /\ \/ part = "script" /\ Init
       \/ part # "script" /\ program = Off /\ frames = Off /\ heap = Off /\ refs = Off
                        /\ globals = Off /\ thrown = Off /\ outcome = Off
    /\ \/ part = "opcodes" /\ Opcodes!Init
       \/ part # "opcodes" /\ words = Off /\ callees = Off /\ calling = Off
                        /\ boundOnes = Off /\ due = Off /\ calls = Off
    /\ \/ part = "front" /\ FrontEnd!Init
       \/ part # "front" /\ meant = Off /\ written = Off /\ lexemes = Off /\ place = Off
                        /\ declarations = Off /\ phase = Off /\ verdict = Off
                        /\ output = Off

ScriptStep ==
    /\ part = "script" /\ Next
    /\ UNCHANGED <<part, opcodeVars, frontVars>>
OpcodeStep ==
    /\ part = "opcodes" /\ Opcodes!Next
    /\ UNCHANGED <<part, scriptVars, frontVars>>
FrontStep ==
    /\ part = "front" /\ FrontEnd!Next
    /\ UNCHANGED <<part, scriptVars, opcodeVars>>

NextAll == ScriptStep \/ OpcodeStep \/ FrontStep

\* The machine is one loop of one thread.
SpecAll == InitAll /\ [][NextAll]_allVars /\ WF_allVars(ScriptStep)

-----------------------------------------------------------------------------
(* What the run checks; the parts are named in the components' modules.     *)

\* The types of the states of all three.
TypesOK ==
    /\ part = "script" => TypeOK
    /\ part = "opcodes" => Opcodes!TypeOK
    /\ part = "front" => FrontEnd!TypeOK

\* Where the compiler's analysis has been, a frame has the stack it found and no
\* more than it reserved, and no closure refers to a variable of a frame that is
\* gone.
FramesAreSound == part = "script" => StackIsReserved /\ ReferencesOutliveFrames

\* Scripts end.
RunsEnd == (part = "script") => ProgramsEnd

\* A call ends at the instruction behind it with its result on the stack or
\* without, and what is called gets the arguments it was called with, through
\* every nesting of call, apply, bound functions and accessors.
CallsLand ==
    part = "opcodes" => Opcodes!OpcodesLand /\ Opcodes!CalleesGetTheirArguments

OpcodesLand == part = "opcodes" => Opcodes!OpcodesLand

\* The front end compiles what it was given as it was meant, but for strings and
\* functions that declare effects; its check refuses what it looks at; and it
\* comes to an end unless a function is left open or a bracket is in the source.
SourcesAsWritten ==
    part = "front" =>
        FrontEnd!CompilesAsWritten /\ FrontEnd!RefusesWhatItSees /\ FrontEnd!EndsUnlessOpen
=============================================================================
