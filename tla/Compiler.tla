------------------------------ MODULE Compiler ------------------------------
(***************************************************************************)
(* mtpsc on a program: the lexer, the parser, which never refuses anything *)
(* and goes on with whatever it finds, the check of effects and of         *)
(* redeclared variables, and the generation of JavaScript.  A source is a  *)
(* sequence of lexemes; what the properties tell apart of a lexeme is its  *)
(* kind.  Types are parsed and never looked at again, for no type that can *)
(* be written is refused.                                                  *)
(***************************************************************************)
EXTENDS Naturals, Sequences, SequencesExt

CONSTANTS
  Programs,   \* programs as a user means them: sequences of functions and routes
  Damages     \* the places where a lexeme may be missing in the source; 0: none is

VARIABLES
  program,      \* what the user means
  source,       \* the lexemes the user wrote
  tokens,       \* the tokens, which end with "EOF"
  position,     \* the parser's token
  declarations, \* what it has parsed
  phase,        \* where the command is; "hangs" and "crashes" are ways not to end
  verdict,      \* what check says
  output        \* what compile writes, as tokens of JavaScript

vars == <<program, source, tokens, position, declarations, phase, verdict, output>>

Keywords == {"func", "api", "uses", "let", "return", "if", "else", "import", "from", "as", "serve", "await", "GET", "POST"}
Symbols == {"(", ")", "{", "}", "+", "-", "*", "/", "=", ":", ",", "<", ">", "->", "|>"}
Operators == {"+", "-", "*", "/"}
Literals == [int |-> {"0", "1", "2", "80"}, decimal |-> {"1.5"}, bool |-> {"true", "false"}, string |-> {"'/p'", "'u#h'", "'s'"}]
Unknown == {"[", "]", "!"}

\* The type of a token; the token itself when it is of no other kind.
Kind(lexeme) ==
  IF lexeme \in Keywords \cup Symbols \cup {"EOF"} THEN lexeme
  ELSE IF lexeme \in Literals.int THEN "int"
  ELSE IF lexeme \in Literals.decimal THEN "decimal"
  ELSE IF lexeme \in Literals.bool THEN "bool"
  ELSE IF lexeme \in Literals.string THEN "string"
  ELSE "identifier"

\* A character that begins no token ends the list, without an error and without its last token; a single
\* bar is skipped.
mtpscript_lexer_tokenize(text) ==
  LET bad == {i \in DOMAIN text : text[i] \in Unknown}
  IN IF bad = {} THEN Append(SelectSeq(text, LAMBDA l : l # "|"), "EOF")
     ELSE SubSeq(text, 1, (CHOOSE i \in bad : \A j \in bad : i <= j) - 1)

-----------------------------------------------------------------------------
(* The parser: every function answers what it made and the next position.   *)

At(p) == Kind(tokens[p])
Advance(p) == IF At(p) = "EOF" THEN p ELSE p + 1
Match(p, kind) == IF At(p) = kind THEN p + 1 ELSE p
Made(node, next) == [node |-> node, next |-> next]

RECURSIVE AfterType(_), Primary(_), Expression(_), Pipes(_, _), Body(_), Params(_), ApiParams(_), Settings(_), Imports(_)
RECURSIVE Pipes_Flipped(_, _)

\* parse_type, as the position after the type.
AfterType(p) ==
  LET q == Advance(p)
  IN CASE tokens[p] = "Option" -> Match(AfterType(Match(q, "<")), ">")
       [] tokens[p] = "Result" -> Match(AfterType(Match(AfterType(Match(q, "<")), ",")), ">")
       [] OTHER -> q

Primary(p) ==
  IF At(p) = "await" THEN LET awaited == Primary(p + 1) IN Made(<<"await", awaited.node>>, awaited.next)
  ELSE Made(IF At(p) \in {"int", "decimal", "bool"} THEN <<"literal", tokens[p]>>
            ELSE IF At(p) = "identifier" THEN <<"variable", tokens[p]>>
            ELSE <<"literal", "0">>, Advance(p))

\* Fault of Pipes: the value of a pipeline is called with the next function.
Pipes_Flipped(left, p) ==
  IF At(p) # "|>" THEN Made(left, p)
  ELSE LET right == Primary(p + 1) IN Pipes_Flipped(<<"pipe", right.node, left>>, right.next)

\* The pipelines after an expression, from the left.
Pipes(left, p) ==
  IF At(p) # "|>" THEN Made(left, p)
  ELSE LET right == Primary(p + 1) IN Pipes(<<"pipe", left, right.node>>, right.next)

\* All operators bind alike and to the right.
Expression(p) ==
  LET left == Primary(p)
  IN IF At(left.next) \notin Operators THEN Pipes(left.node, left.next)
     ELSE LET right == Expression(left.next + 1)
          IN Pipes(<<"binary", tokens[left.next], left.node, right.node>>, right.next)

Statement(p) ==
  CASE At(p) = "return" -> LET e == Expression(p + 1) IN Made(<<"return", e.node>>, e.next)
    [] At(p) = "let" -> LET e == Expression(Match(Advance(p + 1), "="))
                        IN Made(<<"let", tokens[p + 1], e.node>>, e.next)
    [] OTHER -> LET e == Expression(p) IN Made(<<"expression", e.node>>, e.next)

\* The statements up to a closing brace or the end.
Body(p) ==
  IF At(p) \in {"}", "EOF"} THEN Made(<<>>, p)
  ELSE LET first == Statement(p) rest == Body(first.next) IN Made(<<first.node>> \o rest.node, rest.next)

Params(p) ==
  IF At(p) = ")" THEN Made(<<>>, p)
  ELSE LET q == AfterType(Match(Advance(p), ":"))
       IN IF At(q) # "," THEN Made(<<tokens[p]>>, q)
          ELSE LET rest == Params(q + 1) IN Made(<<tokens[p]>> \o rest.node, rest.next)

None == <<"none">>
Decl(kind, name, params, body) == <<kind, name, params, body>>

\* A function's parts may each be missing.  Its body ends with a brace only: at the end of the source the
\* loop goes on for ever.
ParseFunction(p) ==
  LET params == Params(Match(Advance(p), "("))
      close == Match(params.next, ")")
      body == Body(Match(IF At(close) = ":" THEN AfterType(close + 1) ELSE close, "{"))
  IN IF At(body.next) = "EOF" THEN Made(<<"hangs">>, body.next)
     ELSE Made(Decl("function", tokens[p], params.node, body.node), body.next + 1)

\* The parameters of a route's function; next is where the parser gives up.
ApiParams(p) ==
  LET q == Advance(p)
  IN IF At(q) # ":" THEN Made(None, q)
     ELSE LET r == AfterType(q + 1)
          IN IF At(r) # "," THEN Made(IF At(r) = ")" THEN <<tokens[p]>> ELSE None, Match(r, ")"))
             ELSE LET rest == ApiParams(r + 1)
                  IN Made(IF rest.node = None THEN None ELSE <<tokens[p]>> \o rest.node, rest.next)

\* A route is the method, the path and a function; without one of its parts there is none.
ParseApi(p) ==
  LET path == Advance(p)
      func == Advance(path)
      name == func + 1
      open == Advance(name)
      params == IF At(open + 1) = ")" THEN Made(<<>>, open + 2) ELSE ApiParams(open + 1)
      brace == IF At(params.next) = ":" THEN AfterType(params.next + 1) ELSE params.next
      body == Body(brace + 1)
  IN CASE At(path) # "string" -> Made(None, func)
       [] At(path) = "string" /\ At(func) # "func" -> Made(None, func)
       [] At(path) = "string" /\ At(func) = "func" /\ (At(name) # "identifier" \/ At(open) # "(") ->
            Made(None, open)
       [] OTHER -> IF params.node = None THEN Made(None, params.next)
                   ELSE IF At(brace) # "{" THEN Made(None, brace)
                   ELSE IF At(body.next) # "}" THEN Made(None, body.next)
                   ELSE Made(Decl("api", tokens[name], params.node, body.node), body.next + 1)

\* The settings of serve; its routes need brackets, which the lexer does not know.
Settings(p) ==
  IF At(p) \in {"}", "EOF"} THEN Made(<<>>, p)
  ELSE LET q == Advance(p)
           value == q + 1
           needs == CASE tokens[p] = "port" -> "int" [] tokens[p] = "host" -> "string" [] OTHER -> ""
           after == IF needs = "" THEN value ELSE Advance(value)
       IN IF At(q) # ":" THEN Made(None, q)
          ELSE IF tokens[p] = "routes" \/ (needs # "" /\ At(value) # needs)
          THEN Made(None, IF tokens[p] = "routes" THEN value ELSE after)
          ELSE IF At(after) = "," THEN Settings(after + 1) ELSE Made(<<>>, after)

ParseServe(p) ==
  LET settings == Settings(p + 1)
  IN IF At(p) # "{" THEN Made(None, p)
     ELSE IF settings.node = None \/ At(settings.next) # "}" THEN Made(None, settings.next)
     ELSE Made(<<"serve">>, settings.next + 1)

Imports(p) ==
  IF At(p) \in {"}", "EOF"} THEN Made(<<>>, p)
  ELSE IF At(p) # "identifier" THEN Made(None, p)
  ELSE IF At(p + 1) = "," THEN Imports(p + 2) ELSE Made(<<>>, p + 1)

\* import M from 'url#hash', with an optional tag and list of names.
ParseImport(p) ==
  LET named == IF At(p) = "identifier" THEN p + 1 ELSE p
      from == IF At(p) = "identifier" THEN Match(named, "from") ELSE p
      url == Advance(from)
      tag == IF At(url) = "as" THEN Advance(url + 1) ELSE url
      list == Imports(tag + 1)
  IN IF At(p) # "identifier" \/ At(named) # "from" THEN Made(None, from)
     ELSE IF At(from) # "string" THEN Made(None, from)
     ELSE IF tokens[from] # "'u#h'" THEN Made(None, url)
     ELSE IF At(url) = "as" /\ At(url + 1) # "string" THEN Made(None, tag)
     ELSE IF At(tag) # "{" THEN Made(<<"import">>, tag)
     ELSE IF list.node = None \/ At(list.next) # "}" THEN Made(None, list.next)
     ELSE Made(<<"import">>, list.next + 1)

parse_declaration(p) ==
  CASE At(p) = "import" -> ParseImport(p + 1)
    [] At(p) = "api" -> ParseApi(p + 1)
    [] At(p) = "func" -> ParseFunction(p + 1)
    [] At(p) = "serve" -> ParseServe(p + 1)
    [] OTHER -> Made(None, p)

-----------------------------------------------------------------------------
(* The check and the code.                                                  *)

RecordEffect(used, effect) == used \cup {effect}

\* The effects of an expression.  The operands of operators and pipelines are not looked at.
RECURSIVE typecheck_expression(_), codegen_expression(_), typecheck_body(_, _, _)
typecheck_expression(e) == IF e[1] = "await" THEN RecordEffect(typecheck_expression(e[2]), "Async") ELSE {}

\* The effects that a function declares: the parser makes an empty list.
ParsedEffects == {}

UsedIsDeclared(used) == used \subseteq ParsedEffects

\* A function's statements in order: a variable is declared once, and what is used must be among the
\* declared effects.
typecheck_body(body, declared, used) ==
  IF body = <<>> THEN IF UsedIsDeclared(used) THEN "ok" ELSE "undeclared effect"
  ELSE LET s == Head(body)
       IN CASE s[1] = "return" -> typecheck_body(Tail(body), declared, used \cup typecheck_expression(s[2]))
            [] s[1] = "let" ->
                 IF s[2] \in declared THEN "redeclared"
                 ELSE typecheck_body(Tail(body), declared \cup {s[2]}, used \cup typecheck_expression(s[3]))
            [] s[1] = "expression" -> typecheck_body(Tail(body), declared, used)

\* Only functions are checked, not those of routes.
typecheck_declaration(d) == IF d[1] = "function" THEN typecheck_body(d[4], {d[3][i] : i \in DOMAIN d[3]}, {}) ELSE "ok"

mtpscript_typecheck_program(decls) ==
  LET wrong == {i \in DOMAIN decls : typecheck_declaration(decls[i]) # "ok"}
  IN IF wrong = {} THEN "ok" ELSE typecheck_declaration(decls[CHOOSE i \in wrong : \A j \in wrong : i <= j])

codegen_expression(e) ==
  CASE e[1] \in {"literal", "variable"} -> <<e[2]>>
    [] e[1] = "binary" -> codegen_expression(e[3]) \o <<e[2]>> \o codegen_expression(e[4])
    [] e[1] = "pipe" -> codegen_expression(e[3]) \o <<"(">> \o codegen_expression(e[2]) \o <<")">>
    [] e[1] = "await" -> <<"Async.await", "(", "ph", ",", "contId", ",">> \o codegen_expression(e[2]) \o <<")">>

codegen_statement(s) ==
  CASE s[1] = "return" -> <<"return">> \o codegen_expression(s[2]) \o <<";">>
    [] s[1] = "let" -> <<"let", s[2], "=">> \o codegen_expression(s[3]) \o <<";">>
    [] s[1] = "expression" -> codegen_expression(s[2]) \o <<";">>

\* A list with a comma between its members.
Separated(names) == FlattenSeq([i \in DOMAIN names |-> IF i = 1 THEN <<names[i]>> ELSE <<",", names[i]>>])

\* The function of a declaration; imports are comments and serve is nothing.
codegen_declaration(d) ==
  IF d[1] \notin {"function", "api"} THEN <<>>
  ELSE <<"function", d[2], "(">> \o Separated(d[3]) \o <<")", "{">>
         \o FlattenSeq([i \in DOMAIN d[4] |-> codegen_statement(d[4][i])]) \o <<"}">>

mtpscript_codegen_program(decls) == FlattenSeq([i \in DOMAIN decls |-> codegen_declaration(decls[i])])

-----------------------------------------------------------------------------
(* A program as the user means it, and the lexemes that say it.  A function *)
(* is a record of its kind, parameters, declared effects and statements; an *)
(* expression is an operand with operators and operands after it, or with   *)
(* functions that it is piped into, each of them possibly awaited.          *)

Operand(o) == IF o.awaited THEN <<"await", o.name>> ELSE <<o.name>>

ExpressionText(e) ==
  Operand(e.first) \o FlattenSeq([i \in DOMAIN e.rest |-> <<e.rest[i].operator>> \o Operand(e.rest[i].operand)])

StatementText(s) ==
  (IF s.variable = "" THEN <<"return">> ELSE <<"let", s.variable, "=">>) \o ExpressionText(s.value)

FunctionText(f) ==
  (IF f.kind = "api" THEN <<"api", "GET", "'/p'">> ELSE <<>>) \o <<"func", "f", "(">>
    \o FlattenSeq([i \in DOMAIN f.params |-> (IF i = 1 THEN <<>> ELSE <<",">>) \o <<f.params[i], ":", "Int">>]) \o <<")">>
    \o (IF f.effects = <<>> THEN <<>> ELSE <<"uses", "{">> \o Separated(f.effects) \o <<"}">>) \o <<"{">>
    \o FlattenSeq([i \in DOMAIN f.body |-> StatementText(f.body[i])]) \o <<"}">>

DeclarationText(d) ==
  CASE d.kind \in {"function", "api"} -> FunctionText(d)
    [] d.kind = "import" -> <<"import", "M", "from", "'u#h'", "as", "'/p'", "{", "g", "}">>
    [] d.kind = "serve" -> <<"serve", "{", "port", ":", "80", ",", "host", ":", "'/p'", "}">>
    [] d.kind = "routes" -> <<"serve", "{", "routes", ":", "[", "]", "}">>

TextOf(decls) == FlattenSeq([i \in DOMAIN decls |-> DeclarationText(decls[i])])

Init ==
  /\ program \in Programs
  /\ \E d \in Damages : source = IF d \in 1..Len(TextOf(program)) THEN RemoveAt(TextOf(program), d)
                                 ELSE TextOf(program)
  /\ tokens = <<>>
  /\ position = 1
  /\ declarations = <<>>
  /\ phase = "lex"
  /\ verdict = ""
  /\ output = <<>>

Lex ==
  /\ phase = "lex"
  /\ tokens' = mtpscript_lexer_tokenize(source)
  /\ phase' = "parse"
  /\ UNCHANGED <<program, source, position, declarations, verdict, output>>

\* One turn of the parser's loop.  Without its last token the list is read beyond its end.
mtpscript_parser_parse ==
  /\ phase = "parse"
  /\ IF tokens = <<>> \/ Last(tokens) # "EOF" THEN phase' = "crashes" /\ UNCHANGED <<position, declarations>>
     ELSE IF At(position) = "EOF" THEN phase' = "parsed" /\ UNCHANGED <<position, declarations>>
     ELSE \E parsed \in {parse_declaration(position)} :
             IF parsed.node = <<"hangs">> THEN phase' = "hangs" /\ UNCHANGED <<position, declarations>>
             ELSE /\ position' = IF parsed.node = None THEN Advance(parsed.next) ELSE parsed.next
                  /\ declarations' = IF parsed.node = None THEN declarations ELSE Append(declarations, parsed.node)
                  /\ UNCHANGED phase
  /\ UNCHANGED <<program, source, tokens, verdict, output>>

\* mtpsc check, and mtpsc compile, which does not check.
Check ==
  /\ phase = "parsed"
  /\ verdict' = mtpscript_typecheck_program(declarations)
  /\ phase' = "checked"
  /\ UNCHANGED <<program, source, tokens, position, declarations, output>>

Compile ==
  /\ phase = "parsed"
  /\ output' = mtpscript_codegen_program(declarations)
  /\ phase' = "compiled"
  /\ UNCHANGED <<program, source, tokens, position, declarations, verdict>>

Next == Lex \/ mtpscript_parser_parse \/ Check \/ Compile

Spec == Init /\ [][Next]_vars

-----------------------------------------------------------------------------
Whole == source = TextOf(program)

TypeOK ==
  /\ phase \in {"lex", "parse", "parsed", "checked", "compiled", "hangs", "crashes"}
  /\ phase \notin {"lex", "crashes"} => position \in 1..Len(source) + 1
  /\ verdict \in {"", "ok", "redeclared", "undeclared effect"}

\* A string as an operand is read as the number 0.
Value(name) == IF Kind(name) = "string" THEN "0" ELSE name

\* What a piped or awaited operand is in JavaScript.
Js(o) == IF o.awaited THEN <<"Async.await", "(", "ph", ",", "contId", ",", Value(o.name), ")">> ELSE <<Value(o.name)>>

RECURSIVE JsChain(_, _)
JsChain(soFar, rest) ==
  IF rest = <<>> THEN soFar
  ELSE LET next == Head(rest)
       IN JsChain(IF next.operator = "|>" THEN Js(next.operand) \o <<"(">> \o soFar \o <<")">>
                  ELSE soFar \o <<next.operator>> \o Js(next.operand), Tail(rest))

\* The parser has no rule for "uses": a function that declares effects has for its body the lexemes from
\* there to the first closing brace, a statement each, and what the user wrote as its body is lost.
JsBody(f) ==
  IF f.effects = <<>>
  THEN FlattenSeq([i \in DOMAIN f.body |->
                     (IF f.body[i].variable = "" THEN <<"return">> ELSE <<"let", f.body[i].variable, "=">>)
                       \o JsChain(Js(f.body[i].value.first), f.body[i].value.rest) \o <<";">>])
  ELSE FlattenSeq([i \in 1..2 * Len(f.effects) + 1 |->
                     IF i = 1 \/ i % 2 = 0 THEN <<"0", ";">> ELSE <<f.effects[i \div 2], ";">>])

\* A route whose function declares effects is left out.
JsFunction(f) ==
  IF f.kind \notin {"function", "api"} \/ (f.kind = "api" /\ f.effects # <<>>) THEN <<>>
  ELSE <<"function", "f", "(">> \o Separated(f.params) \o <<")", "{">> \o JsBody(f) \o <<"}">>

\* The code of a whole program has its functions, in order, with operands and operators where the user
\* wrote them and pipelines from the left: a |> g |> h is h(g(a)).  Two things are lost on the way: strings
\* (Value), and the statements of functions that declare effects (JsBody).
CompilesAsWritten ==
  phase = "compiled" /\ Whole => output = FlattenSeq([i \in DOMAIN program |-> JsFunction(program[i])])

Redeclares(f) ==
  \E i \in DOMAIN f.body : /\ f.body[i].variable # ""
                           /\ \/ f.body[i].variable \in {f.params[k] : k \in DOMAIN f.params}
                              \/ \E j \in 1..(i - 1) : f.body[j].variable = f.body[i].variable

\* check refuses a program exactly when a function, that is not a route's and declares no effects, declares a
\* variable twice or awaits something that is the whole of an expression.  It looks neither at the operands
\* of operators and pipelines nor at the statements of functions that declare effects.
RefusesWhatItSees ==
  phase = "checked" /\ Whole =>
    ((verdict = "ok") <=>
       ~ \E i \in DOMAIN program :
           /\ program[i].kind = "function" /\ program[i].effects = <<>>
           /\ \/ Redeclares(program[i])
              \/ \E k \in DOMAIN program[i].body : LET e == program[i].body[k].value
                                                    IN e.first.awaited /\ e.rest = <<>>)

\* A closing brace where an expression should begin is read as its operand.
Closes(i) ==
  source[i] = "}" /\ (i > 1 => source[i - 1] \notin Operators \cup {"|>", "=", "await", "return"})

\* A function, not a route's, that no closing brace ends.
Unclosed ==
  \E i \in DOMAIN source : /\ source[i] = "func"
                           /\ \A j \in i + 1..Len(source) : ~Closes(j)
                           /\ \A k \in DOMAIN source : k < i /\ i - k <= 3 => source[k] # "api"
HasUnknown == \E i \in DOMAIN source : source[i] \in Unknown

\* The parser hangs exactly at the end of a source that leaves a function open, and reads beyond its tokens
\* exactly when a character begins none, as the brackets of a whole "routes: [ ]" do; every other source,
\* whole or not, is parsed to its end.
EndsUnlessOpen ==
  /\ phase = "hangs" => Unclosed
  /\ phase = "crashes" => HasUnknown
  /\ phase = "parsed" => ~Unclosed /\ ~HasUnknown

=============================================================================
