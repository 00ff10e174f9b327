------------------------------- MODULE Routes -------------------------------
(***************************************************************************)
(* The routing of HTTP requests: a registry of patterns, whose parameters  *)
(* hold the values of the last path that was tried against them, and the   *)
(* choice of the route of a request.  Texts are sequences of characters.   *)
(***************************************************************************)
EXTENDS Naturals, Integers, Sequences, SequencesExt

CONSTANTS
  Patterns,   \* the patterns of routes
  Targets,    \* the paths, with their queries, of requests
  Methods,    \* the names of methods in routes and requests
  Capacity    \* routes that fit into the registry

VARIABLES
  routes,     \* the registry: method, pattern and parameters of every route
  request,    \* the last request, as it was parsed
  response    \* its status and the number of its route

vars == <<routes, request, response>>

NoRequest == [method |-> "", path |-> <<>>, query |-> <<>>]

Init == routes = <<>> /\ request = NoRequest /\ response = [status |-> 0, route |-> 0]

Drop(text, n) == SubSeq(text, n + 1, Len(text))

\* The length of the part of the text before the first of these characters.
Before(text, characters) ==
  LET hits == {i \in DOMAIN text : text[i] \in characters}
  IN IF hits = {} THEN Len(text) ELSE (CHOOSE i \in hits : \A j \in hits : i <= j) - 1

\* Anything but the five methods counts as GET.
mtpscript_http_method_from_string(name) == IF name \in {"GET", "POST", "PUT", "DELETE", "PATCH"} THEN name ELSE "GET"

-----------------------------------------------------------------------------
(* A pattern against a path, character by character; a parameter takes the  *)
(* path up to the next slash.  What was stored stays stored when the match  *)
(* fails later.                                                             *)

RECURSIVE Walk(_, _, _), mtpscript_parse_query_params(_), ParamNames(_), mtpscript_route_specificity(_)
Walk(pattern, path, values) ==
  IF pattern = <<>> \/ path = <<>>
  THEN [matches |-> pattern = <<>> /\ (path = <<>> \/ path[1] \in {"/", "?"}), values |-> values]
  ELSE IF pattern[1] = ":"
  THEN LET value == SubSeq(path, 1, Before(path, {"/", "?"}))
       IN Walk(Drop(pattern, 1 + Before(Drop(pattern, 1), {"/", "?"})), Drop(path, Len(value)), Append(values, value))
  ELSE IF pattern[1] = path[1] THEN Walk(Tail(pattern), Tail(path), values)
  ELSE [matches |-> FALSE, values |-> values]

mtpscript_route_pattern_match(route, path) ==
  LET walked == Walk(route.pattern, path, <<>>)
  IN [matches |-> walked.matches,
      params |-> <<>> \o [i \in DOMAIN route.params |->
                            [name |-> route.params[i].name,
                             value |-> IF i \in DOMAIN walked.values THEN walked.values[i]
                                       ELSE route.params[i].value]]]

ParamNames(pattern) ==
  LET start == Before(pattern, {":"})
      name == SubSeq(Drop(pattern, start + 1), 1, Before(Drop(pattern, start + 1), {"/", "?"}))
  IN IF start = Len(pattern) THEN <<>> ELSE <<name>> \o ParamNames(Drop(pattern, start + 1 + Len(name)))

\* Routes are added before the first request.
mtpscript_route_registry_add(method, pattern) ==
  /\ request = NoRequest
  /\ Len(routes) < Capacity
  /\ routes' = Append(routes, [method |-> method, pattern |-> pattern,
                               params |-> [i \in DOMAIN ParamNames(pattern) |->
                                             [name |-> ParamNames(pattern)[i], value |-> <<>>]]])
  /\ UNCHANGED <<request, response>>

\* The score of a pattern counts its characters: 10 for a slash, 5 for the colon of a parameter and
\* 1 for any other, those of a parameter's name among them.
mtpscript_route_specificity(pattern) ==
  IF pattern = <<>> THEN 0
  ELSE (CASE pattern[1] = "/" -> 10 [] pattern[1] = ":" -> 5 [] OTHER -> 1) + mtpscript_route_specificity(Tail(pattern))

\* The match of every route of the method, which its parameters remember.
Tried(method, path) ==
  <<>> \o [i \in DOMAIN routes |->
             IF routes[i].method = method THEN mtpscript_route_pattern_match(routes[i], path)
             ELSE [matches |-> FALSE, params |-> routes[i].params]]

\* Fault of mtpscript_route_match: of routes with the same score the last one is kept.
mtpscript_route_match_Last(tried) ==
  LET matching == {i \in DOMAIN tried : tried[i].matches}
      Score(i) == mtpscript_route_specificity(routes[i].pattern)
  IN IF matching = {} THEN 0
     ELSE CHOOSE i \in matching : \A j \in matching : Score(i) > Score(j) \/ (Score(i) = Score(j) /\ i >= j)

\* The first of the matching routes with the highest score; 0: none.
mtpscript_route_match(tried) ==
  LET matching == {i \in DOMAIN tried : tried[i].matches}
      Score(i) == mtpscript_route_specificity(routes[i].pattern)
  IN IF matching = {} THEN 0
     ELSE CHOOSE i \in matching : \A j \in matching : Score(i) > Score(j) \/ (Score(i) = Score(j) /\ i <= j)

-----------------------------------------------------------------------------
\* The parts of a query between ampersands that have an equals sign; empty parts are skipped.
mtpscript_parse_query_params(query) ==
  IF query = <<>> THEN <<>>
  ELSE LET part == SubSeq(query, 1, Before(query, {"&"}))
           rest == mtpscript_parse_query_params(Drop(query, Len(part) + 1))
           name == SubSeq(part, 1, Before(part, {"="}))
       IN IF Len(name) = Len(part) THEN rest
          ELSE <<[name |-> name, value |-> Drop(part, Len(name) + 1)]>> \o rest

mtpscript_api_request_parse(method, target) ==
  LET path == SubSeq(target, 1, Before(target, {"?"}))
  IN [method |-> mtpscript_http_method_from_string(method),
      path |-> path,
      query |-> mtpscript_parse_query_params(Drop(target, Len(path) + 1))]

mtpscript_api_route(method, target) ==
  LET parsed == mtpscript_api_request_parse(method, target)
      tried == Tried(parsed.method, parsed.path)
      found == mtpscript_route_match(tried)
  IN /\ request' = parsed
     /\ routes' = [i \in DOMAIN routes |-> [routes[i] EXCEPT !.params = tried[i].params]]
     /\ response' = [status |-> IF found = 0 THEN 404 ELSE 200, route |-> found]

Next == \/ \E m \in Methods, p \in Patterns :
             mtpscript_http_method_from_string(m) = m /\ mtpscript_route_registry_add(m, p)
        \/ \E m \in Methods, t \in Targets : mtpscript_api_route(m, t)

Spec == Init /\ [][Next]_vars

-----------------------------------------------------------------------------
TypeOK ==
  /\ Len(routes) <= Capacity
  /\ \A i \in DOMAIN routes : routes[i].method \in Methods /\ routes[i].pattern \in Patterns
  /\ response.route \in 0..Len(routes)
  /\ response.status \in {0, 200, 404}

\* The parts of a text between slashes, as the reference sees a path.
RECURSIVE Segments(_)
Segments(text) ==
  IF Before(text, {"/"}) = Len(text) THEN <<text>>
  ELSE <<SubSeq(text, 1, Before(text, {"/"}))>> \o Segments(Drop(text, Before(text, {"/"}) + 1))

IsParam(segment) == segment # <<>> /\ segment[1] = ":"

\* A route is for a path when the segments of its pattern are those the path begins with.  This is what
\* the code does; requirements/PHASE2TASK.md:50 asks for "Exact path matching" of routes without parameters.
IsFor(route, req) ==
  LET pattern == Segments(route.pattern)
      path == Segments(req.path)
  IN /\ route.method = req.method
     /\ Len(pattern) <= Len(path)
     /\ \A i \in DOMAIN pattern : pattern[i] = path[i]
                                   \/ (IsParam(pattern[i]) /\ (path[i] # <<>> \/ i < Len(path)))

\* What the score of a pattern comes to: ten for each slash, the length of each segment, and four more for
\* one that is a parameter, whose colon counts five.
Weight(pattern) ==
  LET segments == Segments(pattern)
  IN 10 * (Len(segments) - 1)
     + FoldLeft(LAMBDA sum, segment : sum + Len(segment) + (IF IsParam(segment) THEN 4 ELSE 0), 0, segments)

\* Of the routes that are for its path, a request goes to the first one of the greatest weight, and to
\* none if there is none.  Its parameters have the segments of this path and not of an earlier request's,
\* whatever routes were tried before.  Which routes are for a path, and which is the best of them, is the
\* code's rule and not that of the requirements: see IsFor, and MostSpecificWins.
RoutesBySegments ==
  LET for == {i \in DOMAIN routes : IsFor(routes[i], request)}
      best == {i \in for : \A j \in for : Weight(routes[i].pattern) >= Weight(routes[j].pattern)}
  IN CASE response.status = 404 -> for = {}
     [] response.status = 200 ->
          LET route == routes[response.route]
              pattern == Segments(route.pattern)
              places == SetToSortSeq({i \in DOMAIN pattern : IsParam(pattern[i])}, <)
          IN /\ response.route \in best /\ \A i \in best : response.route <= i
             /\ \A k \in DOMAIN places : route.params[k] = [name |-> Tail(pattern[places[k]]),
                                                            value |-> Segments(request.path)[places[k]]]
     [] OTHER -> TRUE

\* One pattern is more specific than another: it has more segments, or as many, and where the first of
\* two different ones stands it has a text and the other a parameter.
MoreSpecific(one, other) ==
  LET a == Segments(one)
      b == Segments(other)
  IN \/ Len(a) > Len(b)
     \/ /\ Len(a) = Len(b)
        /\ \E i \in DOMAIN a : /\ ~IsParam(a[i]) /\ IsParam(b[i])
                             /\ \A j \in 1..(i - 1) : IsParam(a[j]) <=> IsParam(b[j])

\* The route of a request is the most specific of those for its path: requirements/PHASE2TASK.md:53,
\* "Most-specific match wins".  The code's score does not keep this.
MostSpecificWins ==
  response.status = 200 =>
    \A i \in DOMAIN routes :
       IsFor(routes[i], request) => ~MoreSpecific(routes[i].pattern, routes[response.route].pattern)

=============================================================================
