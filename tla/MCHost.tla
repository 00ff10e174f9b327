------------------------------- MODULE MCHost -------------------------------
(* The host's side of a script, for TLC: the registry of effects with the   *)
(* cache of awaits (Effects), the handlers of the database and of HTTP with *)
(* caches of their own (DbEffects, HttpEffects), the server's routes        *)
(* (Routes) and the package manager (Packages).  A behaviour is one of      *)
(* them; the others stay as they began.                                     *)
(*                                                                          *)
(* Both tables of the registry overflow, and its cache has one entry less   *)
(* than there are keys.  Seeds and handlers are only ever compared, so      *)
(* their permutations are symmetries.                                       *)
EXTENDS Replies, Packages, TLC

CONSTANTS
    Parts,               \* which of the components
    s1, s2, s3, h1, h2, t1, t2

VARIABLES
    part,
    routes, request, response

Symmetry == Permutations(Seeds) \cup Permutations(Handlers) \cup Permutations(HttpSeeds)

\* A chunk without NUL and one with a NUL in the middle; two exceed the limit.
HttpChunks == {[size |-> 1, text |-> 1], [size |-> 2, text |-> 1]}

\* Routes of one and two segments, and paths with empty, missing and further ones.
RoutePatterns ==
    { <<"/">>, <<"/", "u">>, <<"/", "u", "/">>, <<"/", "u", "/", ":", "i", "d">>, <<"/", "u", "/", "m">>,
      <<"/", ":", "k", "/", "m">>, <<"/", ":", "k", "/", ":", "i">> }
RouteTargets ==
    { <<"/">>, <<"/", "u">>, <<"/", "u", "/">>, <<"/", "u", "/", "m">>, <<"/", "u", "/", "m", "/", "p">>,
      <<"/", "v", "/", "m">>, <<"/", "u", "u">>, <<"/", "/", "m">>, <<"/", "u", "?", "a", "=", "m", "&", "b">> }

\* Two of the names that the loader of packages looks for; Host.cfg has a package with another name.
Package(name, version, hash) ==
    [name |-> name, version |-> version, hash |-> hash, signature |-> "66-digits"]
LoadablePackages ==
    << Package("test-package", "1.0.0", "placeholder-hash"),
       Package("update-test", "1.0.0", "updated-hash-placeholder") >>

Router == INSTANCE Routes WITH
    Patterns <- RoutePatterns, Targets <- RouteTargets, Methods <- {"GET", "POST", "HEAD"},
    Capacity <- 2

-----------------------------------------------------------------------------
registryVars == vars
routerVars == <<routes, request, response>>
allVars == <<part, registryVars, dbVars, httpVars, routerVars, packageVars>>

InitAll ==
    /\ part \in Parts
    /\ Init
    /\ DbInit /\ (part # "db" => commit = "implicit")
    /\ HttpInit
    /\ Router!Init
    /\ PackagesInit

RegistryStep ==
    /\ part = "registry" /\ Next
    /\ UNCHANGED <<part, dbVars, httpVars, routerVars, packageVars>>
DbStep ==
    /\ part = "db" /\ DbNext
    /\ UNCHANGED <<part, registryVars, httpVars, routerVars, packageVars>>
HttpStep ==
    /\ part = "http" /\ HttpNext
    /\ UNCHANGED <<part, registryVars, dbVars, routerVars, packageVars>>
RouterStep ==
    /\ part = "router" /\ Router!Next
    /\ UNCHANGED <<part, registryVars, dbVars, httpVars, packageVars>>
ManagerStep ==
    /\ part = "manager" /\ PackagesNext
    /\ UNCHANGED <<part, registryVars, dbVars, httpVars, routerVars>>

NextAll == RegistryStep \/ DbStep \/ HttpStep \/ RouterStep \/ ManagerStep

SpecAll == InitAll /\ [][NextAll]_allVars

-----------------------------------------------------------------------------
(* What the run checks; the parts are named in the components' modules.     *)

\* The types of the states of all five.
TypesOK ==
    /\ TypeOK
    /\ DbTypeOK
    /\ HttpTypeOK
    /\ part = "router" => Router!TypeOK
    /\ PackagesTypeOK

\* A request goes to the route the code means: the first of the greatest weight
\* whose segments are those its path begins with, with the parameters found there.
RoutesBySegments == part = "router" => Router!RoutesBySegments
=============================================================================
