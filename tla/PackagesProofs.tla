--------------------------- MODULE PackagesProofs ---------------------------
(***************************************************************************)
(* Theorems about the package manager, for every set of names, every list  *)
(* the loader may put together and every number of killed commands.        *)
(***************************************************************************)
EXTENDS Packages, WellFoundedInduction, TLAPS

CopiedNames == {n \in PackageNames : vendor.copies[n] # NoCopy}

\* A command was killed when the lock file was empty.
Lost == "write-lock" \in cut

\* What the running command has between two of its operations.
CommandInv ==
  /\ command.next \notin {"idle", "open-audit", "write-audit"} => command.package \in PackageNames
  /\ command.name = "add" => command.deps # <<>>
  /\ command.next \in {"vendor", "copy"} => command.name = "add"
  /\ command.next \in {"unlink", "rmdir"} => command.name # "add"
  /\ command.next = "copy" => command.package \in vendor.directories
  /\ command.next = "rmdir" => vendor.copies[command.package] = NoCopy

\* Every copy is of a package that is locked or forgotten; a copy that is made is of a locked
\* package, and what a command is going to write lacks no name that the loader looks for but the one
\* it takes out, which has no copy then.
FilesInv ==
  /\ command.next # "write-lock" => CopiedNames \subseteq Locked \cup forgotten
  /\ command.next = "write-lock" => CopiedNames \subseteq NamesOf(command.deps) \cup forgotten
  /\ forgotten \cap NamesOf(Loadable) = {}
  /\ command.next \in {"open-lock", "unlink", "rmdir"} =>
       (Locked \ {command.package}) \cap NamesOf(Loadable) \subseteq NamesOf(command.deps)
  /\ command.next = "open-lock" =>
       command.package \in NamesOf(command.deps) \/ command.package \notin CopiedNames
  /\ command.next \in {"open-lock", "write-lock"} /\ command.name = "add" =>
       command.package \in NamesOf(command.deps)
  /\ command.next \in {"vendor", "copy"} => command.package \in Locked

PackagesInv == PackagesTypeOK /\ CommandInv
LockInv == Lost \/ FilesInv

-----------------------------------------------------------------------------
(* Lists of dependencies. *)

\* A set of numbers has a least one.
LEMMA Least ==
  ASSUME NEW S \in SUBSET Nat, S # {}
  PROVE  \E n \in S : \A m \in S : n <= m
<1> DEFINE R == OpToRel(<, Nat)
<1>1. IsWellFoundedOn(R, Nat)
  BY NatLessThanWellFounded
<1>2. PICK n \in S : \A m \in S : <<m, n>> \notin R
  <2> HIDE DEF R
  <2> QED BY <1>1, WFMin
<1>3. ASSUME NEW m \in S PROVE n <= m
  <2>1. <<m, n>> \notin R
    BY <1>2
  <2>2. ~ (m < n)
    BY <2>1 DEF OpToRel
  <2> QED BY <2>2
<1> QED BY <1>3

\* Induction, as a fact about sets of numbers.
LEMMA SetInduction ==
  ASSUME NEW S, 0 \in S, \A n \in Nat : n \in S => n + 1 \in S
  PROVE  Nat \subseteq S
<1> DEFINE T == {n \in Nat : n \notin S}
<1> SUFFICES ASSUME T # {} PROVE FALSE
  OBVIOUS
<1>1. PICK n \in T : \A m \in T : n <= m
  <2>1. T \in SUBSET Nat
    OBVIOUS
  <2> HIDE DEF T
  <2> QED BY <2>1, Least
<1>2. n # 0 /\ n - 1 \in Nat /\ n - 1 < n
  BY <1>1
<1>3. n - 1 \in S
  BY <1>1, <1>2
<1> QED BY <1>1, <1>2, <1>3

\* Lists that commands work on.
IsList(deps) == deps \in Seq(Dependencies) /\ DistinctNames(deps)

LEMMA ListOf ==
  ASSUME NEW deps, IsList(deps)
  PROVE  /\ deps \in Seq(Dependencies)
         /\ Len(deps) \in Nat /\ DOMAIN deps = 1 .. Len(deps)
         /\ \A i \in DOMAIN deps : deps[i] \in Dependencies
         /\ \A i \in DOMAIN deps : deps[i].name \in PackageNames
         /\ NamesOf(deps) \subseteq PackageNames
<1>1. deps \in Seq(Dependencies) /\ Len(deps) \in Nat /\ DOMAIN deps = 1 .. Len(deps)
  BY DEF IsList
<1>2. \A i \in DOMAIN deps : deps[i] \in Dependencies
  BY <1>1
<1>3. \A d \in Dependencies : d.name \in PackageNames
  BY DEF Dependencies
<1> QED BY <1>1, <1>2, <1>3 DEF NamesOf

\* An entry with a new name keeps a list one.
LEMMA AppendDependency ==
  ASSUME NEW deps, IsList(deps), NEW d \in Dependencies, d.name \notin NamesOf(deps)
  PROVE  /\ IsList(Append(deps, d))
         /\ NamesOf(Append(deps, d)) = NamesOf(deps) \cup {d.name}
         /\ Append(deps, d) # <<>>
<1> DEFINE new == Append(deps, d)
<1>1. /\ deps \in Seq(Dependencies) /\ Len(deps) \in Nat /\ DOMAIN deps = 1 .. Len(deps)
  BY ListOf
<1>2. /\ new \in Seq(Dependencies) /\ Len(new) = Len(deps) + 1
      /\ DOMAIN new = 1 .. Len(deps) + 1
      /\ \A i \in DOMAIN deps : new[i] = deps[i]
      /\ new[Len(deps) + 1] = d
      /\ new # <<>>
  BY <1>1
<1> HIDE DEF new
<1>3. \A i \in DOMAIN new : i \in DOMAIN deps \/ i = Len(deps) + 1
  BY <1>1, <1>2
<1>4. \A i \in DOMAIN deps : i \in DOMAIN new /\ deps[i].name # d.name
  BY <1>1, <1>2 DEF NamesOf
<1>5. DistinctNames(new)
  BY <1>2, <1>3, <1>4 DEF DistinctNames, IsList
<1>6. NamesOf(new) = NamesOf(deps) \cup {d.name}
  <2>1. NamesOf(new) \subseteq NamesOf(deps) \cup {d.name}
    BY <1>2, <1>3 DEF NamesOf
  <2>2. NamesOf(deps) \subseteq NamesOf(new)
    BY <1>2, <1>4 DEF NamesOf
  <2>3. d.name \in NamesOf(new)
    <3>1. Len(deps) + 1 \in DOMAIN new
      BY <1>1, <1>2
    <3> QED BY <1>2, <3>1 DEF NamesOf
  <2> QED BY <2>1, <2>2, <2>3
<1> QED BY <1>2, <1>5, <1>6 DEF new, IsList

\* Removing a name removes its entry and no other.
LEMMA WithoutDependency ==
  ASSUME NEW deps, IsList(deps), NEW name \in NamesOf(deps)
  PROVE  /\ IsList(Without(deps, name))
         /\ NamesOf(Without(deps, name)) \subseteq NamesOf(deps)
         /\ NamesOf(deps) \ {name} \subseteq NamesOf(Without(deps, name))
<1> DEFINE Is(i) == deps[i].name = name /\ \A j \in 1 .. (i - 1) : deps[j].name # name
           k == CHOOSE i \in DOMAIN deps : Is(i)
           new == [j \in 1 .. (Len(deps) - 1) |-> IF j < k THEN deps[j] ELSE deps[j + 1]]
<1>1. /\ Len(deps) \in Nat /\ DOMAIN deps = 1 .. Len(deps)
      /\ \A i \in DOMAIN deps : deps[i] \in Dependencies
      /\ deps \in Seq(Dependencies)
  BY ListOf
<1>2. \E i \in DOMAIN deps : Is(i)
  <2> DEFINE S == {i \in DOMAIN deps : deps[i].name = name}
  <2>1. S \in SUBSET Nat /\ S # {}
    BY <1>1 DEF NamesOf
  <2>2. PICK i \in S : \A j \in S : i <= j
    BY <2>1, Least
  <2>3. i \in DOMAIN deps /\ deps[i].name = name
    BY <2>2
  <2>4. ASSUME NEW j \in 1 .. (i - 1) PROVE deps[j].name # name
    <3>1. j \in DOMAIN deps /\ ~(i <= j)
      BY <1>1, <2>3
    <3> QED BY <2>2, <3>1
  <2> QED BY <2>3, <2>4
<1>3. k \in DOMAIN deps /\ deps[k].name = name
  BY <1>2
<1>4. Without(deps, name) = new
  BY DEF Without
<1> HIDE DEF k
<1>5. /\ DOMAIN new = 1 .. (Len(deps) - 1)
      /\ \A j \in DOMAIN new : new[j] = IF j < k THEN deps[j] ELSE deps[j + 1]
  OBVIOUS
<1>6. \A j \in DOMAIN new : /\ j \in DOMAIN deps /\ j + 1 \in DOMAIN deps
                            /\ new[j] \in Dependencies
  BY <1>1, <1>5
<1>7. new \in Seq(Dependencies)
  <2>1. Len(deps) - 1 \in Nat
    BY <1>1, <1>3
  <2>2. new \in [1 .. (Len(deps) - 1) -> Dependencies]
    <3>1. \A j \in 1 .. (Len(deps) - 1) : new[j] \in Dependencies
      BY <1>5, <1>6
    <3>2. new = [j \in 1 .. (Len(deps) - 1) |-> new[j]]
      BY <1>5
    <3> HIDE DEF new
    <3> QED BY <3>1, <3>2
  <2> HIDE DEF new
  <2> QED BY <2>1, <2>2
<1> HIDE DEF new
<1>8. ASSUME NEW i \in DOMAIN new, NEW j \in DOMAIN new, new[i].name = new[j].name
      PROVE  i = j
  <2> DEFINE a == IF i < k THEN i ELSE i + 1
             b == IF j < k THEN j ELSE j + 1
  <2>1. a \in DOMAIN deps /\ b \in DOMAIN deps /\ new[i] = deps[a] /\ new[j] = deps[b]
    BY <1>5, <1>6
  <2>2. a = b
    <3> HIDE DEF a, b
    <3> QED BY <1>8, <2>1 DEF IsList, DistinctNames
  <2> QED BY <1>1, <1>3, <1>5, <2>2
<1>9. NamesOf(new) \subseteq NamesOf(deps)
  BY <1>5, <1>6 DEF NamesOf
<1>10. ASSUME NEW i \in DOMAIN deps, deps[i].name # name
       PROVE  deps[i].name \in NamesOf(new)
  <2>1. i # k
    BY <1>3, <1>10
  <2>2. CASE i < k
    <3>1. i \in DOMAIN new /\ new[i] = deps[i]
      BY <1>1, <1>3, <1>5, <2>2
    <3> QED BY <3>1 DEF NamesOf
  <2>3. CASE i > k
    <3>1. i - 1 \in DOMAIN new /\ new[i - 1] = deps[i]
      BY <1>1, <1>3, <1>5, <2>3
    <3> QED BY <3>1 DEF NamesOf
  <2> QED BY <1>1, <1>3, <2>1, <2>2, <2>3
<1>11. NamesOf(deps) \ {name} \subseteq NamesOf(new)
  BY <1>10 DEF NamesOf
<1>12. IsList(new)
  BY <1>7, <1>8 DEF IsList, DistinctNames
<1> QED BY <1>4, <1>9, <1>11, <1>12

\* The recursion of the loader is over the names it looks for, so there is such a function.
LEMMA LoadedExists ==
  \E f : f = [i \in 0 .. Len(Loadable) |->
                IF i = 0 THEN NothingLoaded ELSE Found(Loadable[i], f[i - 1])]
<1> DEFINE Upto(n, f) == f = [i \in 0 .. n |->
                                IF i = 0 THEN NothingLoaded ELSE Found(Loadable[i], f[i - 1])]
           S == {n \in Nat : \E f : Upto(n, f)}
<1>1. 0 \in S
  <2> DEFINE f == [i \in 0 .. 0 |-> NothingLoaded]
  <2>1. Upto(0, f)
    OBVIOUS
  <2> QED BY <2>1
<1>2. ASSUME NEW n \in Nat, n \in S PROVE n + 1 \in S
  <2>1. PICK f : Upto(n, f)
    BY <1>2
  <2> DEFINE g == [i \in 0 .. (n + 1) |->
                     IF i = n + 1 THEN Found(Loadable[n + 1], f[n]) ELSE f[i]]
  <2>2. /\ \A i \in 0 .. n : f[i] = IF i = 0 THEN NothingLoaded ELSE Found(Loadable[i], f[i - 1])
        /\ \A i \in 0 .. (n + 1) : g[i] = IF i = n + 1 THEN Found(Loadable[n + 1], f[n]) ELSE f[i]
        /\ g = [i \in 0 .. (n + 1) |-> g[i]]
    <3>1. \A i \in 0 .. n : f[i] = IF i = 0 THEN NothingLoaded ELSE Found(Loadable[i], f[i - 1])
      BY <2>1, Zenon
    <3> QED BY <3>1
  <2> HIDE DEF g
  <2>3. ASSUME NEW i \in 0 .. (n + 1)
        PROVE  g[i] = IF i = 0 THEN NothingLoaded ELSE Found(Loadable[i], g[i - 1])
    <3>1. CASE i = 0
      BY <2>2, <3>1
    <3>2. CASE i = n + 1
      <4>1. i - 1 = n /\ i # 0 /\ n \in 0 .. (n + 1) /\ n # n + 1
        BY <3>2
      <4> QED BY <2>2, <3>2, <4>1
    <3>3. CASE i # 0 /\ i # n + 1
      <4>1. i \in 0 .. n /\ i - 1 \in 0 .. (n + 1) /\ i - 1 # n + 1
        BY <3>3
      <4> QED BY <2>2, <3>3, <4>1
    <3> QED BY <3>1, <3>2, <3>3
  <2>4. Upto(n + 1, g)
    BY <2>2, <2>3, Zenon
  <2> QED BY <2>4
<1>3. Len(Loadable) \in S
  <2> HIDE DEF S
  <2>1. Nat \subseteq S
    BY <1>1, <1>2, SetInduction
  <2> QED BY <2>1, PackagesAssumption
<1> QED BY <1>3

LEMMA LoadedStep ==
  Loaded = [i \in 0 .. Len(Loadable) |->
              IF i = 0 THEN NothingLoaded ELSE Found(Loadable[i], Loaded[i - 1])]
BY LoadedExists, Zenon DEF Loaded

\* The list of the loader: its own entries, of the names in the file.
LEMMA LoadedList ==
  ASSUME NEW names \in SUBSET PackageNames
  PROVE  /\ IsList(Loaded[Len(Loadable)][names])
         /\ NamesOf(Loaded[Len(Loadable)][names]) = names \cap NamesOf(Loadable)
<1> DEFINE First(n) == {Loadable[j].name : j \in 1 .. n}
           Good(n) == /\ IsList(Loaded[n][names])
                       /\ NamesOf(Loaded[n][names]) = names \cap First(n)
           S == {n \in Nat : n <= Len(Loadable) => Good(n)}
<1>0. /\ Len(Loadable) \in Nat /\ DOMAIN Loadable = 1 .. Len(Loadable)
      /\ \A i \in DOMAIN Loadable : Loadable[i] \in Dependencies
  BY PackagesAssumption
<1>1. \A n \in 0 .. Len(Loadable) :
        Loaded[n][names] = IF n = 0 THEN <<>>
                           ELSE IF Loadable[n].name \in names
                                THEN Append(Loaded[n - 1][names], Loadable[n])
                           ELSE Loaded[n - 1][names]
  <2>2. ASSUME NEW n \in 0 .. Len(Loadable)
        PROVE  Loaded[n] = IF n = 0 THEN NothingLoaded ELSE Found(Loadable[n], Loaded[n - 1])
    BY LoadedStep, Zenon
  <2>3. NothingLoaded[names] = <<>>
    BY DEF NothingLoaded
  <2>4. ASSUME NEW dep, NEW f
        PROVE  Found(dep, f)[names] = IF dep.name \in names THEN Append(f[names], dep) ELSE f[names]
    BY DEF Found
  <2> QED BY <2>2, <2>3, <2>4
<1>2. 0 \in S
  <2>1. Loaded[0][names] = <<>>
    BY <1>0, <1>1
  <2>2. IsList(<<>>) /\ NamesOf(<<>>) = {}
    BY DEF IsList, DistinctNames, NamesOf
  <2>3. First(0) = {}
    OBVIOUS
  <2> QED BY <2>1, <2>2, <2>3
<1>3. ASSUME NEW n \in Nat, n \in S PROVE n + 1 \in S
  <2> SUFFICES ASSUME n + 1 <= Len(Loadable) PROVE Good(n + 1)
    OBVIOUS
  <2>1. Good(n)
    BY <1>0, <1>3
  <2>2. /\ n + 1 \in 0 .. Len(Loadable) /\ n + 1 # 0 /\ (n + 1) - 1 = n
        /\ n + 1 \in DOMAIN Loadable
    BY <1>0
  <2>3. First(n + 1) = First(n) \cup {Loadable[n + 1].name}
    <3>1. 1 .. (n + 1) = (1 .. n) \cup {n + 1}
      OBVIOUS
    <3> QED BY <3>1
  <2>4. CASE Loadable[n + 1].name \notin names
    <3>1. Loaded[n + 1][names] = Loaded[n][names]
      BY <1>1, <2>2, <2>4
    <3> QED BY <2>1, <2>3, <2>4, <3>1
  <2>5. CASE Loadable[n + 1].name \in names
    <3>1. Loaded[n + 1][names] = Append(Loaded[n][names], Loadable[n + 1])
      BY <1>1, <2>2, <2>5
    <3>2. Loadable[n + 1].name \notin First(n)
      BY <1>0, <2>2, PackagesAssumption
    <3>3. Loadable[n + 1].name \notin NamesOf(Loaded[n][names])
      BY <2>1, <3>2
    <3>4. /\ IsList(Append(Loaded[n][names], Loadable[n + 1]))
          /\ NamesOf(Append(Loaded[n][names], Loadable[n + 1]))
               = NamesOf(Loaded[n][names]) \cup {Loadable[n + 1].name}
      <4> DEFINE l == Loaded[n][names]
                 d == Loadable[n + 1]
      <4>1. IsList(l) /\ d \in Dependencies /\ d.name \notin NamesOf(l)
        BY <1>0, <2>1, <2>2, <3>3
      <4> HIDE DEF l, d
      <4>2. IsList(Append(l, d)) /\ NamesOf(Append(l, d)) = NamesOf(l) \cup {d.name}
        BY <4>1, AppendDependency
      <4> QED BY <4>2 DEF l, d
    <3> QED BY <2>1, <2>3, <2>5, <3>1, <3>4
  <2> QED BY <2>4, <2>5
<1>4. Len(Loadable) \in S
  <2> HIDE DEF S
  <2>1. Nat \subseteq S
    BY <1>2, <1>3, SetInduction
  <2> QED BY <1>0, <2>1
<1>5. Good(Len(Loadable))
  BY <1>0, <1>4
<1>6. First(Len(Loadable)) = NamesOf(Loadable)
  BY <1>0 DEF NamesOf
<1> QED BY <1>5, <1>6

-----------------------------------------------------------------------------
(* Commands. *)

\* What a command c for the package n may decide when its list is deps.
Decided(c, n, deps, decided) ==
  /\ IsList(decided.deps)
  /\ decided.next \in {"open-lock", "unlink", "open-audit"}
  /\ decided.next # "open-audit" => n \in PackageNames
  /\ decided.next = "open-lock" => NamesOf(deps) \cup {n} \subseteq NamesOf(decided.deps)
  /\ decided.next = "unlink" => NamesOf(deps) \ {n} \subseteq NamesOf(decided.deps)
  /\ NamesOf(decided.deps) \subseteq NamesOf(deps) \cup {n}
  /\ c = "add" => /\ decided.next = "open-lock"
                  /\ decided.deps # <<>> /\ n \in NamesOf(decided.deps)

LEMMA NewDependency ==
  ASSUME NEW n \in PackageNames, NEW v \in STRING, NEW h \in Hashes, NEW s \in Signatures
  PROVE  Dependency(n, v, h, s) \in Dependencies /\ Dependency(n, v, h, s).name = n
BY DEF Dependency, Dependencies

LEMMA AddDecides ==
  ASSUME NEW n \in PackageNames, NEW v \in PackageVersions, NEW deps, IsList(deps)
  PROVE  LET d == Decide("add", n, v, deps) IN d.next = "fail" \/ Decided("add", n, deps, d)
<1> DEFINE d == Dependency(n, v, "placeholder-hash", "placeholder-signature")
<1>1. CASE n \in NamesOf(deps)
  BY <1>1 DEF Decide, mtpscript_dependency_find
<1>2. CASE n \notin NamesOf(deps)
  <2>1. Decide("add", n, v, deps) = [deps |-> Append(deps, d), next |-> "open-lock"]
    BY <1>2 DEF Decide, mtpscript_dependency_find
  <2>2. d \in Dependencies /\ d.name = n
    <3>1. v \in STRING /\ "placeholder-hash" \in Hashes /\ "placeholder-signature" \in Signatures
      BY PackagesAssumption DEF Hashes, Signatures
    <3> QED BY <3>1, NewDependency
  <2> HIDE DEF d
  <2>3. /\ IsList(Append(deps, d)) /\ Append(deps, d) # <<>>
        /\ NamesOf(Append(deps, d)) = NamesOf(deps) \cup {n}
    BY <1>2, <2>2, AppendDependency
  <2> DEFINE e == Decide("add", n, v, deps)
  <2>7. e.deps = Append(deps, d) /\ e.next = "open-lock"
    BY <2>1
  <2> HIDE DEF e
  <2>8. Decided("add", n, deps, e)
    BY <1>2, <2>3, <2>7 DEF Decided
  <2> QED BY <2>8 DEF e
<1> QED BY <1>1, <1>2

LEMMA RemoveDecides ==
  ASSUME NEW n \in PackageNames, NEW v, NEW deps, IsList(deps)
  PROVE  LET d == Decide("remove", n, v, deps) IN d.next = "fail" \/ Decided("remove", n, deps, d)
<1>1. CASE n \notin NamesOf(deps)
  BY <1>1 DEF Decide, mtpscript_dependency_find
<1>2. CASE n \in NamesOf(deps)
  <2>1. Decide("remove", n, v, deps) = [deps |-> Without(deps, n), next |-> "unlink"]
    BY <1>2 DEF Decide, mtpscript_dependency_find, AfterRemoval
  <2>2. /\ IsList(Without(deps, n))
        /\ NamesOf(Without(deps, n)) \subseteq NamesOf(deps)
        /\ NamesOf(deps) \ {n} \subseteq NamesOf(Without(deps, n))
    BY <1>2, WithoutDependency
  <2> DEFINE e == Decide("remove", n, v, deps)
  <2>7. e.deps = Without(deps, n) /\ e.next = "unlink"
    BY <2>1
  <2> HIDE DEF e
  <2>8. Decided("remove", n, deps, e)
    BY <1>2, <2>2, <2>7 DEF Decided
  <2> QED BY <2>8 DEF e
<1> QED BY <1>1, <1>2

LEMMA UpdateDecides ==
  ASSUME NEW n \in PackageNames, NEW v, NEW deps, IsList(deps)
  PROVE  LET d == Decide("update", n, v, deps) IN d.next = "fail" \/ Decided("update", n, deps, d)
<1> DEFINE new == [i \in DOMAIN deps |->
                     IF deps[i].name = n
                     THEN Dependency(n, deps[i].version, "updated-hash-placeholder", "updated-signature-placeholder")
                     ELSE deps[i]]
<1>1. CASE n \notin NamesOf(deps)
  BY <1>1 DEF Decide, mtpscript_dependency_find
<1>2. CASE n \in NamesOf(deps)
  <2>1. Decide("update", n, v, deps) = [deps |-> new, next |-> "open-lock"]
    BY <1>2 DEF Decide, mtpscript_dependency_find
  <2>2. /\ Len(deps) \in Nat /\ DOMAIN deps = 1 .. Len(deps)
        /\ \A i \in DOMAIN deps : deps[i] \in Dependencies
    BY ListOf
  <2>3. /\ DOMAIN new = DOMAIN deps
        /\ new = [i \in 1 .. Len(deps) |-> new[i]]
        /\ \A i \in DOMAIN deps : new[i] \in Dependencies /\ new[i].name = deps[i].name
    <3>1. ASSUME NEW i \in DOMAIN deps
          PROVE  new[i] \in Dependencies /\ new[i].name = deps[i].name
      <4> DEFINE e == Dependency(n, deps[i].version, "updated-hash-placeholder", "updated-signature-placeholder")
      <4>1. /\ deps[i].version \in STRING
            /\ "updated-hash-placeholder" \in Hashes
            /\ "updated-signature-placeholder" \in Signatures
        BY <2>2 DEF Dependencies, Hashes, Signatures
      <4>2. e \in Dependencies /\ e.name = n
        BY <4>1, NewDependency
      <4>3. new[i] = IF deps[i].name = n THEN e ELSE deps[i]
        OBVIOUS
      <4> HIDE DEF e, new
      <4> QED BY <2>2, <4>2, <4>3
    <3> QED BY <2>2, <3>1
  <2> HIDE DEF new
  <2>4. new \in Seq(Dependencies)
    BY <2>2, <2>3
  <2>5. NamesOf(new) = NamesOf(deps)
    BY <2>3 DEF NamesOf
  <2>6. IsList(new)
    <3>1. ASSUME NEW i \in DOMAIN new, NEW j \in DOMAIN new, new[i].name = new[j].name
          PROVE  i = j
      <4>1. /\ i \in DOMAIN deps /\ j \in DOMAIN deps
            /\ deps[i].name = deps[j].name
        BY <2>3, <3>1
      <4>2. DistinctNames(deps)
        BY DEF IsList
      <4> QED BY <4>1, <4>2 DEF DistinctNames
    <3>2. DistinctNames(new)
      BY <3>1 DEF DistinctNames
    <3> QED BY <2>4, <3>2 DEF IsList
  <2> DEFINE e == Decide("update", n, v, deps)
  <2>7. e.deps = new /\ e.next = "open-lock"
    BY <2>1
  <2> HIDE DEF e
  <2>8. Decided("update", n, deps, e)
    BY <1>2, <2>5, <2>6, <2>7 DEF Decided
  <2> QED BY <2>8 DEF e
<1> QED BY <1>1, <1>2

LEMMA AuditDecides ==
  ASSUME NEW n, NEW v, NEW deps, IsList(deps)
  PROVE  Decided("audit-manifest", n, deps, Decide("audit-manifest", n, v, deps))
<1>1. Decide("audit-manifest", n, v, deps) = [deps |-> deps, next |-> "open-audit"]
  BY DEF Decide
<1> DEFINE e == Decide("audit-manifest", n, v, deps)
<1>2. e.deps = deps /\ e.next = "open-audit"
  BY <1>1
<1> HIDE DEF e
<1>3. Decided("audit-manifest", n, deps, e)
  BY <1>2 DEF Decided
<1> QED BY <1>3 DEF e

\* The list of a command is that of the lock file as far as the loader knows the names.
LEMMA LoadedFrom ==
  ASSUME PackagesInv
  PROVE  /\ IsList(mtpscript_lockfile_load(lock))
         /\ NamesOf(mtpscript_lockfile_load(lock)) = Locked \cap NamesOf(Loadable)
<1>1. Locked \subseteq PackageNames
  <2>1. IsList(lock.deps)
    BY DEF PackagesInv, PackagesTypeOK, IsList
  <2> QED BY <2>1, ListOf DEF Locked
<1>2. /\ IsList(Loaded[Len(Loadable)][Locked])
      /\ NamesOf(Loaded[Len(Loadable)][Locked]) = Locked \cap NamesOf(Loadable)
  BY <1>1, LoadedList
<1> QED BY <1>1, <1>2 DEF mtpscript_lockfile_load, Locked

\* A command begins with what it decides, or ends.
LEMMA StartBegins ==
  ASSUME PackagesInv, NEW c, NEW n, NEW v, Start(c, n, v),
         \/ c = "add" /\ n \in PackageNames /\ v \in PackageVersions
         \/ c \in {"remove", "update"} /\ n \in PackageNames
         \/ c = "audit-manifest"
  PROVE  \/ command' = NoCommand
         \/ /\ Decided(c, n, mtpscript_lockfile_load(lock), command')
            /\ command' = [name |-> c, package |-> n, next |-> command'.next, deps |-> command'.deps]
            /\ command'.name = c /\ command'.package = n
<1> DEFINE deps == mtpscript_lockfile_load(lock)
           decided == Decide(c, n, v, deps)
<1>1. IsList(deps)
  BY LoadedFrom
<1>2. decided.next = "fail" \/ Decided(c, n, deps, decided)
  BY <1>1, AddDecides, RemoveDecides, UpdateDecides, AuditDecides, Zenon
<1>3. IF decided.next = "fail" THEN command' = NoCommand
      ELSE command' = [name |-> c, package |-> n, next |-> decided.next, deps |-> <<>> \o decided.deps]
  BY DEF Start
<1> HIDE DEF decided, deps
<1>4. CASE decided.next # "fail"
  <2>1. Decided(c, n, deps, decided)
    BY <1>2, <1>4
  <2>2. <<>> \o decided.deps = decided.deps
    <3>1. decided.deps \in Seq(Dependencies)
      BY <2>1 DEF Decided, IsList
    <3> QED BY <3>1
  <2>3. command' = [name |-> c, package |-> n, next |-> decided.next, deps |-> decided.deps]
    BY <1>3, <1>4, <2>2
  <2> QED BY <2>1, <2>3 DEF Decided, deps
<1> QED BY <1>3, <1>4

-----------------------------------------------------------------------------
(* Steps. *)

LEMMA NoCommandIs ==
  /\ NoCommand.deps = <<>> /\ NoCommand.next = "idle" /\ NoCommand.name = "" /\ NoCommand.package = ""
  /\ NoCommand \in [name : CommandNames, package : PackageNames \cup {""}, next : Operations,
                    deps : Seq(Dependencies)]
  /\ IsList(<<>>)
BY DEF IsList, DistinctNames, NoCommand, CommandNames, Operations

\* The command goes on to another operation and is otherwise the same.
Moves(c, d, next) ==
  d.next = next /\ d.name = c.name /\ d.package = c.package /\ d.deps = c.deps

LEMMA Proceeds ==
  ASSUME PackagesTypeOK, NEW next \in Operations, Proceed(next)
  PROVE  /\ Moves(command, command', next)
         /\ command' \in [name : CommandNames, package : PackageNames \cup {""}, next : Operations,
                          deps : Seq(Dependencies)]
<1>1. command \in [name : CommandNames, package : PackageNames \cup {""}, next : Operations,
                   deps : Seq(Dependencies)]
  BY DEF PackagesTypeOK
<1>2. command' = [command EXCEPT !.next = next]
  BY DEF Proceed
<1> QED BY <1>1, <1>2 DEF Moves

\* The directory, the copies in it and the adapters, whichever command runs.
FilesTypeOK ==
  /\ vendor \in [exists : BOOLEAN, directories : SUBSET PackageNames,
                 copies : [PackageNames -> Dependencies \cup {NoCopy}]]
  /\ vendor.directories # {} => vendor.exists
  /\ \A n \in PackageNames : vendor.copies[n] # NoCopy => n \in vendor.directories
  /\ bridge \in [exists : BOOLEAN, adapters : SUBSET PackageNames, listed : SUBSET PackageNames]
  /\ bridge.listed \subseteq bridge.adapters

CommandTypeOK ==
  /\ command \in [name : CommandNames, package : PackageNames \cup {""}, next : Operations,
                  deps : Seq(Dependencies)]
  /\ DistinctNames(command.deps)

LEMMA TypeParts ==
  PackagesTypeOK <=> /\ IsList(lock.deps) /\ CommandTypeOK /\ FilesTypeOK /\ forgotten \subseteq PackageNames
                     /\ crashes \in 0 .. MaxCrashes
BY DEF PackagesTypeOK, IsList, CommandTypeOK, FilesTypeOK

LEMMA TypePartsPrime ==
  ASSUME IsList(lock'.deps), CommandTypeOK', FilesTypeOK', forgotten' \subseteq PackageNames,
         crashes' \in 0 .. MaxCrashes
  PROVE  PackagesTypeOK'
BY DEF PackagesTypeOK, IsList, DistinctNames, CommandTypeOK, FilesTypeOK

LEMMA PackagesInitInv == PackagesInit => PackagesInv /\ FilesInv
<1> SUFFICES ASSUME PackagesInit PROVE PackagesInv /\ FilesInv
  OBVIOUS
<1>1. /\ lock.deps = <<>> /\ command = NoCommand /\ crashes = 0 /\ forgotten = {}
      /\ vendor.exists = FALSE /\ vendor.directories = {}
      /\ vendor.copies = [n \in PackageNames |-> NoCopy]
      /\ vendor = [exists |-> FALSE, directories |-> {}, copies |-> [n \in PackageNames |-> NoCopy]]
      /\ bridge.listed = {} /\ bridge.adapters = {}
      /\ bridge = [exists |-> FALSE, adapters |-> {}, listed |-> {}]
  BY DEF PackagesInit
<1>2. command.deps = <<>> /\ command.next = "idle" /\ command.name = ""
  BY <1>1, NoCommandIs
<1>3. CopiedNames = {}
  BY <1>1 DEF CopiedNames
<1>4. PackagesTypeOK
  <2>1. IsList(lock.deps)
    BY <1>1, NoCommandIs
  <2>2. CommandTypeOK
    BY <1>1, <1>2, NoCommandIs DEF CommandTypeOK, IsList
  <2>3. FilesTypeOK
    <3>1. vendor.copies \in [PackageNames -> Dependencies \cup {NoCopy}]
      BY <1>1
    <3>2. \A n \in PackageNames : vendor.copies[n] = NoCopy
      BY <1>1
    <3> HIDE DEF NoCopy
    <3> QED BY <1>1, <3>1, <3>2 DEF FilesTypeOK
  <2>4. crashes \in 0 .. MaxCrashes /\ forgotten \subseteq PackageNames
    BY <1>1, PackagesAssumption
  <2> QED BY <2>1, <2>2, <2>3, <2>4, TypeParts
<1>5. forgotten = {}
  BY <1>1
<1> QED BY <1>2, <1>3, <1>4, <1>5 DEF PackagesInv, CommandInv, FilesInv

\* A step after which no command runs and that made nothing new.
LEMMA EndStep ==
  ASSUME PackagesTypeOK, command' = NoCommand,
         IsList(lock'.deps), FilesTypeOK', crashes' \in 0 .. MaxCrashes, forgotten' \subseteq PackageNames
  PROVE  PackagesInv'
<1>1. CommandTypeOK'
  BY NoCommandIs DEF CommandTypeOK, IsList
<1>2. CommandInv'
  BY NoCommandIs DEF CommandInv
<1> QED BY <1>1, <1>2, TypePartsPrime DEF PackagesInv

\* Commands begin with the list of the lock file.
LEMMA StartStep ==
  ASSUME PackagesInv, NEW c, NEW n, NEW v, Start(c, n, v),
         \/ c = "add" /\ n \in PackageNames /\ v \in PackageVersions
         \/ c \in {"remove", "update"} /\ n \in PackageNames
         \/ c = "audit-manifest" /\ n = ""
  PROVE  PackagesInv'
<1>1. UNCHANGED <<lock, vendor, bridge, crashes, forgotten>>
  BY DEF Start
<1>2. /\ PackagesTypeOK /\ IsList(lock'.deps) /\ FilesTypeOK' /\ crashes' \in 0 .. MaxCrashes
      /\ forgotten' \subseteq PackageNames
  BY <1>1, TypeParts DEF PackagesInv, FilesTypeOK
<1>3. CASE command' = NoCommand
  BY <1>2, <1>3, EndStep
<1>4. CASE command' # NoCommand
  <2>1. /\ Decided(c, n, mtpscript_lockfile_load(lock), command')
        /\ command' = [name |-> c, package |-> n, next |-> command'.next, deps |-> command'.deps]
        /\ command'.name = c /\ command'.package = n
    BY <1>4, StartBegins
  <2>2. /\ command'.deps \in Seq(Dependencies) /\ DistinctNames(command'.deps)
        /\ command'.next \in {"open-lock", "unlink", "open-audit"}
        /\ command'.next # "open-audit" => n \in PackageNames
        /\ c = "add" => command'.deps # <<>> /\ command'.next = "open-lock"
    BY <2>1 DEF Decided, IsList
  <2>4. CommandTypeOK'
    BY <2>1, <2>2 DEF CommandTypeOK, DistinctNames, CommandNames, Operations
  <2>5. CommandInv'
    BY <2>1, <2>2 DEF CommandInv
  <2> QED BY <1>2, <2>4, <2>5, TypePartsPrime DEF PackagesInv
<1> QED BY <1>3, <1>4

\* A step to the next operation of the command.
LEMMA MoveStep ==
  ASSUME PackagesTypeOK, NEW next \in Operations, Proceed(next),
         IsList(lock'.deps), FilesTypeOK', crashes' \in 0 .. MaxCrashes, forgotten' \subseteq PackageNames
  PROVE  PackagesTypeOK' /\ Moves(command, command', next)
<1>1. /\ Moves(command, command', next)
      /\ command' \in [name : CommandNames, package : PackageNames \cup {""}, next : Operations,
                       deps : Seq(Dependencies)]
  BY Proceeds
<1>2. CommandTypeOK'
  BY <1>1 DEF CommandTypeOK, Moves, PackagesTypeOK, DistinctNames
<1> QED BY <1>1, <1>2, TypePartsPrime

LEMMA OperationsAre ==
  {"open-lock", "write-lock", "vendor", "copy", "rmdir", "write-audit", "adapter", "list-adapters"}
    \subseteq Operations
BY DEF Operations

LEMMA OpenLockStep == ASSUME PackagesInv, OpenLock PROVE PackagesInv' /\ Moves(command, command', "write-lock")
<1>1. /\ lock'.deps = <<>> /\ UNCHANGED <<vendor, bridge, crashes>>
      /\ command.next = "open-lock" /\ Proceed("write-lock")
      /\ forgotten' \subseteq forgotten \cup Locked
  BY DEF OpenLock
<1>0. Locked \subseteq PackageNames /\ forgotten \subseteq PackageNames
  <2>1. IsList(lock.deps) /\ forgotten \subseteq PackageNames
    BY TypeParts DEF PackagesInv
  <2> QED BY <2>1, ListOf DEF Locked
<1>2. IsList(lock'.deps) /\ FilesTypeOK' /\ crashes' \in 0 .. MaxCrashes /\ PackagesTypeOK
      /\ forgotten' \subseteq PackageNames
  BY <1>0, <1>1, NoCommandIs, TypeParts DEF FilesTypeOK, PackagesInv
<1>3. PackagesTypeOK' /\ Moves(command, command', "write-lock")
  BY <1>1, <1>2, MoveStep, OperationsAre
<1>4. CommandInv'
  BY <1>1, <1>3 DEF CommandInv, Moves, PackagesInv
<1> QED BY <1>3, <1>4 DEF PackagesInv

LEMMA WriteLockStep == ASSUME PackagesInv, WriteLock PROVE PackagesInv'
<1>1. /\ lock'.deps = command.deps /\ UNCHANGED <<vendor, bridge, crashes, forgotten>>
      /\ command.next = "write-lock"
  BY DEF WriteLock
<1>2. IsList(lock'.deps) /\ FilesTypeOK' /\ crashes' \in 0 .. MaxCrashes /\ PackagesTypeOK
      /\ forgotten' \subseteq PackageNames
  BY <1>1, TypeParts DEF FilesTypeOK, PackagesInv, CommandTypeOK, IsList
<1>3. CASE command.name = "add"
  <2>1. PackagesTypeOK' /\ Moves(command, command', "vendor")
    BY <1>2, <1>3, MoveStep, OperationsAre DEF WriteLock
  <2>2. CommandInv'
    BY <1>1, <1>3, <2>1 DEF CommandInv, Moves, PackagesInv
  <2> QED BY <2>1, <2>2 DEF PackagesInv
<1>4. CASE command.name # "add"
  BY <1>2, <1>4, EndStep DEF WriteLock, Done
<1> QED BY <1>3, <1>4

\* The directory is made, and later nothing but the copy in it.
LEMMA VendorIs ==
  ASSUME PackagesInv
  PROVE  /\ vendor = [exists |-> vendor.exists, directories |-> vendor.directories, copies |-> vendor.copies]
         /\ vendor.exists \in BOOLEAN /\ vendor.directories \subseteq PackageNames
         /\ vendor.copies \in [PackageNames -> Dependencies \cup {NoCopy}]
BY DEF PackagesInv, PackagesTypeOK

LEMMA MakeDirectoriesStep ==
  ASSUME PackagesInv, MakeDirectories
  PROVE  /\ PackagesInv' /\ vendor'.copies = vendor.copies
         /\ command' = NoCommand \/ Moves(command, command', "copy")
<1>1. /\ UNCHANGED <<lock, bridge, crashes, forgotten>> /\ command.next = "vendor"
      /\ command.package \in PackageNames
  BY DEF MakeDirectories, PackagesInv, CommandInv
<1>2. IsList(lock'.deps) /\ crashes' \in 0 .. MaxCrashes /\ PackagesTypeOK
      /\ forgotten' \subseteq PackageNames
  BY <1>1, TypeParts DEF PackagesInv
<1>3. CASE vendor.exists
  <2>1. command' = NoCommand /\ UNCHANGED vendor
    BY <1>3 DEF MakeDirectories, mtpscript_mkdir_p, Done
  <2>2. FilesTypeOK'
    BY <1>1, <1>2, <2>1, TypeParts DEF FilesTypeOK
  <2> QED BY <1>2, <2>1, <2>2, EndStep
<1>4. CASE ~vendor.exists
  <2>1. vendor.directories = {} /\ command.package \notin vendor.directories
    BY <1>4 DEF PackagesInv, PackagesTypeOK
  <2>2. /\ Proceed("copy")
        /\ vendor' = [vendor EXCEPT !.exists = TRUE, !.directories = @ \cup {command.package}]
    BY <1>4, <2>1 DEF MakeDirectories, mtpscript_mkdir_p
  <2>3. vendor' = [exists |-> TRUE, directories |-> vendor.directories \cup {command.package},
                   copies |-> vendor.copies]
    BY <2>2, VendorIs
  <2>4. FilesTypeOK'
    <3>1. /\ vendor'.copies = vendor.copies /\ vendor'.exists = TRUE
          /\ vendor'.directories = vendor.directories \cup {command.package}
      BY <2>3
    <3>2. vendor' \in [exists : BOOLEAN, directories : SUBSET PackageNames,
                       copies : [PackageNames -> Dependencies \cup {NoCopy}]]
      BY <1>1, <2>3, VendorIs
    <3> QED BY <1>1, <1>2, <3>1, <3>2, TypeParts DEF FilesTypeOK
  <2>5. PackagesTypeOK' /\ Moves(command, command', "copy")
    BY <1>2, <2>2, <2>4, MoveStep, OperationsAre
  <2>6. vendor'.copies = vendor.copies /\ command.package \in vendor'.directories
    BY <2>3
  <2>7. CommandInv'
    BY <1>1, <2>5, <2>6 DEF CommandInv, Moves, PackagesInv
  <2> QED BY <2>5, <2>6, <2>7 DEF PackagesInv
<1> QED BY <1>3, <1>4

\* The copies with one of them changed.
LEMMA CopiesStep ==
  ASSUME PackagesInv, NEW p \in PackageNames, NEW d \in Dependencies \cup {NoCopy},
         vendor' = [vendor EXCEPT !.copies[p] = d]
  PROVE  /\ vendor'.exists = vendor.exists /\ vendor'.directories = vendor.directories
         /\ vendor' \in [exists : BOOLEAN, directories : SUBSET PackageNames,
                         copies : [PackageNames -> Dependencies \cup {NoCopy}]]
         /\ \A n \in PackageNames : vendor'.copies[n] = IF n = p THEN d ELSE vendor.copies[n]
<1> HIDE DEF NoCopy
<1>1. vendor' = [exists |-> vendor.exists, directories |-> vendor.directories,
                 copies |-> [vendor.copies EXCEPT ![p] = d]]
  BY VendorIs
<1>2. [vendor.copies EXCEPT ![p] = d] \in [PackageNames -> Dependencies \cup {NoCopy}]
  BY VendorIs
<1> QED BY <1>1, <1>2, VendorIs

LEMMA WriteCopyStep ==
  ASSUME PackagesInv, WriteCopy
  PROVE  /\ PackagesInv' /\ command' = NoCommand
         /\ \A n \in PackageNames : n # command.package => vendor'.copies[n] = vendor.copies[n]
<1>1. /\ UNCHANGED <<lock, bridge, crashes, forgotten>> /\ command.next = "copy" /\ command' = NoCommand
      /\ command.package \in PackageNames /\ command.package \in vendor.directories
      /\ command.deps # <<>>
      /\ vendor' = [vendor EXCEPT !.copies[command.package] = command.deps[Len(command.deps)]]
  BY DEF WriteCopy, Done, PackagesInv, CommandInv
<1>2. IsList(lock'.deps) /\ crashes' \in 0 .. MaxCrashes /\ PackagesTypeOK
      /\ forgotten' \subseteq PackageNames
  BY <1>1, TypeParts DEF PackagesInv
<1>3. command.deps[Len(command.deps)] \in Dependencies
  <2>1. command.deps \in Seq(Dependencies)
    BY <1>2 DEF PackagesTypeOK
  <2> QED BY <1>1, <2>1
<1>4. /\ vendor'.exists = vendor.exists /\ vendor'.directories = vendor.directories
      /\ vendor' \in [exists : BOOLEAN, directories : SUBSET PackageNames,
                      copies : [PackageNames -> Dependencies \cup {NoCopy}]]
      /\ \A n \in PackageNames : vendor'.copies[n] =
           IF n = command.package THEN command.deps[Len(command.deps)] ELSE vendor.copies[n]
  <2> HIDE DEF NoCopy
  <2> QED BY <1>1, <1>3, CopiesStep
<1>5. FilesTypeOK'
  BY <1>1, <1>2, <1>4, TypeParts DEF FilesTypeOK
<1> QED BY <1>1, <1>2, <1>4, <1>5, EndStep

LEMMA UnlinkStep ==
  ASSUME PackagesInv, Unlink
  PROVE  /\ PackagesInv' /\ Moves(command, command', "rmdir")
         /\ \A n \in PackageNames :
              vendor'.copies[n] = IF n = command.package THEN NoCopy ELSE vendor.copies[n]
<1>1. /\ UNCHANGED <<lock, bridge, crashes, forgotten>> /\ command.next = "unlink" /\ Proceed("rmdir")
      /\ command.package \in PackageNames
      /\ vendor' = [vendor EXCEPT !.copies[command.package] = NoCopy]
  BY DEF Unlink, PackagesInv, CommandInv
<1>2. IsList(lock'.deps) /\ crashes' \in 0 .. MaxCrashes /\ PackagesTypeOK
      /\ forgotten' \subseteq PackageNames
  BY <1>1, TypeParts DEF PackagesInv
<1>3. /\ vendor'.exists = vendor.exists /\ vendor'.directories = vendor.directories
      /\ vendor' \in [exists : BOOLEAN, directories : SUBSET PackageNames,
                      copies : [PackageNames -> Dependencies \cup {NoCopy}]]
      /\ \A n \in PackageNames : vendor'.copies[n] = IF n = command.package THEN NoCopy ELSE vendor.copies[n]
  <2> HIDE DEF NoCopy
  <2> QED BY <1>1, CopiesStep
<1>4. FilesTypeOK'
  BY <1>1, <1>2, <1>3, TypeParts DEF FilesTypeOK
<1>5. PackagesTypeOK' /\ Moves(command, command', "rmdir")
  BY <1>1, <1>2, <1>4, MoveStep, OperationsAre
<1>6. CommandInv'
  <2> HIDE DEF NoCopy
  <2> QED BY <1>1, <1>3, <1>5 DEF CommandInv, Moves, PackagesInv
<1> QED BY <1>3, <1>5, <1>6 DEF PackagesInv

LEMMA RmdirStep ==
  ASSUME PackagesInv, Rmdir
  PROVE  PackagesInv' /\ Moves(command, command', "open-lock") /\ vendor'.copies = vendor.copies
<1>1. /\ UNCHANGED <<lock, bridge, crashes, forgotten>> /\ command.next = "rmdir" /\ Proceed("open-lock")
      /\ vendor.copies[command.package] = NoCopy /\ command.package \in PackageNames
      /\ vendor' = [vendor EXCEPT !.directories = @ \ {command.package}]
  BY DEF Rmdir, PackagesInv, CommandInv
<1>2. IsList(lock'.deps) /\ crashes' \in 0 .. MaxCrashes /\ PackagesTypeOK
      /\ forgotten' \subseteq PackageNames
  BY <1>1, TypeParts DEF PackagesInv
<1>3. vendor' = [exists |-> vendor.exists, directories |-> vendor.directories \ {command.package},
                 copies |-> vendor.copies]
  BY <1>1, VendorIs
<1>4. /\ vendor'.exists = vendor.exists /\ vendor'.copies = vendor.copies
      /\ vendor'.directories = vendor.directories \ {command.package}
      /\ vendor' \in [exists : BOOLEAN, directories : SUBSET PackageNames,
                      copies : [PackageNames -> Dependencies \cup {NoCopy}]]
  <2> HIDE DEF NoCopy
  <2> QED BY <1>3, VendorIs
<1>5. FilesTypeOK'
  <2> HIDE DEF NoCopy
  <2> QED BY <1>1, <1>2, <1>4, TypeParts DEF FilesTypeOK
<1>6. PackagesTypeOK' /\ Moves(command, command', "open-lock")
  BY <1>1, <1>2, <1>5, MoveStep, OperationsAre
<1>7. CommandInv'
  BY <1>1, <1>6 DEF CommandInv, Moves, PackagesInv
<1> QED BY <1>4, <1>6, <1>7 DEF PackagesInv

\* The steps that leave the lock file and the vendor directory alone: of audit-manifest, npm-bridge
\* and list, and the end of a killed process.
OtherStep ==
  \/ mtpscript_package_list \/ OpenAudit \/ WriteAudit \/ Kill
  \/ \E n \in PackageNames : mtpscript_npm_bridge_generate(n)
  \/ WriteAdapter \/ mtpscript_npm_bridge_update_audit_manifest

LEMMA OtherStepMoves ==
  ASSUME PackagesInv, OtherStep
  PROVE  /\ UNCHANGED <<lock, vendor, forgotten>> /\ crashes' \in 0 .. MaxCrashes
         /\ \/ UNCHANGED <<command, bridge>>
            \/ command' = NoCommand
            \/ Proceed("write-audit") /\ UNCHANGED bridge
            \/ command.next = "adapter" /\ Proceed("list-adapters")
            \/ \E n \in PackageNames :
                 command' = [name |-> "npm-bridge", package |-> n, next |-> "adapter", deps |-> <<>>]
         /\ \/ cut' = cut \cup {command.next} /\ command' = NoCommand
            \/ UNCHANGED cut /\ command.next # "write-lock"
<1>0. crashes \in 0 .. MaxCrashes /\ MaxCrashes \in Nat
  BY PackagesAssumption DEF PackagesInv, PackagesTypeOK
<1>1. CASE mtpscript_package_list
  BY <1>0, <1>1 DEF mtpscript_package_list
<1>2. CASE OpenAudit
  BY <1>0, <1>2 DEF OpenAudit
<1>3. CASE WriteAudit
  BY <1>0, <1>3 DEF WriteAudit, Done
<1>4. CASE Kill
  BY <1>0, <1>4 DEF Kill, Done
<1>5. CASE \E n \in PackageNames : mtpscript_npm_bridge_generate(n)
  BY <1>0, <1>5 DEF mtpscript_npm_bridge_generate, Done
<1>6. CASE WriteAdapter
  BY <1>0, <1>6 DEF WriteAdapter
<1>7. CASE mtpscript_npm_bridge_update_audit_manifest
  BY <1>0, <1>7 DEF mtpscript_npm_bridge_update_audit_manifest, Done
<1> QED BY <1>1, <1>2, <1>3, <1>4, <1>5, <1>6, <1>7 DEF OtherStep

\* The adapters that are listed are there.
BridgeTypeOK ==
  /\ bridge \in [exists : BOOLEAN, adapters : SUBSET PackageNames, listed : SUBSET PackageNames]
  /\ bridge.listed \subseteq bridge.adapters

LEMMA BridgeStep == ASSUME PackagesInv, OtherStep PROVE BridgeTypeOK'
<1>0. BridgeTypeOK
  BY DEF BridgeTypeOK, PackagesInv, PackagesTypeOK
<1>1. CASE UNCHANGED bridge
  BY <1>0, <1>1 DEF BridgeTypeOK
<1>2. CASE mtpscript_package_list \/ OpenAudit \/ WriteAudit \/ Kill
  BY <1>1, <1>2 DEF mtpscript_package_list, OpenAudit, WriteAudit, Kill
<1>3. ASSUME NEW n \in PackageNames, mtpscript_npm_bridge_generate(n) PROVE BridgeTypeOK'
  <2>1. bridge' = bridge \/ bridge' = [bridge EXCEPT !.exists = TRUE]
    BY <1>3 DEF mtpscript_npm_bridge_generate
  <2> QED BY <1>0, <2>1 DEF BridgeTypeOK
<1>4. CASE WriteAdapter
  <2>1. command.package \in PackageNames
    BY <1>4 DEF WriteAdapter, PackagesInv, CommandInv
  <2>2. bridge' = [bridge EXCEPT !.adapters = @ \cup {command.package}]
    BY <1>4 DEF WriteAdapter
  <2> QED BY <1>0, <2>1, <2>2 DEF BridgeTypeOK
<1>5. CASE mtpscript_npm_bridge_update_audit_manifest
  <2>1. bridge' = [bridge EXCEPT !.listed = bridge.adapters]
    BY <1>5 DEF mtpscript_npm_bridge_update_audit_manifest, Listed, mtpscript_scan_unsafe_adapters
  <2> QED BY <1>0, <2>1 DEF BridgeTypeOK
<1> QED BY <1>2, <1>3, <1>4, <1>5 DEF OtherStep

LEMMA OtherStepInv == ASSUME PackagesInv, OtherStep PROVE PackagesInv'
<1>1. /\ UNCHANGED <<lock, vendor, forgotten>> /\ crashes' \in 0 .. MaxCrashes
  BY OtherStepMoves
<1>2. PackagesTypeOK /\ IsList(lock'.deps) /\ FilesTypeOK' /\ forgotten' \subseteq PackageNames
  BY <1>1, TypeParts, BridgeStep DEF PackagesInv, FilesTypeOK, BridgeTypeOK
<1>3. CASE UNCHANGED command
  BY <1>1, <1>2, <1>3, TypeParts, TypePartsPrime DEF PackagesInv, CommandTypeOK, CommandInv
<1>4. CASE command' = NoCommand
  BY <1>1, <1>2, <1>4, EndStep
<1>5. ASSUME NEW next \in {"write-audit", "list-adapters"}, Proceed(next),
             next = "list-adapters" => command.next = "adapter"
      PROVE  PackagesInv'
  <2>1. PackagesTypeOK' /\ Moves(command, command', next)
    BY <1>1, <1>2, <1>5, MoveStep, OperationsAre
  <2>2. CommandInv'
    BY <1>1, <1>5, <2>1 DEF CommandInv, Moves, PackagesInv
  <2> QED BY <2>1, <2>2 DEF PackagesInv
<1>6. ASSUME NEW n \in PackageNames,
             command' = [name |-> "npm-bridge", package |-> n, next |-> "adapter", deps |-> <<>>]
      PROVE  PackagesInv'
  <2>1. CommandTypeOK'
    BY <1>6, NoCommandIs DEF CommandTypeOK, CommandNames, Operations, IsList
  <2>2. CommandInv'
    BY <1>6 DEF CommandInv
  <2> QED BY <1>1, <1>2, <2>1, <2>2, TypePartsPrime DEF PackagesInv
<1> QED BY <1>3, <1>4, <1>5, <1>6, OtherStepMoves

\* The commands that begin with the list of the lock file.
Starts ==
  \/ \E n \in PackageNames, v \in PackageVersions : Start("add", n, v)
  \/ \E n \in PackageNames, c \in {"remove", "update"} : Start(c, n, "")
  \/ Start("audit-manifest", "", "")

\* The steps that write the lock file or the vendor directory.
FileStep ==
  OpenLock \/ WriteLock \/ MakeDirectories \/ WriteCopy \/ Unlink \/ Rmdir

LEMMA StepsAre == PackagesNext => Starts \/ FileStep \/ OtherStep
BY DEF PackagesNext, Starts, FileStep, OtherStep

LEMMA PackagesInvStep == PackagesInv /\ [PackagesNext]_packageVars => PackagesInv'
<1> SUFFICES ASSUME PackagesInv, [PackagesNext]_packageVars PROVE PackagesInv'
  OBVIOUS
<1>1. CASE Starts
  BY <1>1, StartStep DEF Starts
<1>2. CASE FileStep
  BY <1>2, OpenLockStep, WriteLockStep, MakeDirectoriesStep, WriteCopyStep, UnlinkStep, RmdirStep
  DEF FileStep
<1>3. CASE OtherStep
  BY <1>3, OtherStepInv
<1>4. CASE UNCHANGED packageVars
  BY <1>4 DEF packageVars, PackagesInv, PackagesTypeOK, CommandInv, DistinctNames
<1> QED BY <1>1, <1>2, <1>3, <1>4, StepsAre

\* The lock file, the vendor directory, the bridge and the running command have their types: names
\* are locked once, copies are in directories and listed adapters exist.
THEOREM PackagesTypeCorrect == PackagesSpec => []PackagesTypeOK
<1>1. PackagesInit => PackagesInv
  BY PackagesInitInv
<1>2. PackagesInv => PackagesTypeOK
  BY DEF PackagesInv
<1> QED BY <1>1, <1>2, PackagesInvStep, PTL DEF PackagesSpec

-----------------------------------------------------------------------------
(* Copies and locks. *)

\* The copies after a step that leaves the vendor directory's copies alone.
LEMMA SameCopies == ASSUME vendor'.copies = vendor.copies PROVE CopiedNames' = CopiedNames
BY DEF CopiedNames

\* A command that begins has in its list what the loader looks for, except for the package it removes.
LEMMA StartLocks ==
  ASSUME PackagesInv, FilesInv, NEW c, NEW n, NEW v, Start(c, n, v),
         \/ c = "add" /\ n \in PackageNames /\ v \in PackageVersions
         \/ c \in {"remove", "update"} /\ n \in PackageNames
         \/ c = "audit-manifest" /\ n = ""
  PROVE  FilesInv'
<1>1. /\ UNCHANGED <<lock, vendor, forgotten>> /\ command.next = "idle"
  BY DEF Start
<1>2. /\ CopiedNames' = CopiedNames /\ Locked' = Locked /\ UNCHANGED forgotten
      /\ CopiedNames \subseteq Locked \cup forgotten /\ forgotten \cap NamesOf(Loadable) = {}
  BY <1>1, SameCopies DEF Locked, FilesInv
<1>3. CASE command' = NoCommand
  BY <1>2, <1>3, NoCommandIs DEF FilesInv
<1>4. CASE command' # NoCommand
  <2>1. /\ Decided(c, n, mtpscript_lockfile_load(lock), command')
        /\ command'.name = c /\ command'.package = n
    BY <1>4, StartBegins
  <2>2. NamesOf(mtpscript_lockfile_load(lock)) = Locked \cap NamesOf(Loadable)
    BY LoadedFrom
  <2>3. /\ command'.next \in {"open-lock", "unlink", "open-audit"}
        /\ command'.next = "open-lock" =>
             (Locked \cap NamesOf(Loadable)) \cup {n} \subseteq NamesOf(command'.deps)
        /\ command'.next = "unlink" =>
             (Locked \cap NamesOf(Loadable)) \ {n} \subseteq NamesOf(command'.deps)
    BY <2>1, <2>2 DEF Decided
  <2> QED BY <1>2, <2>1, <2>3 DEF FilesInv
<1> QED BY <1>3, <1>4

LEMMA FileStepLocks == ASSUME PackagesInv, FilesInv, FileStep PROVE FilesInv'
<1>1. CASE OpenLock
  <2>1. /\ Moves(command, command', "write-lock") /\ UNCHANGED vendor /\ command.next = "open-lock"
        /\ forgotten' = (forgotten \cup (Locked \ {command.package})) \ NamesOf(command.deps)
    BY <1>1, OpenLockStep DEF OpenLock
  <2>2. CopiedNames' = CopiedNames
    BY <2>1, SameCopies
  <2>3. CopiedNames' \subseteq NamesOf(command.deps) \cup forgotten'
    BY <2>1, <2>2 DEF FilesInv
  <2>4. forgotten' \cap NamesOf(Loadable) = {}
    BY <2>1 DEF FilesInv
  <2> QED BY <2>1, <2>3, <2>4 DEF FilesInv, Moves
<1>2. CASE WriteLock
  <2>1. /\ lock'.deps = command.deps /\ UNCHANGED <<vendor, forgotten>> /\ command.next = "write-lock"
        /\ PackagesTypeOK
        /\ \/ command.name = "add" /\ Proceed("vendor")
           \/ command' = NoCommand
    BY <1>2 DEF WriteLock, Done, PackagesInv
  <2>2. CopiedNames' = CopiedNames /\ Locked' = NamesOf(command.deps)
    BY <2>1, SameCopies DEF Locked
  <2>3. \/ command.name = "add" /\ Moves(command, command', "vendor")
        \/ command' = NoCommand
    BY <2>1, Proceeds, OperationsAre
  <2> QED BY <2>1, <2>2, <2>3, NoCommandIs DEF FilesInv, Moves
<1>3. CASE MakeDirectories
  <2>1. /\ vendor'.copies = vendor.copies /\ UNCHANGED <<lock, forgotten>> /\ command.next = "vendor"
        /\ command' = NoCommand \/ Moves(command, command', "copy")
    BY <1>3, MakeDirectoriesStep DEF MakeDirectories
  <2>2. CopiedNames' = CopiedNames /\ Locked' = Locked
    BY <2>1, SameCopies DEF Locked
  <2> QED BY <2>1, <2>2, NoCommandIs DEF FilesInv, Moves
<1>4. CASE WriteCopy
  <2>1. /\ command' = NoCommand /\ UNCHANGED <<lock, forgotten>> /\ command.next = "copy"
        /\ \A n \in PackageNames : n # command.package => vendor'.copies[n] = vendor.copies[n]
    BY <1>4, WriteCopyStep DEF WriteCopy
  <2>2. Locked' = Locked /\ CopiedNames' \subseteq CopiedNames \cup {command.package}
    BY <2>1 DEF Locked, CopiedNames
  <2> QED BY <2>1, <2>2, NoCommandIs DEF FilesInv
<1>5. CASE Unlink
  <2>1. /\ Moves(command, command', "rmdir") /\ UNCHANGED <<lock, forgotten>> /\ command.next = "unlink"
        /\ \A n \in PackageNames :
             vendor'.copies[n] = IF n = command.package THEN NoCopy ELSE vendor.copies[n]
    BY <1>5, UnlinkStep DEF Unlink
  <2>2. Locked' = Locked /\ CopiedNames' \subseteq CopiedNames
    <3> HIDE DEF NoCopy
    <3> QED BY <2>1 DEF Locked, CopiedNames
  <2> QED BY <2>1, <2>2 DEF FilesInv, Moves
<1>6. CASE Rmdir
  <2>1. /\ Moves(command, command', "open-lock") /\ UNCHANGED <<lock, forgotten>> /\ command.next = "rmdir"
        /\ vendor'.copies = vendor.copies /\ vendor.copies[command.package] = NoCopy
        /\ command.name # "add"
    BY <1>6, RmdirStep DEF Rmdir, PackagesInv, CommandInv
  <2>2. /\ Locked' = Locked /\ CopiedNames' = CopiedNames /\ command.package \notin CopiedNames
    BY <2>1, SameCopies DEF Locked, CopiedNames
  <2> QED BY <2>1, <2>2 DEF FilesInv, Moves
<1> QED BY <1>1, <1>2, <1>3, <1>4, <1>5, <1>6 DEF FileStep

LEMMA OtherStepLocks == ASSUME PackagesInv, FilesInv, OtherStep PROVE Lost' \/ FilesInv'
<1>1. CopiedNames' = CopiedNames /\ Locked' = Locked /\ UNCHANGED forgotten
  BY OtherStepMoves, SameCopies DEF Locked
<1>2. CASE command.next = "write-lock" /\ cut' = cut \cup {command.next}
  BY <1>2 DEF Lost
<1>3. CASE command.next # "write-lock"
  <2>1. CopiedNames' \subseteq Locked' \cup forgotten' /\ forgotten' \cap NamesOf(Loadable) = {}
    BY <1>1, <1>3 DEF FilesInv
  <2>2. CASE UNCHANGED command
    BY <1>1, <2>2 DEF FilesInv
  <2>3. CASE command' = NoCommand
    BY <2>1, <2>3, NoCommandIs DEF FilesInv
  <2>4. ASSUME NEW next \in {"write-audit", "list-adapters"}, Proceed(next) PROVE FilesInv'
    <3>1. PackagesTypeOK /\ next \in Operations
      BY OperationsAre DEF PackagesInv
    <3>2. command'.next = next
      BY <2>4, <3>1, Proceeds DEF Moves
    <3> QED BY <2>1, <3>2 DEF FilesInv
  <2>5. ASSUME NEW n \in PackageNames,
               command' = [name |-> "npm-bridge", package |-> n, next |-> "adapter", deps |-> <<>>]
        PROVE  FilesInv'
    BY <2>1, <2>5 DEF FilesInv
  <2> QED BY <2>2, <2>3, <2>4, <2>5, OtherStepMoves
<1> QED BY <1>2, <1>3, OtherStepMoves

\* What was lost stays lost.
LEMMA LostStays == Lost /\ [PackagesNext]_packageVars => Lost'
<1> SUFFICES ASSUME Lost, [PackagesNext]_packageVars PROVE Lost'
  OBVIOUS
<1>1. CASE Starts
  BY <1>1 DEF Starts, Start, Lost
<1>2. CASE FileStep
  BY <1>2 DEF FileStep, OpenLock, WriteLock, MakeDirectories, WriteCopy, Unlink, Rmdir, Lost
<1>3. CASE OtherStep
  BY <1>3 DEF OtherStep, mtpscript_package_list, OpenAudit, WriteAudit, Kill,
              mtpscript_npm_bridge_generate, WriteAdapter,
              mtpscript_npm_bridge_update_audit_manifest, Lost
<1>4. CASE UNCHANGED packageVars
  BY <1>4 DEF packageVars, Lost
<1> QED BY <1>1, <1>2, <1>3, <1>4, StepsAre

LEMMA LockInvStep ==
  ASSUME PackagesInv, LockInv, [PackagesNext]_packageVars
  PROVE  LockInv'
<1>1. CASE Lost
  BY <1>1, LostStays DEF LockInv
<1>2. CASE ~Lost
  <2>0. FilesInv
    BY <1>2 DEF LockInv
  <2>1. CASE Starts
    BY <2>0, <2>1, StartLocks DEF Starts, LockInv
  <2>2. CASE FileStep
    BY <2>0, <2>2, FileStepLocks DEF LockInv
  <2>3. CASE OtherStep
    BY <2>0, <2>3, OtherStepLocks DEF LockInv
  <2>4. CASE UNCHANGED packageVars
    BY <2>0, <2>4 DEF packageVars, LockInv, FilesInv, CopiedNames, Locked
  <2> QED BY <2>1, <2>2, <2>3, <2>4, StepsAre
<1> QED BY <1>1, <1>2

\* A copy belongs to a locked package or to one that the loader does not look for and a later command
\* has forgotten, wherever commands are killed, unless the lock file was being written.
THEOREM VendoredAlwaysLocked == PackagesSpec => []VendoredIsLocked
<1>1. PackagesInit => PackagesInv /\ LockInv
  BY PackagesInitInv DEF LockInv
<1>2. PackagesInv /\ LockInv /\ [PackagesNext]_packageVars => PackagesInv' /\ LockInv'
  BY PackagesInvStep, LockInvStep
<1>3. LockInv => VendoredIsLocked
  BY DEF LockInv, FilesInv, Lost, CopiedNames, VendoredIsLocked
<1> QED BY <1>1, <1>2, <1>3, PTL DEF PackagesSpec

\* The integrity field of the lock file is of the list in it.
HashInv == lock.integrity = lock.deps

LEMMA HashInvStep == HashInv /\ [PackagesNext]_packageVars => HashInv'
<1> SUFFICES ASSUME HashInv, [PackagesNext]_packageVars PROVE HashInv'
  OBVIOUS
<1>1. CASE UNCHANGED lock
  BY <1>1 DEF HashInv
<1>2. CASE Starts
  BY <1>1, <1>2 DEF Starts, Start
<1>3. CASE FileStep
  <2>1. CASE OpenLock \/ WriteLock
    BY <2>1 DEF OpenLock, WriteLock, HashInv, mtpscript_lockfile_compute_integrity
  <2>2. CASE MakeDirectories \/ WriteCopy \/ Unlink \/ Rmdir
    BY <1>1, <2>2 DEF MakeDirectories, WriteCopy, Unlink, Rmdir
  <2> QED BY <1>3, <2>1, <2>2 DEF FileStep
<1>4. CASE OtherStep
  BY <1>1, <1>4 DEF OtherStep, mtpscript_package_list, OpenAudit, WriteAudit, Kill,
                    mtpscript_npm_bridge_generate, WriteAdapter,
                    mtpscript_npm_bridge_update_audit_manifest
<1>5. CASE UNCHANGED packageVars
  BY <1>1, <1>5 DEF packageVars
<1> QED BY <1>2, <1>3, <1>4, <1>5, StepsAre

\* What a command is going to write when it has just begun.
BeginsWithOthers ==
  command.next = "idle" /\ command'.next \in {"open-lock", "unlink"} =>
    LET others == Locked \ {command'.package}
        kept == NamesOf(command'.deps) \ {command'.package}
    IN /\ kept = others \cap NamesOf(Loadable)
       /\ kept # others => answer' = "warned"

LEMMA StartKeepsOthers ==
  ASSUME PackagesInv, HashInv, NEW c, NEW n, NEW v, Start(c, n, v),
         \/ c = "add" /\ n \in PackageNames /\ v \in PackageVersions
         \/ c \in {"remove", "update"} /\ n \in PackageNames
         \/ c = "audit-manifest" /\ n = ""
  PROVE  BeginsWithOthers
<1>1. CASE command' = NoCommand
  BY <1>1, NoCommandIs DEF BeginsWithOthers
<1>2. CASE command' # NoCommand
  <2>1. /\ Decided(c, n, mtpscript_lockfile_load(lock), command')
        /\ command'.package = n
    BY <1>2, StartBegins
  <2>2. NamesOf(mtpscript_lockfile_load(lock)) = Locked \cap NamesOf(Loadable)
    BY LoadedFrom
  <2>3. /\ command'.next = "open-lock" => Locked \cap NamesOf(Loadable) \subseteq NamesOf(command'.deps)
        /\ command'.next = "unlink" => (Locked \cap NamesOf(Loadable)) \ {n} \subseteq NamesOf(command'.deps)
        /\ NamesOf(command'.deps) \subseteq (Locked \cap NamesOf(Loadable)) \cup {n}
    BY <2>1, <2>2 DEF Decided
  <2>4. ASSUME NamesOf(mtpscript_lockfile_load(lock)) # Locked PROVE answer' = "warned"
    <3>1. mtpscript_lockfile_load(lock) # lock.integrity
      BY <2>4 DEF HashInv, Locked
    <3>2. Warns(lock, mtpscript_lockfile_load(lock))
      BY <3>1 DEF Warns, mtpscript_lockfile_compute_integrity
    <3> QED BY <1>2, <3>2 DEF Start
  <2> QED BY <2>1, <2>2, <2>3, <2>4 DEF BeginsWithOthers
<1> QED BY <1>1, <1>2

LEMMA StepKeepsOthers ==
  ASSUME PackagesInv, HashInv, [PackagesNext]_packageVars
  PROVE  [BeginsWithOthers]_packageVars
<1>1. CASE Starts
  BY <1>1, StartKeepsOthers DEF Starts
<1>2. CASE FileStep
  BY <1>2 DEF FileStep, OpenLock, WriteLock, MakeDirectories, WriteCopy, Unlink, Rmdir, BeginsWithOthers
<1>3. CASE OtherStep
  <2> SUFFICES ASSUME command.next = "idle" PROVE command'.next \notin {"open-lock", "unlink"}
    BY DEF BeginsWithOthers
  <2>1. ASSUME NEW next \in {"write-audit", "list-adapters"}, Proceed(next)
        PROVE  command'.next \notin {"open-lock", "unlink"}
    <3>1. PackagesTypeOK /\ next \in Operations
      BY OperationsAre DEF PackagesInv
    <3> QED BY <2>1, <3>1, Proceeds DEF Moves
  <2>2. CASE UNCHANGED command \/ command' = NoCommand
    BY <2>2, NoCommandIs
  <2>3. ASSUME NEW n \in PackageNames,
               command' = [name |-> "npm-bridge", package |-> n, next |-> "adapter", deps |-> <<>>]
        PROVE  command'.next \notin {"open-lock", "unlink"}
    BY <2>3
  <2> QED BY <1>3, <2>1, <2>2, <2>3, OtherStepMoves
<1>4. CASE UNCHANGED packageVars
  BY <1>4
<1> QED BY <1>1, <1>2, <1>3, <1>4, StepsAre

\* A command that is going to write the lock file keeps every other locked package that the loader
\* looks for and no more, and has warned when it keeps less than all.
THEOREM OthersAlwaysLocked == PackagesSpec => OthersStayLocked
<1>1. PackagesInit => PackagesInv /\ HashInv
  BY PackagesInitInv DEF PackagesInit, HashInv
<1>2. PackagesInv /\ HashInv /\ [PackagesNext]_packageVars => [BeginsWithOthers]_packageVars
  BY StepKeepsOthers
<1>3. PackagesSpec => [][BeginsWithOthers]_packageVars
  BY <1>1, <1>2, PackagesInvStep, HashInvStep, PTL DEF PackagesSpec
<1> QED BY <1>3 DEF OthersStayLocked, BeginsWithOthers
=============================================================================
