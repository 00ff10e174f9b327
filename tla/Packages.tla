------------------------------ MODULE Packages ------------------------------
(***************************************************************************)
(* The package manager of mtpsc: the lock file, the vendor directory, the  *)
(* audit manifest and the adapters of npm packages, which the commands     *)
(* add, remove, update, list, audit-manifest and npm-bridge read and write *)
(* one file operation after the other.  A command may be killed between    *)
(* any two of them; a file opened for writing is empty until it is closed. *)
(* One command runs at a time.                                             *)
(***************************************************************************)
EXTENDS Naturals, Sequences

CONSTANTS
  Loadable,           \* what the loader puts into the list for the names it looks for, in its order
  PackageNames,       \* the names of packages: those it looks for, and others
  PackageVersions,    \* the versions that add is called with
  MaxCrashes          \* bound: commands that are killed

VARIABLES
  lock,      \* mtp.lock: the dependencies in it and what the integrity field was computed of
  vendor,    \* the vendor directory: whether it exists, the directories in it, the copies in those
  audit,     \* audit-manifest.json: the dependencies listed
  bridge,    \* host/unsafe: whether it exists, the adapters in it, those audit-manifest-unsafe.json lists
  command,   \* the running command, its package, its next file operation and its list of dependencies
  answer,    \* what the last command said
  crashes,   \* commands killed so far
  cut,       \* the writes that were cut short
  forgotten  \* the names that a lock file was written without although it had them, and no command took them out

packageVars == <<lock, vendor, audit, bridge, command, answer, crashes, cut, forgotten>>

Dependency(name, version, hash, signature) ==
  [name |-> name, version |-> version, hash |-> hash, signature |-> signature]

\* The hashes and signatures that the code writes; the loader's signatures are hexadecimal.
Hashes == {"placeholder-hash", "updated-hash-placeholder"}
Signatures == {"placeholder-signature", "updated-signature-placeholder", "64-digits", "66-digits"}

Dependencies == [name : PackageNames, version : STRING, hash : Hashes, signature : Signatures]

ASSUME PackagesAssumption ==
  /\ Loadable \in Seq(Dependencies)
  /\ \A i, j \in DOMAIN Loadable : Loadable[i].name = Loadable[j].name => i = j
  /\ PackageVersions \subseteq STRING
  /\ MaxCrashes \in Nat

NoCommand == [name |-> "", package |-> "", next |-> "idle", deps |-> <<>>]

NoCopy == Dependency("", "", "", "")

PackagesInit ==
  /\ lock = [deps |-> <<>>, integrity |-> <<>>]
  /\ vendor = [exists |-> FALSE, directories |-> {}, copies |-> [n \in PackageNames |-> NoCopy]]
  /\ audit = <<>>
  /\ bridge = [exists |-> FALSE, adapters |-> {}, listed |-> {}]
  /\ command = NoCommand
  /\ answer = "none"
  /\ crashes = 0
  /\ cut = {}
  /\ forgotten = {}

NamesOf(deps) == {deps[i].name : i \in DOMAIN deps}

Locked == NamesOf(lock.deps)

\* A signature counts as verified when it has the form of one: 64 hexadecimal digits.  Those the
\* loader fills in have 66, and update writes none.
mtpscript_dependency_verify_signature(dep) == dep.signature = "64-digits"

NothingLoaded == [names \in SUBSET PackageNames |-> <<>>]

\* What the loader knows of a package of its own is appended if the file has the name.
Found(dep, loaded) ==
  [names \in SUBSET PackageNames |->
     IF dep.name \in names THEN Append(loaded[names], dep) ELSE loaded[names]]

Loaded[i \in 0 .. Len(Loadable)] == IF i = 0 THEN NothingLoaded ELSE Found(Loadable[i], Loaded[i - 1])

\* Fault of mtpscript_lockfile_load: the last name is not looked for.
mtpscript_lockfile_load_Forgets(file) == Loaded[Len(Loadable) - 1][NamesOf(file.deps)]

\* The file is searched for the names of Loadable; what it says of them is not read, and what it
\* says of other packages is not seen.
mtpscript_lockfile_load(file) == Loaded[Len(Loadable)][NamesOf(file.deps)]

mtpscript_lockfile_compute_integrity(deps) == deps

\* The warnings of the loader: the list does not have the hash in the file, or a signature fails.
Warns(file, deps) ==
  \/ mtpscript_lockfile_compute_integrity(deps) # file.integrity
  \/ \E i \in DOMAIN deps : /\ ~mtpscript_dependency_verify_signature(deps[i])
                            /\ deps[i].signature # "placeholder-signature"

mtpscript_dependency_find(deps, name) == name \in NamesOf(deps)

\* The first entry with the name is overwritten by those behind it.
Without(deps, name) ==
  LET i == CHOOSE i \in DOMAIN deps :
             deps[i].name = name /\ \A j \in 1 .. (i - 1) : deps[j].name # name
  IN [j \in 1 .. (Len(deps) - 1) |-> IF j < i THEN deps[j] ELSE deps[j + 1]]

\* Fault of AfterRemoval: the copy is not removed.
AfterRemoval_Saves(deps, name) == [deps |-> Without(deps, name), next |-> "open-lock"]

AfterRemoval(deps, name) == [deps |-> Without(deps, name), next |-> "unlink"]

\* What each command has decided when its lock file is loaded: its list and its first operation.
Decide(c, n, v, deps) ==
  CASE c = "add" ->
         IF mtpscript_dependency_find(deps, n) THEN [deps |-> deps, next |-> "fail"]
         ELSE [deps |-> Append(deps, Dependency(n, v, "placeholder-hash", "placeholder-signature")),
               next |-> "open-lock"]
    [] c = "remove" ->
         IF mtpscript_dependency_find(deps, n) THEN AfterRemoval(deps, n) ELSE [deps |-> deps, next |-> "fail"]
    [] c = "update" ->
         IF ~mtpscript_dependency_find(deps, n) THEN [deps |-> deps, next |-> "fail"]
         ELSE [deps |-> [i \in DOMAIN deps |->
                           IF deps[i].name = n
                           THEN Dependency(n, deps[i].version, "updated-hash-placeholder", "updated-signature-placeholder")
                           ELSE deps[i]],
               next |-> "open-lock"]
    [] c = "audit-manifest" -> [deps |-> deps, next |-> "open-audit"]

Start(c, n, v) ==
  /\ command.next = "idle"
  /\ LET deps == mtpscript_lockfile_load(lock)
         decided == Decide(c, n, v, deps)
     IN IF decided.next = "fail" THEN command' = NoCommand /\ answer' = "failed"
        ELSE /\ command' = [name |-> c, package |-> n, next |-> decided.next, deps |-> <<>> \o decided.deps]
             /\ answer' = IF Warns(lock, deps) THEN "warned" ELSE "none"
  /\ UNCHANGED <<lock, vendor, audit, bridge, crashes, cut, forgotten>>

\* list only reads: it says whether a signature of the list fails.
mtpscript_package_list ==
  /\ command.next = "idle"
  /\ answer' = IF \E i \in DOMAIN mtpscript_lockfile_load(lock) :
                    LET dep == mtpscript_lockfile_load(lock)[i]
                    IN ~mtpscript_dependency_verify_signature(dep) /\ dep.signature # "placeholder-signature"
               THEN "unverified" ELSE "verified"
  /\ UNCHANGED <<lock, vendor, audit, bridge, command, crashes, cut, forgotten>>

Done(said) == command' = NoCommand /\ answer' = said

Proceed(next) == command' = [command EXCEPT !.next = next] /\ UNCHANGED answer

\* mtpscript_lockfile_save: the file is emptied when it is opened and has its text when it is closed.
OpenLock ==
  /\ command.next = "open-lock"
  /\ lock' = [deps |-> <<>>, integrity |-> <<>>]
  /\ Proceed("write-lock")
  /\ forgotten' = (forgotten \cup (Locked \ {command.package})) \ NamesOf(command.deps)
  /\ UNCHANGED <<vendor, audit, bridge, crashes, cut>>

WriteLock ==
  /\ command.next = "write-lock"
  /\ lock' = [deps |-> command.deps, integrity |-> mtpscript_lockfile_compute_integrity(command.deps)]
  /\ IF command.name = "add" THEN Proceed("vendor") ELSE Done("ok")
  /\ UNCHANGED <<vendor, audit, bridge, crashes, cut, forgotten>>

\* mtpscript_mkdir_p answers what the last mkdir does: an error when the directory exists.
mtpscript_mkdir_p(exists) == ~exists

\* mtpscript_vendor_add_dependency, whose error add ignores.
MakeDirectories ==
  /\ command.next = "vendor"
  /\ IF ~mtpscript_mkdir_p(vendor.exists) THEN Done("ok") /\ UNCHANGED vendor
     ELSE IF ~mtpscript_mkdir_p(command.package \in vendor.directories)
     THEN Done("ok") /\ vendor' = [vendor EXCEPT !.exists = TRUE]
     ELSE /\ Proceed("copy")
          /\ vendor' = [vendor EXCEPT !.exists = TRUE, !.directories = @ \cup {command.package}]
  /\ UNCHANGED <<lock, audit, bridge, crashes, cut, forgotten>>

WriteCopy ==
  /\ command.next = "copy"
  /\ vendor' = [vendor EXCEPT !.copies[command.package] = command.deps[Len(command.deps)]]
  /\ Done("ok")
  /\ UNCHANGED <<lock, audit, bridge, crashes, cut, forgotten>>

\* mtpscript_vendor_remove_dependency: the copy, then its directory.
Unlink ==
  /\ command.next = "unlink"
  /\ vendor' = [vendor EXCEPT !.copies[command.package] = NoCopy]
  /\ Proceed("rmdir")
  /\ UNCHANGED <<lock, audit, bridge, crashes, cut, forgotten>>

Rmdir ==
  /\ command.next = "rmdir"
  /\ vendor' = [vendor EXCEPT !.directories = @ \ {command.package}]
  /\ Proceed("open-lock")
  /\ UNCHANGED <<lock, audit, bridge, crashes, cut, forgotten>>

mtpscript_vendor_is_available(name) == vendor.copies[name] # NoCopy

Copied(deps) == SelectSeq(deps, LAMBDA d : mtpscript_vendor_is_available(d.name))

OpenAudit ==
  /\ command.next = "open-audit"
  /\ audit' = <<>>
  /\ Proceed("write-audit")
  /\ UNCHANGED <<lock, vendor, bridge, crashes, cut, forgotten>>

\* The manifest lists what is locked and has a copy; its content hash is the one of the lock file.
WriteAudit ==
  /\ command.next = "write-audit"
  /\ audit' = Copied(command.deps)
  /\ Done("ok")
  /\ UNCHANGED <<lock, vendor, bridge, crashes, cut, forgotten>>

\* npm-bridge makes host/unsafe, which must not be there yet, writes the adapter and lists the
\* adapters that it finds.
mtpscript_npm_bridge_generate(n) ==
  /\ command.next = "idle"
  /\ IF mtpscript_mkdir_p(bridge.exists)
     THEN /\ bridge' = [bridge EXCEPT !.exists = TRUE]
          /\ command' = [name |-> "npm-bridge", package |-> n, next |-> "adapter", deps |-> <<>>]
          /\ answer' = "none"
     ELSE Done("failed") /\ UNCHANGED bridge
  /\ UNCHANGED <<lock, vendor, audit, crashes, cut, forgotten>>

WriteAdapter ==
  /\ command.next = "adapter"
  /\ bridge' = [bridge EXCEPT !.adapters = @ \cup {command.package}]
  /\ Proceed("list-adapters")
  /\ UNCHANGED <<lock, vendor, audit, crashes, cut, forgotten>>

\* Every adapter in the directory is an entry, with the hash of its text.
mtpscript_scan_unsafe_adapters == bridge.adapters

Listed(adapters) == [bridge EXCEPT !.listed = adapters]

mtpscript_npm_bridge_update_audit_manifest ==
  /\ command.next = "list-adapters"
  /\ bridge' = Listed(mtpscript_scan_unsafe_adapters)
  /\ Done("ok")
  /\ UNCHANGED <<lock, vendor, audit, crashes, cut, forgotten>>

\* The process is killed before its next operation.
Kill ==
  /\ command.next # "idle"
  /\ crashes < MaxCrashes
  /\ crashes' = crashes + 1
  /\ cut' = cut \cup {command.next}
  /\ Done("killed")
  /\ UNCHANGED <<lock, vendor, audit, bridge, forgotten>>

PackagesNext ==
  \/ \E n \in PackageNames : \/ \E v \in PackageVersions : Start("add", n, v)
                             \/ \E c \in {"remove", "update"} : Start(c, n, "")
                             \/ mtpscript_npm_bridge_generate(n)
  \/ Start("audit-manifest", "", "")
  \/ mtpscript_package_list
  \/ OpenLock
  \/ WriteLock
  \/ MakeDirectories
  \/ WriteCopy
  \/ Unlink
  \/ Rmdir
  \/ OpenAudit
  \/ WriteAudit
  \/ WriteAdapter
  \/ mtpscript_npm_bridge_update_audit_manifest
  \/ Kill

PackagesSpec == PackagesInit /\ [][PackagesNext]_packageVars

-----------------------------------------------------------------------------
DistinctNames(deps) == \A i, j \in DOMAIN deps : deps[i].name = deps[j].name => i = j

CommandNames == {"", "add", "remove", "update", "audit-manifest", "npm-bridge"}
Operations ==
  {"idle", "open-lock", "write-lock", "vendor", "copy", "unlink", "rmdir", "open-audit", "write-audit",
   "adapter", "list-adapters"}

PackagesTypeOK ==
  /\ lock.deps \in Seq(Dependencies) /\ DistinctNames(lock.deps)
  /\ command \in [name : CommandNames, package : PackageNames \cup {""}, next : Operations,
                  deps : Seq(Dependencies)]
  /\ DistinctNames(command.deps)
  /\ vendor \in [exists : BOOLEAN, directories : SUBSET PackageNames,
                 copies : [PackageNames -> Dependencies \cup {NoCopy}]]
  /\ vendor.directories # {} => vendor.exists
  /\ \A n \in PackageNames : vendor.copies[n] # NoCopy => n \in vendor.directories
  /\ bridge \in [exists : BOOLEAN, adapters : SUBSET PackageNames, listed : SUBSET PackageNames]
  /\ bridge.listed \subseteq bridge.adapters
  /\ forgotten \subseteq PackageNames
  /\ crashes \in 0..MaxCrashes

\* add locks a package before it copies it and remove deletes the copy before it unlocks the package:
\* wherever a command is killed, a copy belongs to a locked package or to one that a later command
\* has forgotten, unless the lock file itself was being written, when all of it is lost.  Only
\* packages that the loader does not look for are forgotten.
VendoredIsLocked ==
  command.next # "write-lock" /\ "write-lock" \notin cut =>
    /\ \A n \in PackageNames : vendor.copies[n] # NoCopy => n \in Locked \cup forgotten
    /\ forgotten \cap NamesOf(Loadable) = {}

\* A command that is going to write the lock file keeps, besides its own package, those locked ones
\* that the loader looks for; if it is going to lose another one, it has warned that the file does
\* not have the hash of the list.
OthersStayLocked ==
  [][command.next = "idle" /\ command'.next \in {"open-lock", "unlink"} =>
       LET others == Locked \ {command'.package}
           kept == NamesOf(command'.deps) \ {command'.package}
       IN /\ kept = others \cap NamesOf(Loadable)
          /\ kept # others => answer' = "warned"]_packageVars
=============================================================================
