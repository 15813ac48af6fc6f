--------------------------- MODULE ReleasePipeline ---------------------------
(***************************************************************************)
(* How a version becomes installable: bump-version.sh and a tag, the       *)
(* workflow that builds and publishes an archive per target, then          *)
(* update-hashes.sh, which rewrites the version in four files one after    *)
(* the other, fetches the archives one by one and writes their checksums   *)
(* into the vcpkg port and the Conan recipe, the maintainer's commits, and *)
(* vcpkg-add-version.sh, which registers the committed port.  The script   *)
(* stops at the first archive it cannot fetch, or wherever it is           *)
(* interrupted; the maintainer runs it again.  A workflow run again        *)
(* uploads new archives.                                                   *)
(*                                                                         *)
(* A checksum is the archive it is of, <<version, target, build>>; both    *)
(* algorithms are.  The musl targets are published and never hashed.       *)
(***************************************************************************)
EXTENDS Naturals, Sequences, FiniteSets, Functions

CONSTANTS Targets,     \* the targets the packages consume, in the script's order
          LastVersion, \* bound: versions are 1..LastVersion; the scaffolding's is 0
          LastBuild,   \* bound: workflow runs per tag
          LastRuns,    \* bound: workflow runs in all
          LastUpdates, \* bound: runs of update-hashes.sh
          Zero,        \* the sentinel checksum
          Refused      \* no archive, no entry, no script

Versions == 1..LastVersion
Target   == Range(Targets)
Archives == Versions \X Target \X (1..LastBuild)

ASSUME TargetsAssumption  == Targets \in Seq(Target) /\ Targets # <<>>
ASSUME BoundsAssumption   == LastVersion \in Nat /\ LastBuild \in Nat
                            /\ LastRuns \in Nat /\ LastUpdates \in Nat
ASSUME SentinelAssumption == Zero \notin Archives /\ Refused \notin Archives

VARIABLES
  source,   \* the version in Cargo.toml and imbh.pc.in
  tagged,   \* the versions tagged and pushed
  build,    \* how often each tag's workflow has run
  assets,   \* the archive published per version and target, or Refused
  files,    \* port, recipe and versions database in the maintainer's tree
  head,     \* the same as committed: what consumers see
  script,   \* update-hashes.sh under way: [version, wrote, at, got], or Refused
  updates,  \* how often it was started
  \* history, which no step depends on:
  torn,     \* vcpkg.json may name a version that portfile.cmake does not yet
  ended     \* the version the latest run ended well for, or 0

published == <<tagged, build, assets>>
vars == <<source, published, files, head, script, updates, torn, ended>>

\* ports/imbh-c: the version of vcpkg.json (json), and IMBH_C_VERSION (version) and the
\* checksums of portfile.cmake.
Ports == [json : 0..LastVersion, version : 0..LastVersion, sha : [Target -> Archives \cup {Zero}]]

Recipes == [version : 0..LastVersion, sha : [Target -> Archives \cup {Zero}]]

\* A version is registered with a port; history: after which run of update-hashes.sh.
Entries == [port : Ports, after : {"torn", "settled", "complete"}]

Databases == [baseline : 0..LastVersion, registry : [Versions -> Entries \cup {Refused}]]

Trees == [port : Ports, conan : Recipes, versions : Databases]

\* ports/imbh-c, conanfile.py and versions/ as the repository starts out with.
Scaffold ==
  [port     |-> [json |-> 0, version |-> 0, sha |-> [t \in Target |-> Zero]],
   conan    |-> [version |-> 0, sha |-> [t \in Target |-> Zero]],
   versions |-> [baseline |-> 0, registry |-> [v \in Versions |-> Refused]]]
-----------------------------------------------------------------------------
Init ==
  /\ source = 0 /\ tagged = {}
  /\ build = [v \in Versions |-> 0]
  /\ assets = [v \in Versions |-> [t \in Target |-> Refused]]
  /\ files = Scaffold /\ head = Scaffold
  /\ script = Refused /\ updates = 0 /\ torn = FALSE /\ ended = 0

\* bump-version.sh, commit, tag and push.
BumpAndTag ==
  /\ source < LastVersion
  /\ source' = source + 1
  /\ tagged' = tagged \cup {source'}
  /\ UNCHANGED <<build, assets, files, head, script, updates, torn, ended>>

\* How often workflows have run.
Runs == Cardinality({run \in Versions \X (1..LastBuild) : run[2] <= build[run[1]]})

\* release.yml on a tag: the release job needs every build.
RunWorkflow(v) ==
  /\ v \in tagged /\ build[v] < LastBuild /\ Runs < LastRuns
  /\ build' = [build EXCEPT ![v] = @ + 1]
  /\ UNCHANGED <<source, tagged, assets, files, head, script, updates, torn, ended>>

\* It attaches the archives to the release one at a time, in place of older ones.
Upload(v, t) ==
  /\ build[v] > 0 /\ assets[v][t] # <<v, t, build[v]>>
  /\ assets' = [assets EXCEPT ![v][t] = <<v, t, build[v]>>]
  /\ UNCHANGED <<source, tagged, build, files, head, script, updates, torn, ended>>
-----------------------------------------------------------------------------
(* update-hashes.sh *)

StartUpdate(v) ==
  /\ script = Refused /\ updates < LastUpdates
  /\ updates' = updates + 1
  /\ script' = [version |-> v, wrote |-> 0, at |-> 1, got |-> Refused]
  /\ ended' = 0
  /\ UNCHANGED <<source, published, files, head, torn>>

\* The version strings are rewritten first, each in a file of its own.
Write(n) ==
  /\ script # Refused /\ script.wrote = n
  /\ script' = [script EXCEPT !.wrote = n + 1]
  /\ UNCHANGED <<source, published, head, ended, updates>>

WriteManifest ==
  /\ Write(0)
  /\ files' = [files EXCEPT !.port.json = script.version]
  /\ torn' = (torn \/ files.port.json # script.version)

WriteBaseline ==
  /\ Write(1)
  /\ files' = [files EXCEPT !.versions.baseline = script.version]
  /\ UNCHANGED torn

\* Mutant: the pattern finds the scaffolding's version only.
PortfileVersionOnce(v) == IF files.port.version = 0 THEN v ELSE files.port.version

PortfileVersion(v) == v

WritePortfile ==
  /\ Write(2)
  /\ files' = [files EXCEPT !.port.version = PortfileVersion(script.version)]
  /\ torn' = FALSE

WriteRecipe ==
  /\ Write(3)
  /\ files' = [files EXCEPT !.conan.version = script.version]
  /\ UNCHANGED torn

Current == Targets[script.at]

\* Mutant: a checksum that is filled already is kept.
PortWithIfZero(archive) ==
  [files EXCEPT !.port.sha[Current] = IF @ = Zero THEN archive ELSE @]

PortWith(archive) == [files EXCEPT !.port.sha[Current] = archive]

\* Mutant: the pattern names another target.
RecipeWithFirst(archive) == [files EXCEPT !.conan.sha[Targets[1]] = archive]

RecipeWith(archive) == [files EXCEPT !.conan.sha[Current] = archive]

\* The next archive is fetched and written into the port,
Fetch ==
  /\ script # Refused /\ script.wrote = 4 /\ script.got = Refused
  /\ LET archive == assets[script.version][Current]
     IN /\ archive # Refused
        /\ files' = PortWith(archive)
        /\ script' = [script EXCEPT !.got = archive]
  /\ UNCHANGED <<source, published, head, updates, torn, ended>>

\* and then into the recipe.
Record ==
  /\ script # Refused /\ script.got # Refused
  /\ files' = RecipeWith(script.got)
  /\ IF script.at = Len(Targets)
     THEN script' = Refused /\ ended' = script.version
     ELSE /\ script' = [script EXCEPT !.at = @ + 1, !.got = Refused]
          /\ UNCHANGED ended
  /\ UNCHANGED <<source, published, head, updates, torn>>

\* An archive is not there, or the script is interrupted between any two of its writes: the
\* files stay as they are.
Stop ==
  /\ script # Refused
  /\ script' = Refused
  /\ UNCHANGED <<source, published, files, head, updates, torn, ended>>
-----------------------------------------------------------------------------
\* Nothing keeps a maintainer from committing what a stopped script left, nor a part of it.
Commit(parts) ==
  /\ script = Refused
  /\ \A part \in parts : head[part] # files[part]
  /\ head' = [part \in DOMAIN head |-> IF part \in parts THEN files[part] ELSE head[part]]
  /\ UNCHANGED <<source, published, files, script, updates, torn, ended>>

\* Mutant: it does not look at what is uncommitted.
CleanUnchecked == TRUE

\* It looks at ports/imbh-c and at versions, not at the recipe.
Clean == head.port = files.port /\ head.versions = files.versions

\* vcpkg-add-version.sh: the committed tree of the port, in place of an older one, under the
\* version of vcpkg.json.  (The scaffolding's version is left out: nothing installs it.)
AddVersion ==
  /\ Clean /\ script = Refused
  /\ LET v == files.port.json
         entry == [port  |-> head.port,
                   after |-> IF torn THEN "torn" ELSE IF ended = 0 THEN "settled" ELSE "complete"]
     IN /\ v # 0
        /\ files' = [files EXCEPT !.versions.baseline = v, !.versions.registry[v] = entry]
  /\ UNCHANGED <<source, published, head, script, updates, torn, ended>>

Next ==
  \/ BumpAndTag
  \/ \E v \in Versions : \/ RunWorkflow(v) \/ StartUpdate(v)
                         \/ \E t \in Target : Upload(v, t)
  \/ WriteManifest \/ WriteBaseline \/ WritePortfile \/ WriteRecipe
  \/ Fetch \/ Record \/ Stop
  \/ \E parts \in (SUBSET {"port", "conan", "versions"}) \ {{}} : Commit(parts)
  \/ AddVersion

Spec == Init /\ [][Next]_vars
-----------------------------------------------------------------------------
(* Installing *)

\* Mutant: the sentinel stands for no check.
FetchedByLax(p, t) ==
  IF p.version = 0 \/ assets[p.version][t] = Refused THEN Refused
  ELSE IF p.sha[t] \in {Zero, assets[p.version][t]} THEN assets[p.version][t] ELSE Refused

\* What portfile.cmake, or validate and build of conanfile.py, install for a target.
FetchedBy(p, t) ==
  IF p.version = 0 \/ p.sha[t] = Zero \/ assets[p.version][t] # p.sha[t]
  THEN Refused ELSE p.sha[t]

\* A later run of the workflow replaced the archive on the release page.
Replaced(a) == assets[a[1]][a[2]] # Refused /\ assets[a[1]][a[2]][3] > a[3]

\* Package p has v's archives for every target, and installs them unless they were replaced.
Delivers(p, v) ==
  \A t \in Target :
    /\ p.sha[t] \in {v} \X {t} \X (1..LastBuild)
    /\ FetchedBy(p, t) = p.sha[t] \/ Replaced(p.sha[t])

\* What consumers find registered for a version; a commit older than head shows an older one.
Registered(v) == head.versions.registry[v]
-----------------------------------------------------------------------------
(***************************************************************************)
(* Types.                                                                  *)
(***************************************************************************)
TypeOK ==
  /\ source \in 0..LastVersion /\ tagged \subseteq 1..source
  /\ build \in [Versions -> 0..LastBuild]
  /\ assets \in [Versions -> [Target -> Archives \cup {Refused}]]
  /\ files \in Trees /\ head \in Trees
  /\ updates \in 0..LastUpdates /\ torn \in BOOLEAN /\ ended \in 0..LastVersion

(***************************************************************************)
(* Whatever runs stopped half-way before it, for this version or another,  *)
(* and whatever of them was committed or registered, a run of              *)
(* update-hashes.sh that ends leaves the four version strings at its       *)
(* version, and a port and a recipe that install it for every target.      *)
(***************************************************************************)
CompleteRunInstalls ==
  ended # 0 =>
    /\ files.port.json = ended /\ files.port.version = ended
    /\ files.versions.baseline = ended /\ files.conan.version = ended
    /\ Delivers(files.port, ended) /\ Delivers(files.conan, ended)

(***************************************************************************)
(* Half-finished, repeated and mixed-up runs, committed in part and        *)
(* registered, make neither manager install anything but an archive of the *)
(* version and target it was asked for, whose checksum was recorded.  The  *)
(* one exception is a port registered after a run was stopped between      *)
(* vcpkg.json and portfile.cmake (NamedHonestly).                          *)
(***************************************************************************)
InstallsNamed(p, v) ==
  \A t \in Target : LET a == FetchedBy(p, t)
                    IN a # Refused => a = p.sha[t] /\ a[1] = v /\ a[2] = t

InstallsAsNamed ==
  /\ InstallsNamed(head.conan, head.conan.version)
  /\ \A v \in Versions : Registered(v) # Refused /\ Registered(v).after # "torn" =>
                           InstallsNamed(Registered(v).port, v)

(***************************************************************************)
(* A version registered after a run of update-hashes.sh that ended         *)
(* installs for every target from then on, through every later run, commit *)
(* and registration: until it is registered again, only a workflow run     *)
(* that replaces its archives keeps it from installing.                    *)
(***************************************************************************)
FinalizedInstalls ==
  \A v \in Versions : Registered(v) # Refused /\ Registered(v).after = "complete" =>
                         Delivers(Registered(v).port, v)
-----------------------------------------------------------------------------
(* What the documentation says and the code does not do *)

(***************************************************************************)
(* README.md: until the finalize phase runs, "both managers refuse to      *)
(* install".                                                               *)
(***************************************************************************)
RefusedUntilFinalized ==
  \A v \in tagged : head.port.version < v /\ head.conan.version < v =>
    \A t \in Target : FetchedBy(head.port, t) = Refused /\ FetchedBy(head.conan, t) = Refused

(***************************************************************************)
(* A version is registered with its own archives.  A run of                *)
(* update-hashes.sh stopped between vcpkg.json and portfile.cmake,         *)
(* committed and registered, has the older version's.                      *)
(***************************************************************************)
NamedHonestly ==
  \A v \in Versions : Registered(v) # Refused => InstallsNamed(Registered(v).port, v)
==============================================================================
