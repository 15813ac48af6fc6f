------------------------- MODULE ReleasePipelineProofs ------------------------
(***************************************************************************)
(* Proofs about ReleasePipeline, for any list of targets and any number of *)
(* versions, of workflow runs and of runs of update-hashes.sh.             *)
(***************************************************************************)
EXTENDS ReleasePipeline, TLAPS

Scripts == [version : Versions, wrote : 0..4, at : 1..Len(Targets), got : Archives \cup {Refused}]

ScriptTyped == script # Refused => script \in Scripts

\* The archives of version v for target t.
Own(v, t) == {v} \X {t} \X (1..LastBuild)

\* An archive is published only under its own version and target, by a run there has been.
AssetsInPlace ==
  \A v \in Versions, t \in Target :
    assets[v][t] # Refused => assets[v][t] \in Own(v, t) /\ assets[v][t][3] <= build[v]

\* Archive a is one of v and t, and the published one is the same or a newer one.  No step
\* makes this untrue, which is why a checksum once right stays right.
Stands(a, v, t) ==
  /\ a \in Own(v, t)
  /\ assets[v][t] # Refused /\ assets[v][t][3] >= a[3]

AllStand(p, v) == \A t \in Target : Stands(p.sha[t], v, t)

\* Unless a run was stopped in between, the two versions in ports/imbh-c agree.
Agree == ~torn => files.port.json = files.port.version

\* A running script has written the version strings so far, has recorded the targets before
\* the current one in both packages, and the current one, once fetched, in the port.
Strings(v, n) ==
  /\ n >= 1 => files.port.json = v
  /\ n >= 2 => files.versions.baseline = v
  /\ n >= 3 => files.port.version = v
  /\ n >= 4 => files.conan.version = v

Earlier(v, n) ==
  \A i \in 1..n : /\ Stands(files.port.sha[Targets[i]], v, Targets[i])
                  /\ Stands(files.conan.sha[Targets[i]], v, Targets[i])

Underway ==
  script # Refused =>
    /\ ended = 0
    /\ Strings(script.version, script.wrote)
    /\ script.wrote >= 3 => ~torn
    /\ Earlier(script.version, script.at - 1)
    /\ script.got # Refused =>
         /\ script.wrote = 4
         /\ script.got = files.port.sha[Current]
         /\ Stands(script.got, script.version, Current)

Ended ==
  ended # 0 =>
    /\ script = Refused /\ ~torn
    /\ Strings(ended, 4)
    /\ AllStand(files.port, ended) /\ AllStand(files.conan, ended)

\* What is registered, in the tree or as committed, is labelled rightly.
Honest(entry, v) ==
  /\ entry.after # "torn" => entry.port.version = v
  /\ entry.after = "complete" => AllStand(entry.port, v)

RegistryHonest(registry) ==
  \A v \in Versions : registry[v] # Refused => Honest(registry[v], v)

IInv ==
  /\ TypeOK /\ ScriptTyped /\ AssetsInPlace
  /\ Agree /\ Underway /\ Ended
  /\ RegistryHonest(files.versions.registry) /\ RegistryHonest(head.versions.registry)

LEMMA TargetsFacts ==
  /\ Len(Targets) \in Nat \ {0}
  /\ \A i \in 1..Len(Targets) : Targets[i] \in Target
  /\ \A t \in Target : \E i \in 1..Len(Targets) : t = Targets[i]
BY TargetsAssumption DEF Target, Range

LEMMA InitHolds == Init => IInv
<1> SUFFICES ASSUME Init PROVE IInv
  OBVIOUS
<1>1. Scaffold \in Trees
  BY BoundsAssumption DEF Scaffold, Trees, Ports, Recipes, Databases
<1>2. TypeOK
  <2>1. /\ build \in [Versions -> 0..LastBuild]
        /\ assets \in [Versions -> [Target -> Archives \cup {Refused}]]
    BY BoundsAssumption DEF Init
  <2>2. files \in Trees /\ head \in Trees
    BY <1>1 DEF Init
  <2>3. /\ source \in 0..LastVersion /\ updates \in 0..LastUpdates /\ ended \in 0..LastVersion
        /\ tagged \subseteq 1..source
    BY BoundsAssumption DEF Init
  <2>4. torn \in BOOLEAN
    BY DEF Init
  <2>5. QED
    BY <2>1, <2>2, <2>3, <2>4 DEF TypeOK
<1>3. ScriptTyped /\ AssetsInPlace /\ Agree /\ Underway /\ Ended
  BY DEF Init, ScriptTyped, AssetsInPlace, Agree, Underway, Ended, Scaffold
<1>4. RegistryHonest(files.versions.registry) /\ RegistryHonest(head.versions.registry)
  BY DEF Init, Scaffold, RegistryHonest
<1>5. QED
  BY <1>2, <1>3, <1>4 DEF IInv

-----------------------------------------------------------------------------
(***************************************************************************)
(* Archives are only ever replaced by those of a later workflow run.       *)
(***************************************************************************)
LEMMA UploadReplaces ==
  ASSUME TypeOK, AssetsInPlace, NEW v \in Versions, NEW t \in Target, Upload(v, t)
  PROVE  /\ assets' \in [Versions -> [Target -> Archives \cup {Refused}]]
         /\ AssetsInPlace'
         /\ \A w \in Versions, u \in Target :
              assets[w][u] # Refused => /\ assets'[w][u] # Refused
                                        /\ assets'[w][u][3] >= assets[w][u][3]
<1>1. build[v] \in 1..LastBuild
  BY BoundsAssumption DEF Upload, TypeOK
<1>2. <<v, t, build[v]>> \in Own(v, t) /\ <<v, t, build[v]>> \in Archives
  BY <1>1 DEF Own, Archives
<1>3. assets' = [assets EXCEPT ![v][t] = <<v, t, build[v]>>] /\ build' = build
  BY DEF Upload
<1>4. assets' \in [Versions -> [Target -> Archives \cup {Refused}]]
  BY <1>2, <1>3 DEF TypeOK
<1>5. \A w \in Versions, u \in Target :
        assets'[w][u] = IF w = v /\ u = t THEN <<v, t, build[v]>> ELSE assets[w][u]
  BY <1>3 DEF TypeOK
<1>6. <<v, t, build[v]>> # Refused /\ <<v, t, build[v]>>[3] = build[v]
  BY <1>2, SentinelAssumption
<1>7. AssetsInPlace'
  BY <1>1, <1>2, <1>3, <1>5, <1>6 DEF AssetsInPlace
<1>8. ASSUME NEW w \in Versions, NEW u \in Target, assets[w][u] # Refused
      PROVE  assets'[w][u] # Refused /\ assets'[w][u][3] >= assets[w][u][3]
  <2>1. assets[w][u] \in Own(w, u) /\ assets[w][u][3] <= build[w]
    BY <1>8 DEF AssetsInPlace
  <2>2. assets[w][u][3] \in 1..LastBuild
    BY <2>1 DEF Own
  <2>3. CASE w = v /\ u = t
    BY <1>1, <1>5, <1>6, <2>1, <2>3
  <2>4. CASE ~(w = v /\ u = t)
    BY <1>5, <1>8, <2>2, <2>4, BoundsAssumption
  <2>5. QED
    BY <2>3, <2>4
<1>9. QED
  BY <1>4, <1>7, <1>8

LEMMA OnlyUploads ==
  ASSUME [Next]_vars
  PROVE  \/ UNCHANGED assets
         \/ \E v \in Versions, t \in Target : Upload(v, t)
BY DEF Next, vars, published, BumpAndTag, RunWorkflow, StartUpdate, Write, WriteManifest,
       WriteBaseline, WritePortfile, WriteRecipe, Fetch, Record, Stop, Commit, AddVersion

(***************************************************************************)
(* An archive that stands goes on standing.                                *)
(***************************************************************************)
LEMMA StandsOn ==
  ASSUME TypeOK, AssetsInPlace, [Next]_vars,
         NEW a, NEW v \in Versions, NEW t \in Target, Stands(a, v, t)
  PROVE  Stands(a, v, t)'
<1>1. a \in Own(v, t) /\ assets[v][t] # Refused /\ assets[v][t][3] >= a[3]
  BY DEF Stands
<1>2. CASE UNCHANGED assets
  BY <1>1, <1>2 DEF Stands
<1>3. CASE \E w \in Versions, u \in Target : Upload(w, u)
  <2>1. /\ AssetsInPlace'
        /\ assets'[v][t] # Refused /\ assets'[v][t][3] >= assets[v][t][3]
    BY <1>1, <1>3, UploadReplaces
  <2>2. a[3] \in 1..LastBuild /\ assets[v][t][3] \in 1..LastBuild
        /\ assets'[v][t][3] \in 1..LastBuild
    BY <1>1, <2>1 DEF AssetsInPlace, Own
  <2>3. assets'[v][t][3] >= a[3]
    BY <1>1, <2>1, <2>2, BoundsAssumption
  <2>4. QED
    BY <1>1, <2>1, <2>3 DEF Stands
<1>4. QED
  BY <1>2, <1>3, OnlyUploads

LEMMA RegistryOn ==
  ASSUME TypeOK, AssetsInPlace, [Next]_vars,
         NEW registry, RegistryHonest(registry),
         registry \in [Versions -> Entries \cup {Refused}]
  PROVE  RegistryHonest(registry)'
<1> SUFFICES ASSUME NEW v \in Versions, registry[v] # Refused
             PROVE  Honest(registry[v], v)'
  BY DEF RegistryHonest
<1>1. Honest(registry[v], v)
  BY DEF RegistryHonest
<1>2. ASSUME NEW t \in Target, registry[v].after = "complete"
      PROVE  Stands(registry[v].port.sha[t], v, t)'
  BY <1>1, <1>2, StandsOn DEF Honest, AllStand
<1>3. QED
  BY <1>1, <1>2 DEF Honest, AllStand

-----------------------------------------------------------------------------
(* What each step writes to the maintainer's tree. *)

LEMMA Parts ==
  ASSUME NEW tree \in Trees
  PROVE  /\ tree = [port |-> tree.port, conan |-> tree.conan, versions |-> tree.versions]
         /\ tree.port = [json |-> tree.port.json, version |-> tree.port.version,
                         sha |-> tree.port.sha]
         /\ tree.conan = [version |-> tree.conan.version, sha |-> tree.conan.sha]
         /\ tree.versions = [baseline |-> tree.versions.baseline,
                             registry |-> tree.versions.registry]
         /\ {tree.port.json, tree.port.version, tree.conan.version, tree.versions.baseline}
              \subseteq 0..LastVersion
         /\ tree.port.sha \in [Target -> Archives \cup {Zero}]
         /\ tree.conan.sha \in [Target -> Archives \cup {Zero}]
         /\ tree.versions.registry \in [Versions -> Entries \cup {Refused}]
BY DEF Trees, Ports, Recipes, Databases

LEMMA ScriptFacts ==
  ASSUME IInv, script # Refused
  PROVE  /\ script \in Scripts /\ Current \in Target
         /\ script.version \in Versions /\ script.version \in 0..LastVersion
BY TargetsFacts, BoundsAssumption DEF IInv, ScriptTyped, Scripts, Current, Versions

LEMMA ManifestWritten ==
  ASSUME IInv, WriteManifest
  PROVE  /\ files' \in Trees
         /\ files'.conan = files.conan /\ files'.versions = files.versions
         /\ files'.port.json = script.version
         /\ files'.port.version = files.port.version /\ files'.port.sha = files.port.sha
<1>1. files \in Trees /\ script.version \in 0..LastVersion
  BY ScriptFacts DEF WriteManifest, Write, IInv, TypeOK
<1>2. files' = [files EXCEPT !.port.json = script.version]
  BY DEF WriteManifest
<1>3. QED
  BY <1>1, <1>2, Parts DEF Trees, Ports

LEMMA BaselineWritten ==
  ASSUME IInv, WriteBaseline
  PROVE  /\ files' \in Trees
         /\ files'.port = files.port /\ files'.conan = files.conan
         /\ files'.versions.baseline = script.version
         /\ files'.versions.registry = files.versions.registry
<1>1. files \in Trees /\ script.version \in 0..LastVersion
  BY ScriptFacts DEF WriteBaseline, Write, IInv, TypeOK
<1>2. files' = [files EXCEPT !.versions.baseline = script.version]
  BY DEF WriteBaseline
<1>3. QED
  BY <1>1, <1>2, Parts DEF Trees, Databases

LEMMA PortfileWritten ==
  ASSUME IInv, WritePortfile
  PROVE  /\ files' \in Trees
         /\ files'.conan = files.conan /\ files'.versions = files.versions
         /\ files'.port.version = script.version
         /\ files'.port.json = files.port.json /\ files'.port.sha = files.port.sha
<1>1. files \in Trees /\ script.version \in 0..LastVersion
  BY ScriptFacts DEF WritePortfile, Write, IInv, TypeOK
<1>2. files' = [files EXCEPT !.port.version = script.version]
  BY DEF WritePortfile, PortfileVersion
<1>3. QED
  BY <1>1, <1>2, Parts DEF Trees, Ports

LEMMA RecipeWritten ==
  ASSUME IInv, WriteRecipe
  PROVE  /\ files' \in Trees
         /\ files'.port = files.port /\ files'.versions = files.versions
         /\ files'.conan.version = script.version /\ files'.conan.sha = files.conan.sha
<1>1. files \in Trees /\ script.version \in 0..LastVersion
  BY ScriptFacts DEF WriteRecipe, Write, IInv, TypeOK
<1>2. files' = [files EXCEPT !.conan.version = script.version]
  BY DEF WriteRecipe
<1>3. QED
  BY <1>1, <1>2, Parts DEF Trees, Recipes

\* The archive fetched is one of the version and target, and stands.
LEMMA Fetched ==
  ASSUME IInv, Fetch
  PROVE  LET archive == assets[script.version][Current]
         IN /\ archive \in Archives /\ Stands(archive, script.version, Current)
            /\ script' = [script EXCEPT !.got = archive]
            /\ files' \in Trees
            /\ files'.conan = files.conan /\ files'.versions = files.versions
            /\ files'.port.json = files.port.json /\ files'.port.version = files.port.version
            /\ files'.port.sha = [files.port.sha EXCEPT ![Current] = archive]
<1> DEFINE archive == assets[script.version][Current]
<1>1. files \in Trees /\ script.version \in Versions /\ Current \in Target
  BY ScriptFacts DEF Fetch, IInv, TypeOK
<1>2. /\ archive # Refused /\ script' = [script EXCEPT !.got = archive]
      /\ files' = [files EXCEPT !.port.sha[Current] = archive]
  BY DEF Fetch, PortWith
<1>3. archive \in Archives
  BY <1>1, <1>2 DEF IInv, TypeOK
<1>4. Stands(archive, script.version, Current)
  <2>1. archive \in Own(script.version, Current)
    BY <1>1, <1>2 DEF IInv, AssetsInPlace
  <2>2. archive[3] \in 1..LastBuild
    BY <2>1 DEF Own
  <2>3. QED
    BY <1>2, <2>1, <2>2, BoundsAssumption DEF Stands
<1> HIDE DEF archive
<1>5. [files.port EXCEPT !.sha[Current] = archive] \in Ports
  BY <1>1, <1>3 DEF Trees, Ports
<1>6. files' \in Trees
  BY <1>1, <1>2, <1>5 DEF Trees
<1>7. /\ files'.conan = files.conan /\ files'.versions = files.versions
      /\ files'.port = [files.port EXCEPT !.sha[Current] = archive]
  BY <1>1, <1>2 DEF Trees
<1>8. /\ files'.port.json = files.port.json /\ files'.port.version = files.port.version
      /\ files'.port.sha = [files.port.sha EXCEPT ![Current] = archive]
  BY <1>1, <1>7 DEF Trees, Ports
<1>9. QED
  BY <1>2, <1>3, <1>4, <1>6, <1>7, <1>8 DEF archive

LEMMA Recorded ==
  ASSUME IInv, Record
  PROVE  /\ files' \in Trees
         /\ files'.port = files.port /\ files'.versions = files.versions
         /\ files'.conan.version = files.conan.version
         /\ files'.conan.sha = [files.conan.sha EXCEPT ![Current] = script.got]
<1>1. files \in Trees /\ script.got \in Archives /\ Current \in Target
  BY ScriptFacts DEF Record, IInv, TypeOK, Scripts
<1>2. files' = [files EXCEPT !.conan.sha[Current] = script.got]
  BY DEF Record, RecipeWith
<1>3. [files.conan EXCEPT !.sha[Current] = script.got] \in Recipes
  BY <1>1 DEF Trees, Recipes
<1>4. files' \in Trees
  BY <1>1, <1>2, <1>3 DEF Trees
<1>5. /\ files'.port = files.port /\ files'.versions = files.versions
      /\ files'.conan = [files.conan EXCEPT !.sha[Current] = script.got]
  BY <1>1, <1>2 DEF Trees
<1>6. QED
  BY <1>1, <1>4, <1>5 DEF Trees, Recipes

\* What vcpkg-add-version.sh enters for the tree as it is.
LEMMA VersionAdded ==
  ASSUME IInv, AddVersion
  PROVE  LET v == files.port.json
             entry == files'.versions.registry[v]
         IN /\ v \in Versions /\ files' \in Trees
            /\ files'.port = files.port /\ files'.conan = files.conan
            /\ files'.versions.baseline = v
            /\ \A w \in Versions \ {v} :
                 files'.versions.registry[w] = files.versions.registry[w]
            /\ entry.port = files.port
            /\ entry.after # "torn" => ~torn
            /\ entry.after = "complete" => ended # 0
<1> DEFINE v == files.port.json
           entry == [port  |-> head.port,
                     after |-> IF torn THEN "torn" ELSE IF ended = 0 THEN "settled" ELSE "complete"]
           after == IF torn THEN "torn" ELSE IF ended = 0 THEN "settled" ELSE "complete"
<1>1. files \in Trees /\ head \in Trees /\ head.port = files.port
  BY DEF AddVersion, Clean, IInv, TypeOK
<1>2. v \in Versions
  <2>1. v # 0
    BY DEF AddVersion
  <2>2. v \in 0..LastVersion
    BY <1>1, Parts
  <2>3. QED
    BY <2>1, <2>2, BoundsAssumption DEF Versions
<1>3. files' = [files EXCEPT !.versions.baseline = v, !.versions.registry[v] = entry]
  BY DEF AddVersion
<1>4. /\ after \in {"torn", "settled", "complete"}
      /\ after # "torn" => ~torn
      /\ after = "complete" => ended # 0
  OBVIOUS
<1>5. entry = [port |-> head.port, after |-> after]
  OBVIOUS
<1> HIDE DEF v, after, entry
<1>6. entry \in Entries /\ entry.port = files.port /\ entry.after = after
  BY <1>1, <1>4, <1>5 DEF Entries, Trees
<1>7. files' \in Trees /\ files'.port = files.port /\ files'.conan = files.conan
  <2>1. v \in 0..LastVersion
    BY <1>2, BoundsAssumption DEF Versions
  <2>2. [files.versions EXCEPT !.baseline = v, !.registry[v] = entry] \in Databases
    BY <1>1, <1>2, <1>6, <2>1 DEF Trees, Databases
  <2>3. QED
    BY <1>1, <1>3, <2>2 DEF Trees
<1>8. files'.versions = [files.versions EXCEPT !.baseline = v, !.registry[v] = entry]
  BY <1>1, <1>3 DEF Trees
<1>9. /\ files'.versions.baseline = v
      /\ files'.versions.registry[v] = entry
      /\ \A w \in Versions \ {v} : files'.versions.registry[w] = files.versions.registry[w]
  BY <1>1, <1>2, <1>8 DEF Trees, Databases
<1>10. QED
  BY <1>2, <1>4, <1>6, <1>7, <1>9 DEF v

-----------------------------------------------------------------------------
(* The invariant is kept, conjunct by conjunct. *)

\* Each part of the committed tree is the one it was, or the one in the maintainer's tree.
LEMMA Committed ==
  ASSUME IInv, NEW parts \in SUBSET {"port", "conan", "versions"}, Commit(parts)
  PROVE  /\ head' \in Trees
         /\ head'.versions \in {head.versions, files.versions}
<1>1. head \in Trees /\ files \in Trees
  BY DEF IInv, TypeOK
<1>2. DOMAIN head = {"port", "conan", "versions"}
  BY <1>1 DEF Trees
<1>3. head' = [part \in {"port", "conan", "versions"} |->
                IF part \in parts THEN files[part] ELSE head[part]]
  BY <1>2 DEF Commit
<1>4. head' = [port     |-> IF "port" \in parts THEN files.port ELSE head.port,
               conan    |-> IF "conan" \in parts THEN files.conan ELSE head.conan,
               versions |-> IF "versions" \in parts THEN files.versions ELSE head.versions]
  BY <1>3
<1>5. QED
  BY <1>1, <1>4 DEF Trees

\* Steps that touch neither tree nor the script: a tag, the workflow, or nothing.
Elsewhere == UNCHANGED <<files, head, script, updates, torn, ended>>

LEMMA Steps ==
  ASSUME [Next]_vars
  PROVE  \/ Elsewhere
         \/ \E v \in Versions : StartUpdate(v)
         \/ WriteManifest \/ WriteBaseline \/ WritePortfile \/ WriteRecipe
         \/ Fetch \/ Record \/ Stop
         \/ \E parts \in SUBSET {"port", "conan", "versions"} : Commit(parts)
         \/ AddVersion
BY DEF Next, vars, Elsewhere, BumpAndTag, RunWorkflow, Upload

LEMMA PublishedTyped ==
  ASSUME IInv, [Next]_vars
  PROVE  /\ source' \in 0..LastVersion /\ tagged' \subseteq 1..source'
         /\ build' \in [Versions -> 0..LastBuild]
         /\ assets' \in [Versions -> [Target -> Archives \cup {Refused}]]
         /\ AssetsInPlace'
<1>1. CASE UNCHANGED <<source, tagged, build, assets>>
  BY <1>1 DEF IInv, TypeOK, AssetsInPlace
<1>2. CASE BumpAndTag
  BY <1>2, BoundsAssumption DEF BumpAndTag, IInv, TypeOK, AssetsInPlace
<1>3. ASSUME NEW v \in Versions, RunWorkflow(v)
      PROVE  build' \in [Versions -> 0..LastBuild] /\ UNCHANGED <<source, tagged, assets>>
             /\ AssetsInPlace'
  <2>1. build' = [build EXCEPT ![v] = @ + 1] /\ build[v] < LastBuild /\ build[v] \in 0..LastBuild
        /\ UNCHANGED <<source, tagged, assets>>
    BY <1>3 DEF RunWorkflow, IInv, TypeOK
  <2>2. build' \in [Versions -> 0..LastBuild]
    BY <2>1, BoundsAssumption DEF IInv, TypeOK
  <2>3. \A w \in Versions : build'[w] >= build[w] /\ build[w] \in Nat /\ build'[w] \in Nat
    BY <2>1, <2>2, BoundsAssumption DEF IInv, TypeOK
  <2>4. \A w \in Versions, t \in Target :
          assets[w][t] # Refused => assets[w][t] \in Own(w, t) /\ assets[w][t][3] \in Nat
    BY BoundsAssumption DEF IInv, AssetsInPlace, Own
  <2>5. QED
    BY <2>1, <2>2, <2>3, <2>4 DEF IInv, AssetsInPlace
<1>4. ASSUME NEW v \in Versions, NEW t \in Target, Upload(v, t)
      PROVE  /\ UNCHANGED <<source, tagged, build>> /\ AssetsInPlace'
             /\ assets' \in [Versions -> [Target -> Archives \cup {Refused}]]
  BY <1>4, UploadReplaces DEF Upload, IInv
<1>5. \/ UNCHANGED <<source, tagged, build, assets>>
      \/ BumpAndTag
      \/ \E v \in Versions : RunWorkflow(v) \/ \E t \in Target : Upload(v, t)
  BY DEF Next, vars, published, StartUpdate, Write, WriteManifest, WriteBaseline, WritePortfile,
         WriteRecipe, Fetch, Record, Stop, Commit, AddVersion
<1>6. CASE \E v \in Versions : RunWorkflow(v)
  BY <1>3, <1>6 DEF IInv, TypeOK
<1>7. CASE \E v \in Versions, t \in Target : Upload(v, t)
  BY <1>4, <1>7 DEF IInv, TypeOK
<1>8. QED
  BY <1>1, <1>2, <1>5, <1>6, <1>7

LEMMA TreesTyped ==
  ASSUME IInv, [Next]_vars
  PROVE  files' \in Trees /\ head' \in Trees
<1>1. files \in Trees /\ head \in Trees
  BY DEF IInv, TypeOK
<1>2. CASE Elsewhere
  BY <1>1, <1>2 DEF Elsewhere
<1>3. CASE (\E v \in Versions : StartUpdate(v)) \/ Stop
  BY <1>1, <1>3 DEF StartUpdate, Stop
<1>4. CASE WriteManifest \/ WriteBaseline \/ WritePortfile \/ WriteRecipe
  BY <1>1, <1>4, ManifestWritten, BaselineWritten, PortfileWritten, RecipeWritten
     DEF WriteManifest, WriteBaseline, WritePortfile, WriteRecipe, Write
<1>5. CASE Fetch \/ Record \/ AddVersion
  BY <1>1, <1>5, Fetched, Recorded, VersionAdded DEF Fetch, Record, AddVersion
<1>6. CASE \E parts \in SUBSET {"port", "conan", "versions"} : Commit(parts)
  BY <1>1, <1>6, Committed DEF Commit
<1>7. QED
  BY <1>2, <1>3, <1>4, <1>5, <1>6, Steps

LEMMA ScriptTypedOn ==
  ASSUME IInv, [Next]_vars
  PROVE  ScriptTyped'
<1>1. CASE UNCHANGED script \/ script' = Refused
  BY <1>1 DEF IInv, ScriptTyped
<1>2. ASSUME NEW v \in Versions, StartUpdate(v) PROVE ScriptTyped'
  BY <1>2, TargetsFacts DEF StartUpdate, ScriptTyped, Scripts
<1>3. ASSUME NEW n \in 0..3, Write(n) PROVE ScriptTyped'
  BY <1>3, ScriptFacts DEF Write, ScriptTyped, Scripts
<1>4. CASE Fetch
  BY <1>4, Fetched, ScriptFacts DEF Fetch, ScriptTyped, Scripts
<1>5. CASE Record /\ script.at # Len(Targets)
  <2>1. script' = [script EXCEPT !.at = @ + 1, !.got = Refused] /\ script \in Scripts
    BY <1>5, ScriptFacts DEF Record
  <2>2. script.at + 1 \in 1..Len(Targets)
    BY <1>5, <2>1, TargetsFacts DEF Scripts
  <2>3. QED
    BY <2>1, <2>2 DEF ScriptTyped, Scripts
<1>6. CASE WriteManifest \/ WriteBaseline \/ WritePortfile \/ WriteRecipe
  BY <1>3, <1>6 DEF WriteManifest, WriteBaseline, WritePortfile, WriteRecipe
<1>7. CASE Record /\ script.at = Len(Targets)
  BY <1>1, <1>7 DEF Record
<1>8. CASE Stop \/ AddVersion \/ \E parts \in SUBSET {"port", "conan", "versions"} : Commit(parts)
  BY <1>1, <1>8 DEF Stop, AddVersion, Commit
<1>9. QED
  BY <1>1, <1>2, <1>4, <1>5, <1>6, <1>7, <1>8, Steps DEF Elsewhere

LEMMA TypesOn ==
  ASSUME IInv, [Next]_vars
  PROVE  TypeOK'
<1>1. /\ updates \in 0..LastUpdates /\ torn \in BOOLEAN /\ ended \in 0..LastVersion
  BY DEF IInv, TypeOK
<1>2. updates' \in 0..LastUpdates
  <2>1. CASE UNCHANGED updates
    BY <1>1, <2>1
  <2>2. CASE \E v \in Versions : StartUpdate(v)
    BY <1>1, <2>2, BoundsAssumption DEF StartUpdate
  <2>3. QED
    BY <2>1, <2>2, Steps
    DEF Elsewhere, Write, WriteManifest, WriteBaseline, WritePortfile, WriteRecipe, Fetch, Record,
        Stop, Commit, AddVersion
<1>3. torn' \in BOOLEAN
  BY <1>1, Steps
  DEF Elsewhere, StartUpdate, WriteManifest, WriteBaseline, WritePortfile, WriteRecipe,
      Fetch, Record, Stop, Commit, AddVersion
<1>4. ended' \in 0..LastVersion
  <2>1. CASE UNCHANGED ended \/ ended' = 0
    BY <1>1, <2>1, BoundsAssumption
  <2>2. CASE Record /\ ended' = script.version
    BY <2>2, ScriptFacts DEF Record
  <2>3. QED
    BY <2>1, <2>2, Steps
    DEF Elsewhere, StartUpdate, Write, WriteManifest, WriteBaseline, WritePortfile, WriteRecipe,
        Fetch, Record, Stop, Commit, AddVersion
<1>5. QED
  BY <1>2, <1>3, <1>4, PublishedTyped, TreesTyped DEF TypeOK

LEMMA AgreeOn ==
  ASSUME IInv, [Next]_vars
  PROVE  Agree'
<1>1. CASE files'.port.json = files.port.json /\ files'.port.version = files.port.version
           /\ UNCHANGED torn
  BY <1>1 DEF IInv, Agree
<1>2. CASE WriteManifest
  <2>1. torn' = (torn \/ files.port.json # script.version)
    BY <1>2 DEF WriteManifest
  <2>2. CASE ~torn /\ files.port.json = script.version
    BY <1>2, <2>2, ManifestWritten DEF IInv, Agree
  <2>3. QED
    BY <2>1, <2>2 DEF Agree
<1>3. CASE WritePortfile
  <2>1. files.port.json = script.version
    BY <1>3, ScriptFacts DEF WritePortfile, Write, IInv, Underway, Strings
  <2>2. QED
    BY <1>3, <2>1, PortfileWritten DEF Agree
<1>4. CASE Elsewhere \/ Stop \/ \E v \in Versions : StartUpdate(v)
  BY <1>1, <1>4 DEF Elsewhere, Stop, StartUpdate
<1>5. CASE \E parts \in SUBSET {"port", "conan", "versions"} : Commit(parts)
  BY <1>1, <1>5 DEF Commit
<1>6. CASE WriteBaseline \/ WriteRecipe
  BY <1>1, <1>6, BaselineWritten, RecipeWritten DEF WriteBaseline, WriteRecipe
<1>7. CASE Fetch \/ Record \/ AddVersion
  BY <1>1, <1>7, Fetched, Recorded, VersionAdded DEF Fetch, Record, AddVersion
<1>8. QED
  BY <1>2, <1>3, <1>4, <1>5, <1>6, <1>7, Steps

\* What is recorded and not written over stays recorded.
LEMMA EarlierOn ==
  ASSUME IInv, [Next]_vars, NEW v \in Versions, NEW n \in 0..Len(Targets), Earlier(v, n),
         files'.port.sha = files.port.sha, files'.conan.sha = files.conan.sha
  PROVE  Earlier(v, n)'
<1> SUFFICES ASSUME NEW i \in 1..n
             PROVE  /\ Stands(files.port.sha[Targets[i]], v, Targets[i])'
                    /\ Stands(files.conan.sha[Targets[i]], v, Targets[i])'
  BY DEF Earlier
<1>1. Targets[i] \in Target
  BY TargetsFacts
<1>2. /\ Stands(files.port.sha[Targets[i]], v, Targets[i])
      /\ Stands(files.conan.sha[Targets[i]], v, Targets[i])
  BY DEF Earlier
<1>3. \A a : Stands(a, v, Targets[i]) => Stands(a, v, Targets[i])'
  BY <1>1, StandsOn DEF IInv
<1>4. QED
  BY <1>2, <1>3 DEF Stands

\* The four writes of a version string, one after the other.
LEMMA WritesUnderway ==
  ASSUME IInv, [Next]_vars, NEW n \in 0..3, Write(n),
         files'.port.sha = files.port.sha, files'.conan.sha = files.conan.sha,
         Strings(script.version, n + 1)', n >= 2 => ~torn'
  PROVE  Underway'
<1>1. script \in Scripts /\ script.version \in Versions
  BY ScriptFacts DEF Write
<1>2. /\ script.wrote = n /\ script' = [script EXCEPT !.wrote = n + 1] /\ ended' = ended
  BY DEF Write
<1>3. /\ script'.version = script.version /\ script'.wrote = n + 1
      /\ script'.at = script.at /\ script'.got = script.got
  BY <1>1, <1>2 DEF Scripts
<1>4. ended = 0 /\ Earlier(script.version, script.at - 1) /\ script.got = Refused
  BY <1>2 DEF Write, IInv, Underway
<1>5. PICK v \in Versions, k \in 0..Len(Targets) : v = script.version /\ k = script.at - 1
  BY <1>1, TargetsFacts DEF Scripts
<1>6. Earlier(v, k)'
  BY <1>4, <1>5, EarlierOn
<1>7. Strings(script.version, script.wrote)' /\ Earlier(script.version, script.at - 1)'
  BY <1>3, <1>5, <1>6 DEF Strings, Earlier
<1>8. QED
  BY <1>2, <1>3, <1>4, <1>7 DEF Underway

LEMMA StringsUnderway ==
  ASSUME IInv, [Next]_vars, WriteManifest \/ WriteBaseline \/ WritePortfile \/ WriteRecipe
  PROVE  Underway'
<1>1. ASSUME NEW n \in 0..3, Write(n)
      PROVE  /\ script'.version = script.version
             /\ Strings(script.version, n)
             /\ n >= 3 => ~torn
  BY <1>1, ScriptFacts DEF Write, IInv, Underway, Scripts
<1>2. CASE WriteManifest
  <2>1. Strings(script.version, 1)'
    BY <1>1, <1>2, ManifestWritten DEF WriteManifest, Strings
  <2>2. QED
    BY <1>2, <2>1, ManifestWritten, WritesUnderway DEF WriteManifest
<1>3. CASE WriteBaseline
  <2>1. script'.version = script.version /\ Strings(script.version, 1)
    BY <1>1, <1>3 DEF WriteBaseline
  <2>2. Strings(script.version, 2)'
    BY <2>1, BaselineWritten, <1>3 DEF Strings
  <2>3. QED
    BY <1>3, <2>2, BaselineWritten, WritesUnderway DEF WriteBaseline
<1>4. CASE WritePortfile
  <2>1. script'.version = script.version /\ Strings(script.version, 2)
    BY <1>1, <1>4 DEF WritePortfile
  <2>2. Strings(script.version, 3)'
    BY <2>1, PortfileWritten, <1>4 DEF Strings
  <2>3. ~torn'
    BY <1>4 DEF WritePortfile
  <2>4. Write(2)
    BY <1>4 DEF WritePortfile
  <2>5. files'.port.sha = files.port.sha /\ files'.conan.sha = files.conan.sha
    BY <1>4, PortfileWritten
  <2>6. QED
    BY <2>2, <2>3, <2>4, <2>5, WritesUnderway
<1>5. CASE WriteRecipe
  <2>1. script'.version = script.version /\ Strings(script.version, 3)
    BY <1>1, <1>5 DEF WriteRecipe
  <2>2. Strings(script.version, 4)'
    BY <2>1, RecipeWritten, <1>5 DEF Strings
  <2>3. ~torn'
    BY <1>1, <1>5 DEF WriteRecipe
  <2>4. QED
    BY <1>5, <2>2, <2>3, RecipeWritten, WritesUnderway DEF WriteRecipe
<1>6. QED
  BY <1>2, <1>3, <1>4, <1>5

LEMMA FetchUnderway ==
  ASSUME IInv, [Next]_vars, Fetch
  PROVE  Underway'
<1>1. script \in Scripts /\ Current \in Target
  BY ScriptFacts DEF Fetch
<1>2. PICK v \in Versions, k \in 0..Len(Targets) : v = script.version /\ k = script.at - 1
  BY <1>1, TargetsFacts DEF Scripts
<1>3. PICK archive : archive = assets[v][Current]
  OBVIOUS
<1>4. /\ Stands(archive, v, Current) /\ script' = [script EXCEPT !.got = archive]
      /\ files'.conan = files.conan /\ files'.versions = files.versions
      /\ files'.port.json = files.port.json /\ files'.port.version = files.port.version
      /\ files'.port.sha = [files.port.sha EXCEPT ![Current] = archive]
  BY <1>2, <1>3, Fetched
<1>5. /\ script'.version = v /\ script'.wrote = 4 /\ script'.at = script.at
      /\ script'.got = archive /\ Current' = Current
  BY <1>1, <1>2, <1>4 DEF Fetch, Scripts, Current
<1>6. /\ ended' = 0 /\ ~torn' /\ Strings(v, 4)'
  BY <1>1, <1>2, <1>4 DEF Fetch, IInv, Underway, Strings
<1>7. files.port.sha \in [Target -> Archives \cup {Zero}]
  BY Parts DEF IInv, TypeOK
<1>8. \A a : \A t \in Target : Stands(a, v, t) => Stands(a, v, t)'
  BY StandsOn DEF IInv
<1>9. ASSUME NEW i \in 1..k
      PROVE  /\ Stands(files.port.sha[Targets[i]], v, Targets[i])'
             /\ Stands(files.conan.sha[Targets[i]], v, Targets[i])'
  <2>1. Targets[i] \in Target
    BY <1>9, TargetsFacts
  <2>2. /\ Stands(files.port.sha[Targets[i]], v, Targets[i])
        /\ Stands(files.conan.sha[Targets[i]], v, Targets[i])
    BY <1>2, <1>9 DEF Fetch, IInv, Underway, Earlier
  <2>3. files'.port.sha[Targets[i]] = IF Targets[i] = Current THEN archive
                                                              ELSE files.port.sha[Targets[i]]
    BY <1>4, <1>7, <2>1
  <2>4. Stands(files'.port.sha[Targets[i]], v, Targets[i])
    BY <1>4, <2>2, <2>3
  <2>5. \A a : Stands(a, v, Targets[i]) => Stands(a, v, Targets[i])'
    BY <1>8, <2>1
  <2>6. QED
    BY <1>4, <2>2, <2>4, <2>5 DEF Stands
<1>10. \A t \in Target : t = Current => Stands(archive, v, t)'
  BY <1>4, <1>8
<1>11. Earlier(v, k)'
  BY <1>9 DEF Earlier
<1>12. Strings(script.version, script.wrote)' /\ Earlier(script.version, script.at - 1)'
  BY <1>2, <1>5, <1>6, <1>11 DEF Strings, Earlier
<1>13. Stands(script.got, script.version, Current)'
  BY <1>1, <1>5, <1>10 DEF Stands
<1>14. files'.port.sha[Current] = archive
  BY <1>1, <1>4, <1>7
<1>15. QED
  BY <1>5, <1>6, <1>12, <1>13, <1>14 DEF Underway

\* Record: the current target joins the earlier ones.
LEMMA RecordEarlier ==
  ASSUME IInv, [Next]_vars, Record, NEW v \in Versions, v = script.version, NEW k, k = script.at
  PROVE  Earlier(v, k)'
<1>1. script \in Scripts /\ Current \in Target
  BY ScriptFacts DEF Record
<1>2. k \in 1..Len(Targets) /\ k = script.at
  BY <1>1 DEF Scripts
<1>3. PICK archive : archive = script.got
  OBVIOUS
<1>4. /\ files'.port = files.port
      /\ files'.conan.sha = [files.conan.sha EXCEPT ![Current] = archive]
  BY <1>3, Recorded
<1>5. /\ archive = files.port.sha[Current] /\ Stands(archive, v, Current)
      /\ Earlier(v, k - 1)
  BY <1>2, <1>3 DEF Record, IInv, Underway
<1>6. files.conan.sha \in [Target -> Archives \cup {Zero}]
  BY Parts DEF IInv, TypeOK
<1>7. \A a : \A t \in Target : Stands(a, v, t) => Stands(a, v, t)'
  BY StandsOn DEF IInv
<1>8. ASSUME NEW i \in 1..k
      PROVE  /\ Stands(files.port.sha[Targets[i]], v, Targets[i])'
             /\ Stands(files.conan.sha[Targets[i]], v, Targets[i])'
  <2>1. Targets[i] \in Target
    BY <1>2, <1>8, TargetsFacts
  <2>2. files'.conan.sha[Targets[i]] = IF Targets[i] = Current THEN archive
                                                               ELSE files.conan.sha[Targets[i]]
    BY <1>4, <1>6, <2>1
  <2>3. /\ Stands(files'.port.sha[Targets[i]], v, Targets[i])
        /\ Stands(files'.conan.sha[Targets[i]], v, Targets[i])
    <3>1. CASE i = k
      BY <1>2, <1>4, <1>5, <2>2, <3>1 DEF Current
    <3>2. CASE i # k
      <4>1. i \in 1..(k - 1)
        BY <1>2, <3>2, TargetsFacts
      <4>2. QED
        BY <1>4, <1>5, <2>2, <4>1 DEF Earlier
    <3>3. QED
      BY <3>1, <3>2
  <2>4. \A a : Stands(a, v, Targets[i]) => Stands(a, v, Targets[i])'
    BY <1>7, <2>1
  <2>5. QED
    BY <2>3, <2>4 DEF Stands
<1>9. QED
  BY <1>8 DEF Earlier

LEMMA UnderwayOn ==
  ASSUME IInv, [Next]_vars
  PROVE  Underway'
<1>1. CASE UNCHANGED <<files, script, torn, ended>>
  <2>1. SUFFICES ASSUME script # Refused PROVE Underway'
    BY <1>1 DEF Underway
  <2>2. PICK v \in Versions, k \in 0..Len(Targets), t \in Target :
          v = script.version /\ k = script.at - 1 /\ t = Current
    BY <2>1, ScriptFacts, TargetsFacts DEF Scripts
  <2>3. /\ ended = 0 /\ Strings(v, script.wrote)
        /\ script.wrote >= 3 => ~torn
        /\ Earlier(v, k)
        /\ script.got # Refused => /\ script.wrote = 4
                                   /\ script.got = files.port.sha[t]
                                   /\ Stands(script.got, v, t)
    BY <2>1, <2>2 DEF IInv, Underway
  <2>4. Earlier(v, k)'
    BY <1>1, <2>3, EarlierOn
  <2>5. \A a : Stands(a, v, t) => Stands(a, v, t)'
    BY StandsOn DEF IInv
  <2>6. Current' = t
    BY <1>1, <2>2 DEF Current
  <2>7. script.got # Refused => Stands(script.got, script.version, Current)'
    BY <1>1, <2>2, <2>3, <2>5, <2>6 DEF Stands
  <2>8. Strings(script.version, script.wrote)' /\ Earlier(script.version, script.at - 1)'
    BY <1>1, <2>2, <2>3, <2>4 DEF Strings, Earlier
  <2>9. QED
    BY <1>1, <2>2, <2>3, <2>6, <2>7, <2>8 DEF Underway
<1>2. CASE script' = Refused
  BY <1>2 DEF Underway
<1>3. ASSUME NEW v \in Versions, StartUpdate(v) PROVE Underway'
  <2>1. /\ script'.wrote = 0 /\ script'.at = 1 /\ script'.got = Refused /\ ended' = 0
    BY <1>3 DEF StartUpdate
  <2>2. Strings(script.version, script.wrote)' /\ Earlier(script.version, script.at - 1)'
    BY <2>1 DEF Strings, Earlier
  <2>3. QED
    BY <2>1, <2>2 DEF Underway
<1>4. CASE Record /\ script.at # Len(Targets)
  <2>1. script \in Scripts /\ script' = [script EXCEPT !.at = @ + 1, !.got = Refused]
    BY <1>4, ScriptFacts DEF Record
  <2>2. PICK v \in Versions, k \in 1..Len(Targets) : v = script.version /\ k = script.at
    BY <2>1 DEF Scripts
  <2>3. /\ script'.version = v /\ script'.at - 1 = k /\ script'.wrote = script.wrote
        /\ script'.got = Refused
    BY <2>1, <2>2 DEF Scripts
  <2>4. ended = 0 /\ script.wrote = 4 /\ ~torn /\ Strings(v, 4)
    BY <1>4, <2>2 DEF Record, IInv, Underway
  <2>5. Earlier(v, k)'
    BY <1>4, <2>2, RecordEarlier
  <2>6. Strings(script.version, script.wrote)' /\ Earlier(script.version, script.at - 1)'
    BY <1>4, <2>3, <2>4, <2>5, Recorded DEF Strings, Earlier
  <2>7. UNCHANGED <<torn, ended>>
    BY <1>4 DEF Record
  <2>8. QED
    BY <2>3, <2>4, <2>6, <2>7 DEF Underway
<1>5. CASE Record /\ script.at = Len(Targets)
  BY <1>2, <1>5 DEF Record
<1>6. CASE AddVersion \/ Stop
  BY <1>2, <1>6 DEF AddVersion, Stop
<1>7. CASE Elsewhere \/ \E parts \in SUBSET {"port", "conan", "versions"} : Commit(parts)
  BY <1>1, <1>7 DEF Elsewhere, Commit
<1>8. QED
  BY <1>3, <1>4, <1>5, <1>6, <1>7, StringsUnderway, FetchUnderway, Steps

LEMMA AllStandOn ==
  ASSUME IInv, [Next]_vars, NEW p, NEW v \in Versions, AllStand(p, v)
  PROVE  AllStand(p, v)'
BY StandsOn DEF IInv, AllStand

LEMMA EndedOn ==
  ASSUME IInv, [Next]_vars
  PROVE  Ended'
<1>1. CASE /\ UNCHANGED <<script, torn, ended>> /\ files'.port = files.port
           /\ files'.conan = files.conan
           /\ ended # 0 => files'.versions.baseline = ended
  <2>1. SUFFICES ASSUME ended # 0 PROVE Ended'
    BY <1>1 DEF Ended
  <2>2. PICK v \in Versions : v = ended
    BY <2>1, BoundsAssumption DEF IInv, TypeOK, Versions
  <2>3. /\ script = Refused /\ ~torn /\ Strings(v, 4)
        /\ AllStand(files.port, v) /\ AllStand(files.conan, v)
    BY <2>1, <2>2 DEF IInv, Ended
  <2>4. PICK p, q : p = files.port /\ q = files.conan
    OBVIOUS
  <2>5. AllStand(p, v)' /\ AllStand(q, v)'
    BY <2>2, <2>3, <2>4, AllStandOn
  <2>6. AllStand(files.port, ended)' /\ AllStand(files.conan, ended)'
    BY <1>1, <2>2, <2>4, <2>5 DEF AllStand, Stands
  <2>7. Strings(ended, 4)'
    BY <1>1, <2>1, <2>2, <2>3 DEF Strings
  <2>8. QED
    BY <1>1, <2>3, <2>6, <2>7 DEF Ended
<1>2. CASE ended' = 0
  BY <1>2 DEF Ended
<1>3. CASE script # Refused /\ UNCHANGED ended
  BY <1>2, <1>3 DEF IInv, Underway
<1>4. CASE Record /\ script.at = Len(Targets)
  <2>1. script' = Refused /\ ended' = script.version /\ torn' = torn
    BY <1>4 DEF Record
  <2>2. script \in Scripts
    BY <1>4, ScriptFacts DEF Record
  <2>3. PICK v \in Versions, k \in 1..Len(Targets) : v = script.version /\ k = script.at
    BY <2>2 DEF Scripts
  <2>4. ~torn /\ Strings(v, 4)
    BY <1>4, <2>3 DEF Record, IInv, Underway
  <2>5. Earlier(v, k)'
    BY <1>4, <2>3, RecordEarlier
  <2>6. \A t \in Target : \E i \in 1..k : t = Targets[i]
    BY <1>4, <2>3, TargetsFacts
  <2>7. AllStand(files.port, ended)' /\ AllStand(files.conan, ended)'
    BY <2>1, <2>3, <2>5, <2>6 DEF Earlier, AllStand
  <2>8. Strings(ended, 4)'
    BY <1>4, <2>1, <2>3, <2>4, Recorded DEF Strings
  <2>9. QED
    BY <2>1, <2>4, <2>7, <2>8 DEF Ended
<1>5. CASE AddVersion
  <2>1. ended # 0 => files.port.json = ended
    BY DEF IInv, Ended, Strings
  <2>2. QED
    BY <1>1, <1>5, <2>1, VersionAdded DEF AddVersion
<1>6. CASE Elsewhere \/ \E parts \in SUBSET {"port", "conan", "versions"} : Commit(parts)
  <2>1. ended # 0 => files.versions.baseline = ended
    BY DEF IInv, Ended, Strings
  <2>2. QED
    BY <1>1, <1>6, <2>1 DEF Elsewhere, Commit
<1>7. CASE \/ WriteManifest \/ WriteBaseline \/ WritePortfile \/ WriteRecipe
           \/ Fetch \/ Stop \/ (Record /\ script.at # Len(Targets))
  BY <1>3, <1>7
  DEF WriteManifest, WriteBaseline, WritePortfile, WriteRecipe, Write, Fetch, Stop, Record
<1>8. CASE \E v \in Versions : StartUpdate(v)
  BY <1>2, <1>8 DEF StartUpdate
<1>9. QED
  BY <1>4, <1>5, <1>6, <1>7, <1>8, Steps

(***************************************************************************)
(* Nothing but vcpkg-add-version.sh changes what is registered, and a      *)
(* commit publishes it as it is.                                           *)
(***************************************************************************)
LEMMA RegistriesOn ==
  ASSUME IInv, [Next]_vars
  PROVE  RegistryHonest(files.versions.registry)' /\ RegistryHonest(head.versions.registry)'
<1>1. PICK mine, theirs : mine = files.versions.registry /\ theirs = head.versions.registry
  OBVIOUS
<1>2. RegistryHonest(mine)' /\ RegistryHonest(theirs)'
  <2>1. /\ mine \in [Versions -> Entries \cup {Refused}] /\ RegistryHonest(mine)
        /\ theirs \in [Versions -> Entries \cup {Refused}] /\ RegistryHonest(theirs)
    BY <1>1, Parts DEF IInv, TypeOK
  <2>2. QED
    BY <2>1, RegistryOn DEF IInv
<1>3. CASE files'.versions.registry = mine /\ head'.versions.registry \in {mine, theirs}
  BY <1>2, <1>3 DEF RegistryHonest, Honest, AllStand, Stands
<1>4. CASE AddVersion
  <2>1. PICK v \in Versions : v = files.port.json
    BY <1>4, VersionAdded
  <2>2. PICK entry : entry = files'.versions.registry[v]
    OBVIOUS
  <2>3. /\ entry.port = files.port
        /\ entry.after # "torn" => ~torn
        /\ entry.after = "complete" => ended # 0
        /\ \A w \in Versions \ {v} : files'.versions.registry[w] = mine[w]
    BY <1>1, <1>4, <2>1, <2>2, VersionAdded
  <2>4. entry.after # "torn" => entry.port.version = v
    BY <2>1, <2>3 DEF IInv, Agree
  <2>5. entry.after = "complete" => AllStand(entry.port, v)
    BY <2>1, <2>3 DEF IInv, Ended, Strings
  <2>6. Honest(entry, v)'
    BY <2>4, <2>5, AllStandOn DEF Honest
  <2>7. ASSUME NEW w \in Versions, files'.versions.registry[w] # Refused
        PROVE  Honest(files.versions.registry[w], w)'
    <3>1. CASE w = v
      BY <2>2, <2>6, <3>1 DEF Honest, AllStand, Stands
    <3>2. CASE w # v
      BY <1>2, <2>3, <2>7, <3>2 DEF RegistryHonest, Honest, AllStand, Stands
    <3>3. QED
      BY <3>1, <3>2
  <2>8. RegistryHonest(files.versions.registry)'
    BY <2>7 DEF RegistryHonest
  <2>9. head' = head
    BY <1>4 DEF AddVersion
  <2>10. RegistryHonest(head.versions.registry)'
    BY <1>1, <1>2, <2>9 DEF RegistryHonest, Honest, AllStand, Stands
  <2>11. QED
    BY <2>8, <2>10
<1>5. CASE \E parts \in SUBSET {"port", "conan", "versions"} : Commit(parts)
  BY <1>1, <1>3, <1>5, Committed DEF Commit
<1>6. CASE Elsewhere \/ Stop \/ \E v \in Versions : StartUpdate(v)
  BY <1>1, <1>3, <1>6 DEF Elsewhere, Stop, StartUpdate
<1>7. CASE WriteManifest \/ WriteBaseline \/ WritePortfile \/ WriteRecipe
  BY <1>1, <1>3, <1>7, ManifestWritten, BaselineWritten, PortfileWritten, RecipeWritten
  DEF WriteManifest, WriteBaseline, WritePortfile, WriteRecipe, Write
<1>8. CASE Fetch \/ Record
  BY <1>1, <1>3, <1>8, Fetched, Recorded DEF Fetch, Record
<1>9. QED
  BY <1>4, <1>5, <1>6, <1>7, <1>8, Steps

-----------------------------------------------------------------------------
LEMMA AlwaysIInv == Spec => []IInv
<1>1. IInv /\ [Next]_vars => IInv'
  BY TypesOn, ScriptTypedOn, PublishedTyped, AgreeOn, UnderwayOn, EndedOn, RegistriesOn DEF IInv
<1>2. QED
  BY <1>1, InitHolds, PTL DEF Spec

\* A package whose checksums all stand delivers its version.
LEMMA StandingDelivers ==
  ASSUME IInv, NEW v \in Versions, NEW p, p.version = v, AllStand(p, v)
  PROVE  Delivers(p, v)
<1> SUFFICES ASSUME NEW t \in Target
             PROVE  /\ p.sha[t] \in {v} \X {t} \X (1..LastBuild)
                    /\ FetchedBy(p, t) = p.sha[t] \/ Replaced(p.sha[t])
  BY DEF Delivers
<1>1. PICK a : a = p.sha[t]
  OBVIOUS
<1>2. /\ a \in Own(v, t) /\ assets[v][t] # Refused /\ assets[v][t] \in Own(v, t)
      /\ assets[v][t][3] >= a[3]
  BY <1>1 DEF AllStand, Stands, IInv, AssetsInPlace
<1>3. a \in Archives /\ a # Zero /\ v # 0
  BY <1>2, SentinelAssumption DEF Own, Archives, Versions
<1>4. CASE assets[v][t][3] = a[3]
  <2>1. assets[v][t] = a
    BY <1>2, <1>4 DEF Own
  <2>2. QED
    BY <1>1, <1>2, <1>3, <2>1 DEF FetchedBy, Own
<1>5. CASE assets[v][t][3] # a[3]
  <2>1. a[1] = v /\ a[2] = t /\ a[3] \in Nat /\ assets[v][t][3] \in Nat
    BY <1>2, BoundsAssumption DEF Own
  <2>2. QED
    BY <1>1, <1>2, <1>5, <2>1 DEF Replaced, Own
<1>6. QED
  BY <1>4, <1>5

(***************************************************************************)
(* The trees are always those of some version strings, each target's       *)
(* checksum an archive or the sentinel.                                    *)
(***************************************************************************)
THEOREM TypeCorrect == Spec => []TypeOK
<1>1. IInv => TypeOK
  BY DEF IInv
<1>2. QED
  BY <1>1, AlwaysIInv, PTL

(***************************************************************************)
(* After a run of update-hashes.sh that ends, whatever came before it, the *)
(* four version strings are its version and both packages install it for   *)
(* every target.                                                           *)
(***************************************************************************)
THEOREM CompleteRunsInstall == Spec => []CompleteRunInstalls
<1>1. ASSUME IInv, ended # 0
      PROVE  /\ Strings(ended, 4)
             /\ Delivers(files.port, ended) /\ Delivers(files.conan, ended)
  <2>1. ended \in Versions
    BY <1>1, BoundsAssumption DEF IInv, TypeOK, Versions
  <2>2. Strings(ended, 4) /\ AllStand(files.port, ended) /\ AllStand(files.conan, ended)
    BY <1>1 DEF IInv, Ended
  <2>3. files.port.version = ended /\ files.conan.version = ended
    BY <2>2 DEF Strings
  <2>4. QED
    BY <1>1, <2>1, <2>2, <2>3, StandingDelivers
<1>2. IInv => CompleteRunInstalls
  BY <1>1 DEF CompleteRunInstalls, Strings
<1>3. QED
  BY <1>2, AlwaysIInv, PTL

(***************************************************************************)
(* Whatever was stopped, committed in part and registered: what a manager  *)
(* installs is an archive of the version and target it was asked for, the  *)
(* ports registered after a run stopped between vcpkg.json and             *)
(* portfile.cmake excepted.                                                *)
(***************************************************************************)
THEOREM InstalledAsNamed == Spec => []InstallsAsNamed
<1>1. ASSUME IInv, NEW p, p.version \in 0..LastVersion
      PROVE  InstallsNamed(p, p.version)
  <2> SUFFICES ASSUME NEW t \in Target, FetchedBy(p, t) # Refused
               PROVE  LET a == FetchedBy(p, t)
                      IN a = p.sha[t] /\ a[1] = p.version /\ a[2] = t
    BY DEF InstallsNamed
  <2>1. FetchedBy(p, t) = p.sha[t] /\ p.version # 0 /\ assets[p.version][t] = p.sha[t]
    BY DEF FetchedBy
  <2>2. p.version \in Versions
    BY <1>1, <2>1, BoundsAssumption DEF Versions
  <2>3. assets[p.version][t] \in Own(p.version, t)
    BY <1>1, <2>1, <2>2 DEF IInv, AssetsInPlace
  <2>4. QED
    BY <2>1, <2>3 DEF Own
<1>2. ASSUME IInv, NEW v \in Versions, Registered(v) # Refused, Registered(v).after # "torn"
      PROVE  InstallsNamed(Registered(v).port, v)
  <2>1. Registered(v).port.version = v
    BY <1>2 DEF IInv, RegistryHonest, Honest, Registered
  <2>2. v \in 0..LastVersion
    BY BoundsAssumption DEF Versions
  <2>3. QED
    BY <1>1, <1>2, <2>1, <2>2
<1>3. ASSUME IInv PROVE InstallsNamed(head.conan, head.conan.version)
  BY <1>1, <1>3, Parts DEF IInv, TypeOK
<1>4. IInv => InstallsAsNamed
  BY <1>2, <1>3 DEF InstallsAsNamed
<1>5. QED
  BY <1>4, AlwaysIInv, PTL

(***************************************************************************)
(* A version registered after a complete run installs for every target     *)
(* through all that happens later, its archives being replaced excepted.   *)
(***************************************************************************)
THEOREM FinalizedStays == Spec => []FinalizedInstalls
<1>1. ASSUME IInv, NEW v \in Versions, Registered(v) # Refused,
             Registered(v).after = "complete"
      PROVE  Delivers(Registered(v).port, v)
  <2>1. Registered(v).port.version = v /\ AllStand(Registered(v).port, v)
    BY <1>1 DEF IInv, RegistryHonest, Honest, Registered
  <2>2. QED
    BY <1>1, <2>1, StandingDelivers
<1>2. IInv => FinalizedInstalls
  BY <1>1 DEF FinalizedInstalls
<1>3. QED
  BY <1>2, AlwaysIInv, PTL
=============================================================================
