--------------------------- MODULE NodePrepProofs ---------------------------
(***************************************************************************)
(* Proofs about NodePrep for every number of runs, organizations and       *)
(* nodes, and for every set of passwords, templates and key names.         *)
(***************************************************************************)
EXTENDS NodePrep, TLAPS

\* The order in which a run visits the paths.
Rank(path) ==
    CASE path[1] = "couchdb" -> 2 * path[2] - 1
      [] path[1] = "peer"    -> 2 * path[2]
      [] path[1] = "config"  -> 2 * NOrgs + path[2]

AtPath == {"probe", "create", "write", "fsync", "read"}

\* The paths that a process has left behind.
Done(r) == {path \in Paths :
    \/ r.stage \in AtPath /\ Rank(path) < Rank(r.at)
    \/ r.stage = "distinct" /\ path \in SecretPaths
    \/ r.stage \in {"listing", "fields"}}

\* The memory of a process fits its stage, whatever happens around it.
LocalOK(r) ==
    /\ r.stage = "keys" => r.at = <<"couchdb", 1>>
    /\ r.stage \in Live \ {"keys"} => r.key \in KeyNames
    /\ r.stage \in AtPath /\ r.at[1] = "peer" => r.seen[r.at[2]] \in Passwords
    /\ r.stage \in {"create", "write", "fsync"} =>
          /\ r.at[1] = "couchdb" => r.data \in Passwords
          /\ r.at[1] = "peer" => r.data = r.seen[r.at[2]]
          /\ r.at[1] = "config" => r.data \in Configs

\* An open descriptor belongs to a run that is writing at that very path.
HolderOK(path) == holder[path] # Nothing =>
    LET q == holder[path] IN
    /\ run[q].at = path
    /\ \/ run[q].stage = "write" /\ disk[path] = Torn
       \/ run[q].stage = "fsync" /\ disk[path] = run[q].data

\* What an undisturbed run knows about the output it has left behind.
Knows(p, path) ==
    /\ path[1] = "couchdb" => /\ disk[path] \in Passwords
                              /\ run[p].seen[path[2]] = disk[path]
    /\ path[1] = "peer" => /\ disk[path] \in Passwords
                           /\ run[p].seen[path[2]] = disk[path]
    /\ path[1] = "config" => disk[path] = <<template, m1>>

Steady(p) ==
    /\ run[p].stage \in Live \ {"keys"} => run[p].key = m1
    /\ run[p].stage \in {"create", "write", "fsync", "read"} /\ run[p].at[1] = "config"
          => run[p].data = <<template, m1>>
    /\ run[p].stage \in {"write", "fsync"} => holder[run[p].at] = p
    /\ \A path \in Done(run[p]) : Knows(p, path)
    /\ \/ run[p].stage \in AtPath /\ run[p].at[1] = "config"
       \/ run[p].stage \in {"listing", "fields"}
       => \A o1, o2 \in Orgs : run[p].seen[o1] = run[p].seen[o2] => o1 = o2
    /\ run[p].stage = "fields" => ~extra /\ run[p].at[1] = "config"
    /\ run[p].stage = "passed" => Ready

Vouched(p) == Ready /\ run[p].stage \notin {"create", "write", "fsync", "failed"}

LocalInv  == TypeOK /\ \A p \in Procs : LocalOK(run[p])
HolderInv == LocalInv /\ \A path \in Paths : HolderOK(path)

IInv ==
    /\ HolderInv
    /\ \A p \in Procs \ disturbed : Steady(p)
    /\ \A p \in vouched \ disturbed : Vouched(p)

-----------------------------------------------------------------------------
(* Operators on processes.                                                 *)

LEMMA PathFacts ==
    /\ <<"couchdb", 1>> \in Paths /\ <<"config", 1>> \in Paths
    /\ \A path \in Paths : path[1] \in {"couchdb", "peer", "config"} /\ path[2] \in Nat
    /\ \A path \in Paths : path[1] = "couchdb" => path[2] \in Orgs /\ path = <<"couchdb", path[2]>>
    /\ \A path \in Paths : path[1] = "peer" => path[2] \in Orgs /\ path = <<"peer", path[2]>>
    /\ \A path \in Paths : path[1] = "config" => path[2] \in Nodes /\ path = <<"config", path[2]>>
    /\ \A path \in Paths : path[1] = "config" <=> path \notin SecretPaths
BY SizeAssumption DEF Paths, SecretPaths, ConfigPaths, Orgs, Nodes

LEMMA EndedType ==
    ASSUME NEW stage \in Stages, NEW act \in {"prepare", "verify"}
    PROVE  Ended(stage, act) \in Process
BY PathFacts DEF Ended, Process, NoSeen

LEMMA AdvancedType ==
    ASSUME NEW r \in Process
    PROVE  Advanced(r) \in Process
<1>1. r.at \in Paths /\ r.at[2] \in Nat
  BY PathFacts DEF Process
<1>2. CASE r.at[1] = "couchdb"
  <2>1. <<"peer", r.at[2]>> \in Paths
    BY <1>1, <1>2, PathFacts DEF Paths, SecretPaths
  <2>. QED  BY <1>2, <2>1 DEF Advanced, Process, Stages, Live
<1>3. CASE r.at[1] = "peer"
  <2>1. r.at[2] < NOrgs => <<"couchdb", r.at[2] + 1>> \in Paths
    BY <1>1, <1>3, PathFacts, SizeAssumption DEF Paths, SecretPaths, Orgs
  <2>. QED  BY <1>3, <2>1 DEF Advanced, Process, Stages, Live
<1>4. CASE r.at[1] = "config"
  <2>1. r.at[2] < NNodes => <<"config", r.at[2] + 1>> \in Paths
    BY <1>1, <1>4, PathFacts, SizeAssumption DEF Paths, ConfigPaths, Nodes
  <2>. QED  BY <1>4, <2>1 DEF Advanced, Process, Stages, Live
<1>. QED  BY <1>1, <1>2, <1>3, <1>4, PathFacts

LEMMA SawType ==
    ASSUME NEW r \in Process, NEW w \in Passwords
    PROVE  Saw(r, w) \in Process
BY DEF Saw, Process

LEMMA EndedLocal ==
    ASSUME NEW stage \in {"idle", "passed", "failed", "killed"}, NEW act
    PROVE  LocalOK(Ended(stage, act))
BY DEF LocalOK, Ended, Live, AtPath

LEMMA AdvancedLocal ==
    ASSUME NEW r \in Process, r.key \in KeyNames,
           r.at[1] = "couchdb" => r.seen[r.at[2]] \in Passwords
    PROVE  LocalOK(Advanced(r))
<1>1. r.at[1] \in {"couchdb", "peer", "config"}
  BY PathFacts DEF Process
<1>2. /\ Advanced(r).stage \in {"probe", "distinct", "listing"}
      /\ Advanced(r).key = r.key
  BY <1>1 DEF Advanced, Process
<1>3. Advanced(r).stage \in AtPath /\ Advanced(r).at[1] = "peer"
        => /\ r.at[1] = "couchdb" /\ Advanced(r).at[2] = r.at[2]
           /\ Advanced(r).seen = r.seen
  BY <1>1 DEF Advanced, Process, AtPath
<1>. QED  BY <1>2, <1>3 DEF LocalOK

LEMMA SawFields ==
    ASSUME NEW r \in Process, NEW w
    PROVE  /\ Saw(r, w).key = r.key /\ Saw(r, w).at = r.at
           /\ r.at[1] = "couchdb" => Saw(r, w).seen[r.at[2]] = w
BY PathFacts DEF Saw, Process

-----------------------------------------------------------------------------
(* Type correctness.                                                       *)

\* A step that only replaces the process in one slot by a well-formed one.
LEMMA RunStep ==
    ASSUME LocalInv, NEW p \in Procs, NEW r \in Process, LocalOK(r),
           run' = [run EXCEPT ![p] = r]
    PROVE  run' \in [Procs -> Process] /\ \A q \in Procs : LocalOK(run'[q])
BY DEF LocalInv, TypeOK

LEMMA FailsStep ==
    ASSUME LocalInv, NEW p \in Procs, Fails(p)
    PROVE  run' \in [Procs -> Process] /\ \A q \in Procs : LocalOK(run'[q])
<1>1. run[p].act \in {"prepare", "verify"}
  BY DEF LocalInv, TypeOK, Process
<1>2. "failed" \in Stages
  BY DEF Stages
<1>. QED  BY <1>1, <1>2, EndedType, EndedLocal, RunStep DEF Fails

LEMMA InitLocal == Init => LocalInv
<1>. SUFFICES ASSUME Init PROVE LocalInv
  OBVIOUS
<1>1. Ended("idle", "prepare") \in Process /\ LocalOK(Ended("idle", "prepare"))
  BY EndedType, EndedLocal DEF Stages
<1>. QED  BY <1>1 DEF Init, LocalInv, TypeOK, Content, Value

LEMMA StartLocal ==
    ASSUME LocalInv, NEW p \in Procs, NEW act \in {"prepare", "verify"}, Start(p, act)
    PROVE  LocalInv'
<1> DEFINE r == [Ended("keys", act) EXCEPT !.stage = "keys"]
<1>1. r \in Process /\ LocalOK(r)
  <2>1. Ended("keys", act) \in Process
    BY EndedType DEF Stages, Live
  <2>. QED  BY <2>1 DEF Process, LocalOK, AtPath, Ended, Stages, Live
<1>2. run' = [run EXCEPT ![p] = r]
  BY DEF Start
<1>3. run' \in [Procs -> Process] /\ \A q \in Procs : LocalOK(run'[q])
  BY <1>1, <1>2, RunStep
<1>. QED  BY <1>3 DEF Start, LocalInv, TypeOK, Environment, Content, Value

LEMMA ReadKeysLocal ==
    ASSUME LocalInv, NEW p \in Procs, ReadKeys(p)
    PROVE  LocalInv'
<1>1. run' \in [Procs -> Process] /\ \A q \in Procs : LocalOK(run'[q])
  <2>1. CASE m1 = Nothing
    BY <2>1, FailsStep DEF ReadKeys
  <2>2. CASE m1 # Nothing
    <3> DEFINE r == [run[p] EXCEPT !.key = m1, !.stage = "probe"]
    <3>a. run[p] \in Process /\ m1 \in KeyNames /\ run[p].at[1] = "couchdb"
      BY <2>2 DEF ReadKeys, LocalInv, LocalOK, TypeOK
    <3>1. r \in Process /\ LocalOK(r)
      BY <3>a DEF Process, LocalOK, AtPath, Stages, Live
    <3>2. run' = [run EXCEPT ![p] = r]
      BY <2>2 DEF ReadKeys, LocalInv, TypeOK, Process
    <3>. QED  BY <3>1, <3>2, RunStep
  <2>. QED  BY <2>1, <2>2
<1>. QED  BY <1>1 DEF ReadKeys, Quiet, LocalInv, TypeOK, Environment, Content, Value

LEMMA ProbeLocal ==
    ASSUME LocalInv, NEW p \in Procs, Probe(p)
    PROVE  LocalInv'
<1>1. /\ run[p] \in Process /\ run[p].at \in Paths
      /\ run[p].at[1] \in {"couchdb", "peer", "config"}
      /\ run[p].key \in KeyNames /\ template \in Templates
      /\ LocalOK(run[p]) /\ run[p].stage = "probe"
  BY PathFacts DEF Probe, LocalInv, TypeOK, Process, LocalOK, Live
<1>2. <<template, run[p].key>> \in Configs
  BY <1>1 DEF Configs
<1>3. run' \in [Procs -> Process] /\ \A q \in Procs : LocalOK(run'[q])
  <2>1. CASE disk[run[p].at] # Nothing
    <3> DEFINE d == IF run[p].at[1] = "config" THEN <<template, run[p].key>> ELSE Nothing
               r == [run[p] EXCEPT !.stage = "read", !.data = d]
    <3>1. d \in Configs \cup {Nothing}
      BY <1>2
    <3>2. r \in Process /\ LocalOK(r)
      BY <1>1, <3>1 DEF Process, LocalOK, AtPath, Stages, Live
    <3>3. run' = [run EXCEPT ![p] = r]
      BY <2>1, <1>1 DEF Probe, LocalInv, TypeOK, Process
    <3>. QED  BY <3>2, <3>3, RunStep
  <2>2. CASE disk[run[p].at] = Nothing /\ run[p].act = "verify"
    BY <2>2, FailsStep DEF Probe
  <2>3. CASE disk[run[p].at] = Nothing /\ run[p].act # "verify"
    <3>1. PICK w \in Writes(p) :
            run' = [run EXCEPT ![p].stage = "create", ![p].data = w]
      BY <2>3 DEF Probe
    <3> DEFINE r == [run[p] EXCEPT !.stage = "create", !.data = w]
    <3>2. /\ run[p].at[1] = "couchdb" => w \in Passwords
          /\ run[p].at[1] = "peer" => w = run[p].seen[run[p].at[2]]
          /\ run[p].at[1] = "config" => w \in Configs
      BY <1>1, <1>2 DEF Writes
    <3>3. w \in Passwords \cup Configs \cup {Nothing}
      BY <1>1, <3>2, PathFacts DEF Process
    <3>4. r \in Process /\ LocalOK(r)
      BY <1>1, <3>2, <3>3 DEF Process, LocalOK, AtPath, Stages, Live
    <3>5. run' = [run EXCEPT ![p] = r]
      BY <3>1, <1>1 DEF LocalInv, TypeOK, Process
    <3>. QED  BY <3>4, <3>5, RunStep
  <2>. QED  BY <2>1, <2>2, <2>3
<1>. QED  BY <1>3 DEF Probe, Quiet, LocalInv, TypeOK, Environment, Content, Value

LEMMA CreateLocal ==
    ASSUME LocalInv, NEW p \in Procs, Create(p)
    PROVE  LocalInv'
<1> DEFINE path == run[p].at
<1>1. run[p] \in Process /\ path \in Paths
  BY DEF LocalInv, TypeOK, Process
<1>2. CASE disk[path] = Nothing
  <2> DEFINE r == [run[p] EXCEPT !.stage = "write"]
  <2>1. r \in Process /\ LocalOK(r)
    BY <1>1 DEF Create, LocalInv, Process, LocalOK, AtPath, Stages, Live
  <2>2. run' = [run EXCEPT ![p] = r]
    BY <1>2, <1>1 DEF Create, LocalInv, TypeOK
  <2>3. run' \in [Procs -> Process] /\ \A q \in Procs : LocalOK(run'[q])
    BY <2>1, <2>2, RunStep
  <2>4. /\ disk' = [disk EXCEPT ![path] = Torn]
        /\ holder' = [holder EXCEPT ![path] = p]
        /\ synced' = synced \ {path}
        /\ UNCHANGED <<extra, template, m1, faults, edits, disturbed, vouched>>
    BY <1>2 DEF Create, Environment
  <2>. QED  BY <1>1, <2>3, <2>4 DEF LocalInv, TypeOK, Content, Value
<1>3. CASE disk[path] # Nothing
  <2>1. run' \in [Procs -> Process] /\ \A q \in Procs : LocalOK(run'[q])
    BY <1>3, FailsStep DEF Create
  <2>. QED  BY <1>3, <2>1 DEF Create, LocalInv, TypeOK, Environment, Content, Value
<1>. QED  BY <1>2, <1>3

\* What a run has to write is content for its path.
LEMMA DataContent ==
    ASSUME LocalInv, NEW p \in Procs, run[p].stage \in {"create", "write", "fsync"}
    PROVE  /\ run[p].at \in Paths
           /\ run[p].data \in Value(run[p].at)
           /\ run[p].data \in Passwords \cup Configs \cup {Nothing, Torn}
<1>1. run[p] \in Process /\ LocalOK(run[p]) /\ run[p].at \in Paths
  BY DEF LocalInv, TypeOK, Process
<1>2. run[p].at[1] = "peer" => run[p].seen[run[p].at[2]] \in Passwords
  BY <1>1 DEF LocalOK, AtPath
<1>. QED  BY <1>1, <1>2, PathFacts DEF LocalOK, Value

LEMMA WriteLocal ==
    ASSUME LocalInv, NEW p \in Procs, Write(p)
    PROVE  LocalInv'
<1> DEFINE path == run[p].at
           r == [run[p] EXCEPT !.stage = "fsync"]
<1>1. run[p] \in Process /\ path \in Paths /\ LocalOK(run[p])
  BY DEF LocalInv, TypeOK, Process
<1>2. r \in Process /\ LocalOK(r)
  BY <1>1 DEF Write, Process, LocalOK, AtPath, Stages, Live
<1>3. run' = [run EXCEPT ![p] = r]
  BY <1>1 DEF Write, LocalInv, TypeOK
<1>4. run' \in [Procs -> Process] /\ \A q \in Procs : LocalOK(run'[q])
  BY <1>2, <1>3, RunStep
<1>5. run[p].data \in Content(path) /\ run[p].data \in Passwords \cup Configs \cup {Nothing, Torn}
  BY DataContent DEF Write, Content
<1>6. /\ disk' = disk \/ disk' = [disk EXCEPT ![path] = run[p].data]
      /\ UNCHANGED <<holder, synced, extra, template, m1, faults, edits, disturbed, vouched>>
  BY DEF Write, Environment
<1>7. /\ disk' \in [Paths -> Passwords \cup Configs \cup {Nothing, Torn}]
      /\ \A x \in Paths : disk'[x] \in Content(x)
  BY <1>1, <1>5, <1>6 DEF LocalInv, TypeOK
<1>. QED  BY <1>4, <1>6, <1>7 DEF LocalInv, TypeOK, Content, Value

LEMMA FsyncLocal ==
    ASSUME LocalInv, NEW p \in Procs, Fsync(p)
    PROVE  LocalInv'
<1> DEFINE path == run[p].at
<1>1. /\ run[p] \in Process /\ path \in Paths /\ LocalOK(run[p])
      /\ run[p].stage = "fsync" /\ run[p].key \in KeyNames
      /\ path[1] \in {"couchdb", "peer", "config"}
  BY PathFacts DEF Fsync, LocalInv, TypeOK, Process, LocalOK, Live
<1>2. \E r \in Process : LocalOK(r) /\ run' = [run EXCEPT ![p] = r]
  <2>1. CASE path[1] = "couchdb"
    <3> DEFINE s == Saw(run[p], run[p].data)
    <3>1. run[p].data \in Passwords
      BY <1>1, <2>1 DEF LocalOK
    <3>2. /\ s \in Process /\ s.key = run[p].key /\ s.at = path
          /\ s.seen[path[2]] \in Passwords
      BY <1>1, <2>1, <3>1, SawType, SawFields
    <3>3. Advanced(s) \in Process /\ LocalOK(Advanced(s))
      BY <1>1, <3>2, AdvancedType, AdvancedLocal
    <3>4. run' = [run EXCEPT ![p] = Advanced(s)]
      BY <2>1 DEF Fsync
    <3>. QED  BY <3>3, <3>4
  <2>2. CASE path[1] = "peer"
    <3> DEFINE r == [run[p] EXCEPT !.stage = "read"]
    <3>1. r \in Process /\ LocalOK(r)
      BY <1>1 DEF Process, LocalOK, AtPath, Stages, Live
    <3>2. run' = [run EXCEPT ![p] = r]
      BY <2>2 DEF Fsync
    <3>. QED  BY <3>1, <3>2
  <2>3. CASE path[1] = "config"
    <3>1. Advanced(run[p]) \in Process /\ LocalOK(Advanced(run[p]))
      BY <1>1, <2>3, AdvancedType, AdvancedLocal
    <3>2. run' = [run EXCEPT ![p] = Advanced(run[p])]
      BY <2>3 DEF Fsync
    <3>. QED  BY <3>1, <3>2
  <2>. QED  BY <1>1, <2>1, <2>2, <2>3
<1>3. run' \in [Procs -> Process] /\ \A q \in Procs : LocalOK(run'[q])
  BY <1>2, RunStep
<1>4. /\ holder' = holder \/ holder' = [holder EXCEPT ![path] = Nothing]
      /\ synced' = synced \/ synced' = synced \cup {path}
      /\ UNCHANGED <<disk, extra, template, m1, faults, edits, disturbed, vouched>>
  BY DEF Fsync, Environment
<1>. QED  BY <1>1, <1>3, <1>4 DEF LocalInv, TypeOK, Content, Value

LEMMA WriteErrorLocal ==
    ASSUME LocalInv, NEW p \in Procs, WriteError(p)
    PROVE  LocalInv'
<1> DEFINE path == run[p].at
<1>1. run' \in [Procs -> Process] /\ \A q \in Procs : LocalOK(run'[q])
  BY FailsStep DEF WriteError
<1>2. path \in Paths
  BY DEF LocalInv, TypeOK, Process
<1>3. /\ disk' = [disk EXCEPT ![path] = Nothing]
      /\ holder' = [holder EXCEPT ![path] = Nothing]
      /\ synced' = synced \ {path}
      /\ disturbed' \in {disturbed, Procs} /\ faults' = faults + 1
      /\ UNCHANGED <<extra, template, m1, edits, vouched>>
  BY DEF WriteError, Environment, Fault
<1>. QED  BY <1>1, <1>2, <1>3 DEF LocalInv, TypeOK, Content, Value

LEMMA ReadLocal ==
    ASSUME LocalInv, NEW p \in Procs, Read(p)
    PROVE  LocalInv'
<1> DEFINE path == run[p].at
           c == disk[path]
<1>1. /\ run[p] \in Process /\ path \in Paths /\ run[p].key \in KeyNames
  BY DEF Read, LocalInv, TypeOK, Process, LocalOK, Live
<1>2. \/ Fails(p)
      \/ /\ path[1] = "couchdb" /\ c \in Passwords
         /\ run' = [run EXCEPT ![p] = Advanced(Saw(run[p], c))]
      \/ path[1] # "couchdb" /\ run' = [run EXCEPT ![p] = Advanced(run[p])]
  BY <1>1, PathFacts DEF Read, Value
<1>3. run' \in [Procs -> Process] /\ \A q \in Procs : LocalOK(run'[q])
  <2>1. CASE Fails(p)
    BY <2>1, FailsStep
  <2>2. CASE /\ path[1] = "couchdb" /\ c \in Passwords
             /\ run' = [run EXCEPT ![p] = Advanced(Saw(run[p], c))]
    <3> DEFINE s == Saw(run[p], c)
    <3>1. /\ s \in Process /\ s.key = run[p].key /\ s.at = path
          /\ s.seen[path[2]] \in Passwords
      BY <1>1, <2>2, SawType, SawFields
    <3>2. Advanced(s) \in Process /\ LocalOK(Advanced(s))
      BY <1>1, <3>1, AdvancedType, AdvancedLocal
    <3>. QED  BY <2>2, <3>2, RunStep
  <2>3. CASE path[1] # "couchdb" /\ run' = [run EXCEPT ![p] = Advanced(run[p])]
    BY <1>1, <2>3, AdvancedType, AdvancedLocal, RunStep
  <2>. QED  BY <1>2, <2>1, <2>2, <2>3
<1>. QED  BY <1>3 DEF Read, Quiet, LocalInv, TypeOK, Environment, Content, Value

LEMMA ChecksLocal ==
    ASSUME LocalInv, NEW p \in Procs,
           CheckDistinct(p) \/ CheckListing(p) \/ CheckFields(p)
    PROVE  LocalInv'
<1>1. /\ run[p] \in Process /\ run[p].at \in Paths /\ run[p].at[2] \in Nat
      /\ run[p].key \in KeyNames /\ run[p].act \in {"prepare", "verify"}
  BY PathFacts DEF CheckDistinct, CheckListing, CheckFields, LocalInv, TypeOK, Process, LocalOK, Live
<1>b. \A path \in ConfigPaths : path \in Paths /\ path[1] = "config"
  BY DEF Paths, ConfigPaths
<1>2. \A stage \in {"probe", "fields"} : \A path \in ConfigPaths :
        LET r == [run[p] EXCEPT !.stage = stage, !.at = path]
        IN  r \in Process /\ LocalOK(r)
  BY <1>1, <1>b DEF Process, LocalOK, AtPath, Stages, Live
<1>a. <<"config", 1>> \in ConfigPaths
  BY SizeAssumption DEF ConfigPaths, Nodes
<1>3. \/ Fails(p)
      \/ \E r \in Process : LocalOK(r) /\ run' = [run EXCEPT ![p] = r]
  <2>1. CASE CheckDistinct(p)
    <3>1. run[p] \in Process
      BY <1>1
    <3>2. \/ Fails(p)
          \/ run' = [run EXCEPT ![p] =
                [run[p] EXCEPT !.stage = "probe", !.at = <<"config", 1>>]]
      BY <2>1, <1>1 DEF CheckDistinct, LocalInv, TypeOK
    <3>. QED  BY <3>2, <1>2, <1>a
  <2>2. CASE CheckListing(p)
    <3>1. \/ Fails(p)
          \/ run' = [run EXCEPT ![p] =
                [run[p] EXCEPT !.stage = "fields", !.at = <<"config", 1>>]]
      BY <2>2, <1>1 DEF CheckListing, LocalInv, TypeOK
    <3>. QED  BY <3>1, <1>2, <1>a
  <2>3. CASE CheckFields(p)
    <3> DEFINE path == run[p].at
               r == [run[p] EXCEPT !.at = <<"config", path[2] + 1>>]
               e == Ended("passed", run[p].act)
    <3>1. \/ Fails(p)
          \/ path[2] < NNodes /\ run' = [run EXCEPT ![p] = r]
          \/ run' = [run EXCEPT ![p] = e]
      BY <2>3 DEF CheckFields
    <3>2. e \in Process /\ LocalOK(e)
      BY <1>1, EndedType, EndedLocal DEF Stages
    <3>3. path[2] < NNodes => <<"config", path[2] + 1>> \in Paths
      BY <1>1, SizeAssumption DEF Paths, ConfigPaths, Nodes
    <3>4. path[2] < NNodes => r \in Process /\ LocalOK(r)
      BY <1>1, <2>3, <3>3 DEF CheckFields, Process, LocalOK, AtPath
    <3>. QED  BY <3>1, <3>2, <3>4
  <2>. QED  BY <2>1, <2>2, <2>3
<1>4. run' \in [Procs -> Process] /\ \A q \in Procs : LocalOK(run'[q])
  BY <1>3, FailsStep, RunStep
<1>5. Quiet /\ UNCHANGED <<faults, vouched, Environment>>
  BY DEF CheckDistinct, CheckListing, CheckFields
<1>. QED  BY <1>4, <1>5 DEF Quiet, LocalInv, TypeOK, Environment, Content, Value

LEMMA KillLocal ==
    ASSUME LocalInv, NEW p \in Procs, Kill(p)
    PROVE  LocalInv'
<1>1. Ended("killed", run[p].act) \in Process /\ LocalOK(Ended("killed", run[p].act))
  BY EndedType, EndedLocal DEF LocalInv, TypeOK, Process, Stages
<1>2. run' \in [Procs -> Process] /\ \A q \in Procs : LocalOK(run'[q])
  BY <1>1, RunStep DEF Kill
<1>. QED  BY <1>2 DEF Kill, Fault, LocalInv, TypeOK, Environment, Content, Value

LEMMA PowerLossLocal ==
    ASSUME LocalInv, PowerLoss
    PROVE  LocalInv'
<1>1. \A p \in Procs : LET e == Ended("killed", run[p].act) IN e \in Process /\ LocalOK(e)
  BY EndedType, EndedLocal DEF LocalInv, TypeOK, Process, Stages
<1>2. run' \in [Procs -> Process] /\ \A q \in Procs : LocalOK(run'[q])
  BY <1>1 DEF PowerLoss, LocalInv, TypeOK
<1>3. PICK gone, cut \in SUBSET Paths :
        /\ disk' = [path \in Paths |-> IF path \in gone THEN Nothing
                                       ELSE IF path \in cut THEN Torn ELSE disk[path]]
        /\ synced' = synced \ gone
  BY DEF PowerLoss
<1>4. /\ disk' \in [Paths -> Passwords \cup Configs \cup {Nothing, Torn}]
      /\ \A path \in Paths : disk'[path] \in Content(path)
      /\ synced' \subseteq Paths
  BY <1>3 DEF LocalInv, TypeOK, Content
<1>5. /\ holder' \in [Paths -> Procs \cup {Nothing}]
      /\ disturbed' \subseteq Procs /\ faults' \in Nat
      /\ UNCHANGED <<extra, template, m1, edits, vouched>>
  BY DEF PowerLoss, Fault, Environment, LocalInv, TypeOK
<1>. QED  BY <1>2, <1>4, <1>5 DEF LocalInv, TypeOK, Content, Value

LEMMA OperatorLocal ==
    ASSUME LocalInv, Operator
    PROVE  LocalInv'
<1>1. ASSUME NEW path \in Paths, ReplaceFile(path) PROVE LocalInv'
  <2>1. PICK c \in Content(path) : disk' = [disk EXCEPT ![path] = c]
    BY <1>1 DEF ReplaceFile
  <2>2. c \in Passwords \cup Configs \cup {Nothing, Torn}
    BY DEF Content, Value
  <2>3. /\ disk' \in [Paths -> Passwords \cup Configs \cup {Nothing, Torn}]
        /\ \A x \in Paths : disk'[x] \in Content(x)
    BY <2>1, <2>2 DEF LocalInv, TypeOK
  <2>. QED  BY <1>1, <2>3 DEF ReplaceFile, Edit, LocalInv, TypeOK, Content, Value
<1>2. ASSUME ArchiveConfigs PROVE LocalInv'
  <2>1. /\ disk' \in [Paths -> Passwords \cup Configs \cup {Nothing, Torn}]
        /\ \A x \in Paths : disk'[x] \in Content(x)
    BY <1>2 DEF ArchiveConfigs, LocalInv, TypeOK, Content
  <2>2. holder' \in [Paths -> Procs \cup {Nothing}]
    BY <1>2 DEF ArchiveConfigs, LocalInv, TypeOK
  <2>3. extra' \in BOOLEAN
    BY <1>2 DEF ArchiveConfigs
  <2>4. /\ edits' \in Nat /\ disturbed' = Procs
        /\ UNCHANGED <<synced, template, m1, run, faults, vouched>>
    BY <1>2 DEF ArchiveConfigs, Edit, LocalInv, TypeOK
  <2>. QED  BY <2>1, <2>2, <2>3, <2>4 DEF LocalInv, TypeOK, Content, Value
<1>3. ASSUME ChangeInputs PROVE LocalInv'
  <2>1. extra' \in BOOLEAN
    BY <1>3, Zenon DEF ChangeInputs, LocalInv, TypeOK
  <2>2. template' \in Templates /\ m1' \in KeyNames \cup {Nothing}
    BY <1>3 DEF ChangeInputs, LocalInv, TypeOK
  <2>3. /\ edits' \in Nat /\ disturbed' = Procs
        /\ UNCHANGED <<disk, holder, synced, run, faults, vouched>>
    BY <1>3 DEF ChangeInputs, Edit, LocalInv, TypeOK
  <2>. QED  BY <2>1, <2>2, <2>3 DEF LocalInv, TypeOK, Content, Value
<1>. QED  BY <1>1, <1>2, <1>3 DEF Operator

LEMMA StepLocal == LocalInv /\ [Next]_vars => LocalInv'
<1>. SUFFICES ASSUME LocalInv, [Next]_vars PROVE LocalInv'
  OBVIOUS
<1>1. CASE UNCHANGED vars
  BY <1>1 DEF vars, LocalInv, TypeOK, Content, Value
<1>2. ASSUME NEW p \in Procs, NEW act \in {"prepare", "verify"}, Start(p, act) PROVE LocalInv'
  BY <1>2, StartLocal
<1>3. ASSUME NEW p \in Procs, Step(p) \/ WriteError(p) \/ Kill(p) PROVE LocalInv'
  BY <1>3, ReadKeysLocal, ProbeLocal, CreateLocal, WriteLocal, FsyncLocal, ReadLocal,
     ChecksLocal, WriteErrorLocal, KillLocal DEF Step
<1>. QED  BY <1>1, <1>2, <1>3, PowerLossLocal, OperatorLocal DEF Next

\* Type correctness: every reachable state of NodePrep is well typed, whatever the
\* number of runs and of files.  The memory of a process has to be typed stage by
\* stage (LocalOK) for a write to leave well-formed content at its path.
THEOREM TypeCorrect == Spec => []TypeOK
<1>1. LocalInv => TypeOK
  BY DEF LocalInv
<1>. QED  BY <1>1, InitLocal, StepLocal, PTL DEF Spec

-----------------------------------------------------------------------------
(* Open descriptors.                                                       *)

Acts(p) == Step(p) \/ WriteError(p) \/ Kill(p) \/ \E act \in {"prepare", "verify"} : Start(p, act)

\* A step of one run leaves every other process as it is.
LEMMA OthersSame ==
    ASSUME LocalInv, NEW p \in Procs, Acts(p)
    PROVE  \A q \in Procs \ {p} : run'[q] = run[q]
<1>1. run \in [Procs -> Process]
  BY DEF LocalInv, TypeOK
<1>2. CASE \E act \in {"prepare", "verify"} : Start(p, act)
  BY <1>1, <1>2 DEF Start
<1>3. CASE ReadKeys(p) \/ Probe(p)
  BY <1>1, <1>3 DEF ReadKeys, Probe, Fails
<1>4. CASE Create(p) \/ Write(p) \/ WriteError(p) \/ Kill(p)
  BY <1>1, <1>4 DEF Create, Write, WriteError, Kill, Fails
<1>5. CASE Fsync(p)
  BY <1>1, <1>5 DEF Fsync
<1>6. CASE Read(p)
  BY <1>1, <1>6 DEF Read, Fails
<1>7. CASE CheckDistinct(p) \/ CheckListing(p) \/ CheckFields(p)
  BY <1>1, <1>7 DEF CheckDistinct, CheckListing, CheckFields, Fails
<1>. QED  BY <1>2, <1>3, <1>4, <1>5, <1>6, <1>7 DEF Acts, Step

LEMMA HolderFrame ==
    ASSUME NEW path \in Paths, HolderOK(path),
           \/ holder'[path] = Nothing
           \/ /\ holder'[path] = holder[path] /\ disk'[path] = disk[path]
              /\ run'[holder[path]] = run[holder[path]]
    PROVE  HolderOK(path)'
BY DEF HolderOK

LEMMA HolderStep == HolderInv /\ [Next]_vars => HolderInv'
<1>. SUFFICES ASSUME HolderInv, [Next]_vars PROVE HolderInv'
  OBVIOUS
<1>1. LocalInv /\ LocalInv'
  BY StepLocal DEF HolderInv
<1>2. ASSUME NEW path \in Paths PROVE HolderOK(path)'
  <2>1. HolderOK(path) /\ holder[path] \in Procs \cup {Nothing}
    BY <1>1 DEF HolderInv, LocalInv, TypeOK
  <2>2. CASE UNCHANGED vars
    BY <2>1, <2>2, HolderFrame DEF vars
  <2>3. ASSUME NEW p \in Procs, Acts(p) PROVE HolderOK(path)'
    <3>1. \A q \in Procs \ {p} : run'[q] = run[q]
      BY <1>1, <2>3, OthersSame
    <3>2. run[p].stage \notin {"write", "fsync"} => holder[path] # p
      BY <1>1, <2>1, ValueAssumption DEF HolderOK
    <3>3. CASE disk' = disk /\ holder' = holder /\ run[p].stage \notin {"write", "fsync"}
      BY <2>1, <3>1, <3>2, <3>3, HolderFrame
    <3>4. CASE Create(p) /\ disk[run[p].at] = Nothing
      <4>1. /\ disk' = [disk EXCEPT ![run[p].at] = Torn]
            /\ holder' = [holder EXCEPT ![run[p].at] = p]
            /\ run'[p].stage = "write" /\ run'[p].at = run[p].at
            /\ run[p].at \in Paths
        BY <1>1, <3>4 DEF Create, LocalInv, TypeOK, Process
      <4>2. CASE path = run[p].at
        BY <1>1, <4>1, <4>2 DEF HolderOK, LocalInv, TypeOK
      <4>3. CASE path # run[p].at
        <5>1. holder'[path] = holder[path] /\ disk'[path] = disk[path]
          BY <1>1, <4>1, <4>3 DEF LocalInv, TypeOK
        <5>2. holder[path] # p
          BY <3>2, <3>4 DEF Create
        <5>. QED  BY <2>1, <3>1, <5>1, <5>2, HolderFrame
      <4>. QED  BY <4>2, <4>3
    <3>5. CASE Write(p)
      <4>1. /\ run'[p].stage = "fsync" /\ run'[p].at = run[p].at /\ run'[p].data = run[p].data
            /\ run[p].at \in Paths /\ holder' = holder
        BY <1>1, <3>5 DEF Write, LocalInv, TypeOK, Process
      <4>2. CASE holder[path] = p
        <5>1. run[p].at = path
          BY <2>1, <4>2, ValueAssumption DEF HolderOK
        <5>2. disk'[path] = run[p].data
          BY <1>1, <3>5, <4>2, <5>1 DEF Write, LocalInv, TypeOK
        <5>. QED  BY <4>1, <4>2, <5>1, <5>2 DEF HolderOK
      <4>3. CASE holder[path] # p
        <5>1. disk'[path] = disk[path]
          BY <1>1, <3>5, <4>1, <4>3 DEF Write, LocalInv, TypeOK
        <5>. QED  BY <2>1, <3>1, <4>1, <4>3, <5>1, HolderFrame
      <4>. QED  BY <4>2, <4>3
    <3>6. CASE Fsync(p) \/ WriteError(p) \/ Kill(p)
      <4>1. holder[path] = p => holder'[path] = Nothing
        BY <1>1, <2>1, <3>6, ValueAssumption
           DEF HolderOK, Fsync, WriteError, Kill, LocalInv, TypeOK
      <4>2. \/ holder'[path] = Nothing
            \/ holder'[path] = holder[path] /\ disk'[path] = disk[path]
        BY <1>1, <3>6 DEF Fsync, WriteError, Kill, LocalInv, TypeOK, Process
      <4>. QED  BY <2>1, <3>1, <4>1, <4>2, HolderFrame
    <3>. QED
      <4>1. CASE \E act \in {"prepare", "verify"} : Start(p, act)
        BY <3>3, <4>1 DEF Start, Live, Stages
      <4>2. CASE Create(p) /\ disk[run[p].at] # Nothing
        BY <3>3, <4>2 DEF Create
      <4>3. CASE ReadKeys(p) \/ Probe(p) \/ Read(p)
        BY <3>3, <4>3 DEF ReadKeys, Probe, Read, Quiet
      <4>4. CASE CheckDistinct(p) \/ CheckListing(p) \/ CheckFields(p)
        BY <3>3, <4>4 DEF CheckDistinct, CheckListing, CheckFields, Quiet
      <4>. QED  BY <2>3, <3>4, <3>5, <3>6, <4>1, <4>2, <4>3, <4>4 DEF Acts, Step
  <2>4. CASE PowerLoss
    BY <2>1, <2>4, HolderFrame DEF PowerLoss
  <2>5. CASE Operator
    <3>1. \/ holder'[path] = Nothing
          \/ holder'[path] = holder[path] /\ disk'[path] = disk[path]
      <4>1. ASSUME NEW x \in Paths, ReplaceFile(x)
            PROVE  \/ holder'[path] = Nothing
                   \/ holder'[path] = holder[path] /\ disk'[path] = disk[path]
        BY <1>1, <4>1 DEF ReplaceFile, LocalInv, TypeOK
      <4>2. CASE ArchiveConfigs
        BY <1>1, <4>2 DEF ArchiveConfigs, LocalInv, TypeOK
      <4>3. CASE ChangeInputs
        BY <4>3 DEF ChangeInputs
      <4>. QED  BY <2>5, <4>1, <4>2, <4>3 DEF Operator
    <3>2. run' = run
      BY <2>5 DEF Operator, ReplaceFile, ArchiveConfigs, ChangeInputs
    <3>. QED  BY <2>1, <3>1, <3>2, HolderFrame
  <2>. QED  BY <2>2, <2>3, <2>4, <2>5 DEF Next, Acts
<1>. QED  BY <1>1, <1>2 DEF HolderInv

-----------------------------------------------------------------------------
(* What an undisturbed run knows.                                          *)

\* The next state keeps the inputs and every file that a reader accepts.
Keeps ==
    /\ UNCHANGED <<template, m1, extra>>
    /\ \A path \in Paths : disk[path] \in Value(path) => disk'[path] = disk[path]

LEMMA ReadyContents ==
    ASSUME LocalInv, Ready
    PROVE  /\ m1 \in KeyNames
           /\ \A path \in Paths : disk[path] \in Value(path)
<1>1. m1 \in KeyNames /\ template \in Templates
  BY DEF Ready, ConfigsCurrent, LocalInv, TypeOK
<1>2. <<template, m1>> \in Configs
  BY <1>1 DEF Configs
<1>3. ASSUME NEW path \in Paths PROVE disk[path] \in Value(path)
  <2>1. CASE path[1] = "couchdb"
    BY <2>1, PathFacts DEF Ready, PairsMatch, Value
  <2>2. CASE path[1] = "peer"
    BY <2>2, PathFacts DEF Ready, PairsMatch, Value
  <2>3. CASE path[1] = "config"
    BY <1>2, <2>3, PathFacts DEF Ready, ConfigsCurrent, Value
  <2>. QED  BY <2>1, <2>2, <2>3, PathFacts
<1>. QED  BY <1>1, <1>3

LEMMA ReadyKept ==
    ASSUME LocalInv, Ready, Keeps
    PROVE  Ready'
<1>1. \A path \in Paths : disk'[path] = disk[path]
  BY ReadyContents DEF Keeps
<1>2. /\ \A o \in Orgs : <<"couchdb", o>> \in Paths /\ <<"peer", o>> \in Paths
      /\ \A n \in Nodes : <<"config", n>> \in Paths
  BY DEF Paths, SecretPaths, ConfigPaths
<1>. QED
  BY <1>1, <1>2 DEF Ready, PairsMatch, Distinct, ConfigsCurrent, Keeps

\* Knowledge of a path lasts while the path is kept.
LEMMA KnowsKept ==
    ASSUME LocalInv, NEW p \in Procs, NEW path \in Paths, m1 \in KeyNames, Knows(p, path),
           UNCHANGED <<template, m1>>,
           disk[path] \in Value(path) => disk'[path] = disk[path],
           path[1] \in {"couchdb", "peer"} => run'[p].seen[path[2]] = run[p].seen[path[2]]
    PROVE  Knows(p, path)'
<1>1. template \in Templates
  BY DEF LocalInv, TypeOK
<1>2. <<template, m1>> \in Configs
  BY <1>1 DEF Configs
<1>. QED  BY <1>2, PathFacts DEF Knows, Value

LEMMA SteadyFrame ==
    ASSUME LocalInv, NEW p \in Procs, Steady(p), run'[p] = run[p], Keeps,
           run[p].stage \in {"write", "fsync"} => holder'[run[p].at] = p
    PROVE  Steady(p)'
<1>1. Done(run'[p]) = Done(run[p])
  BY DEF Done
<1>2. ASSUME NEW path \in Done(run[p]) PROVE Knows(p, path)'
  <2>1. path \in Paths /\ run[p].stage \in Live \ {"keys"}
    BY DEF Done, Live, AtPath
  <2>2. m1 \in KeyNames
    BY <2>1 DEF Steady, LocalInv, LocalOK
  <2>. QED  BY <2>1, <2>2, KnowsKept DEF Steady, Keeps
<1>3. run[p].stage = "passed" => Ready'
  BY ReadyKept DEF Steady
<1>. QED  BY <1>1, <1>2, <1>3 DEF Steady, Keeps

\* What another run can do to an undisturbed one: nothing that matters.
LEMMA OtherKeeps ==
    ASSUME HolderInv, NEW q \in Procs, Acts(q), NEW p \in Procs \ {q}, p \notin disturbed'
    PROVE  /\ p \notin disturbed /\ Keeps
           /\ \A path \in Paths : holder[path] = p => holder'[path] = p
<1>1. LocalInv /\ q # Nothing /\ p # Nothing
  BY ValueAssumption DEF HolderInv
<1>2. run[q].at \in Paths
  BY <1>1 DEF LocalInv, TypeOK, Process
<1>3. disk[run[q].at] \in Value(run[q].at) => disk[run[q].at] \notin {Nothing, Torn}
  BY <1>2, ValueAssumption DEF Value
<1>4. CASE \E act \in {"prepare", "verify"} : Start(q, act)
  BY <1>4 DEF Start, Keeps, Environment
<1>5. CASE ReadKeys(q) \/ Probe(q) \/ Read(q)
  BY <1>5 DEF ReadKeys, Probe, Read, Quiet, Keeps, Environment
<1>6. CASE CheckDistinct(q) \/ CheckListing(q) \/ CheckFields(q)
  BY <1>6 DEF CheckDistinct, CheckListing, CheckFields, Quiet, Keeps, Environment
<1>7. CASE Create(q)
  <2>1. CASE disk[run[q].at] # Nothing
    BY <1>7, <2>1 DEF Create, Keeps, Environment
  <2>2. CASE disk[run[q].at] = Nothing
    <3>1. \A path \in Paths : disk[path] \in Value(path) => disk'[path] = disk[path]
      BY <1>1, <1>2, <1>3, <1>7, <2>2 DEF Create, LocalInv, TypeOK
    <3>2. holder[run[q].at] # p
      <4>1. SUFFICES ASSUME holder[run[q].at] = p PROVE FALSE
        OBVIOUS
      <4>2. /\ run[p].at = run[q].at /\ run[p].stage \in {"write", "fsync"}
            /\ disk[run[q].at] = Torn \/ disk[run[q].at] = run[p].data
        BY <1>1, <1>2, <4>1 DEF HolderInv, HolderOK
      <4>3. run[p].data \in Value(run[p].at)
        BY <1>1, <4>2, DataContent
      <4>. QED  BY <2>2, <1>2, <4>2, <4>3, ValueAssumption DEF Value
    <3>3. \A path \in Paths : holder[path] = p => holder'[path] = p
      BY <1>1, <1>2, <1>7, <2>2, <3>2 DEF Create, LocalInv, TypeOK
    <3>. QED  BY <1>7, <3>1, <3>3 DEF Create, Keeps, Environment
  <2>. QED  BY <2>1, <2>2
<1>8. CASE Write(q)
  <2>1. holder[run[q].at] = q => disk[run[q].at] = Torn
    BY <1>1, <1>2, <1>8 DEF Write, HolderInv, HolderOK
  <2>2. \A path \in Paths : disk[path] \in Value(path) => disk'[path] = disk[path]
    BY <1>1, <1>2, <1>3, <1>8, <2>1 DEF Write, LocalInv, TypeOK
  <2>. QED  BY <1>8, <2>2 DEF Write, Keeps, Environment
<1>9. CASE Fsync(q)
  BY <1>1, <1>2, <1>9 DEF Fsync, Keeps, Environment, LocalInv, TypeOK
<1>10. CASE WriteError(q)
  <2>1. holder[run[q].at] = q /\ disk[run[q].at] = Torn /\ disturbed' = disturbed
    BY <1>10 DEF WriteError
  <2>. QED
    BY <1>1, <1>2, <1>3, <1>10, <2>1 DEF WriteError, Keeps, Environment, LocalInv, TypeOK
<1>11. CASE Kill(q)
  BY <1>1, <1>11 DEF Kill, Keeps, Environment, LocalInv, TypeOK
<1>. QED  BY <1>4, <1>5, <1>6, <1>7, <1>8, <1>9, <1>10, <1>11 DEF Acts, Step

-----------------------------------------------------------------------------
(* Where a run has been.                                                   *)

LEMMA AdvancedFields ==
    ASSUME NEW r \in Process
    PROVE  /\ Advanced(r).key = r.key /\ Advanced(r).seen = r.seen
           /\ r.at[1] = "couchdb" =>
                 Advanced(r).stage = "probe" /\ Advanced(r).at = <<"peer", r.at[2]>>
           /\ r.at[1] = "peer" =>
                 \/ /\ r.at[2] < NOrgs /\ Advanced(r).stage = "probe"
                    /\ Advanced(r).at = <<"couchdb", r.at[2] + 1>>
                 \/ r.at[2] = NOrgs /\ Advanced(r).stage = "distinct"
           /\ r.at[1] = "config" =>
                 \/ /\ r.at[2] < NNodes /\ Advanced(r).stage = "probe"
                    /\ Advanced(r).at = <<"config", r.at[2] + 1>>
                 \/ r.at[2] = NNodes /\ Advanced(r).stage = "listing"
<1>1. r.at \in Paths
  BY DEF Process
<1>2. r.at[1] = "peer" => r.at[2] \in 1..NOrgs
  BY <1>1, PathFacts DEF Orgs
<1>3. r.at[1] = "config" => r.at[2] \in 1..NNodes
  BY <1>1, PathFacts DEF Nodes
<1>4. r.at[1] \in {"couchdb", "peer", "config"}
  BY <1>1, PathFacts
<1>. QED  BY <1>2, <1>3, <1>4, SizeAssumption DEF Advanced, Process

LEMMA RankFacts ==
    ASSUME NEW path \in Paths
    PROVE  /\ path[1] = "couchdb" => Rank(path) = 2 * path[2] - 1
           /\ path[1] = "peer" => Rank(path) = 2 * path[2]
           /\ path[1] = "config" => Rank(path) = 2 * NOrgs + path[2]
           /\ path[1] \in {"couchdb", "peer"} => path[2] \in 1..NOrgs
           /\ path[1] = "config" => path[2] \in 1..NNodes
           /\ NOrgs \in Nat /\ NNodes \in Nat
           /\ Rank(path) \in Nat /\ Rank(path) >= 1
BY PathFacts, SizeAssumption DEF Rank, Orgs, Nodes

\* Ranks tell the paths apart.
LEMMA RankInjective ==
    ASSUME NEW x \in Paths, NEW y \in Paths, Rank(x) = Rank(y)
    PROVE  x = y
<1>1. x[1] \in {"couchdb", "peer", "config"} /\ y[1] \in {"couchdb", "peer", "config"}
  BY PathFacts
<1>2. x[1] = y[1] /\ x[2] = y[2]
  BY <1>1, RankFacts
<1>. QED  BY <1>1, <1>2, PathFacts

\* A run that advances leaves exactly its path behind.
LEMMA DoneAdvanced ==
    ASSUME NEW r \in Process, r.stage \in AtPath, NEW path \in Done(Advanced(r))
    PROVE  path \in Paths /\ (path \in Done(r) \/ path = r.at)
<1>1. r.at \in Paths /\ path \in Paths /\ Advanced(r).at \in Paths
  BY AdvancedType DEF Done, Process
<1>2. r.at[1] \in {"couchdb", "peer", "config"} /\ path[1] \in {"couchdb", "peer", "config"}
  BY <1>1, PathFacts
<1>3. CASE Advanced(r).stage = "probe"
  <2>1. Rank(path) < Rank(Advanced(r).at)
    BY <1>3 DEF Done, AtPath
  <2>2. Rank(path) <= Rank(r.at)
    <3>1. CASE r.at[1] = "couchdb"
      <4>1. Advanced(r).at = <<"peer", r.at[2]>>
        BY <3>1, AdvancedFields
      <4>. QED  BY <1>1, <1>2, <2>1, <3>1, <4>1, RankFacts
    <3>2. CASE r.at[1] = "peer"
      <4>1. Advanced(r).at = <<"couchdb", r.at[2] + 1>>
        BY <1>3, <3>2, AdvancedFields
      <4>. QED  BY <1>1, <1>2, <2>1, <3>2, <4>1, RankFacts
    <3>3. CASE r.at[1] = "config"
      <4>1. Advanced(r).at = <<"config", r.at[2] + 1>>
        BY <1>3, <3>3, AdvancedFields
      <4>. QED  BY <1>1, <1>2, <2>1, <3>3, <4>1, RankFacts
    <3>. QED  BY <1>2, <3>1, <3>2, <3>3
  <2>3. Rank(path) < Rank(r.at) \/ Rank(path) = Rank(r.at)
    BY <1>1, <1>2, <2>2, RankFacts
  <2>. QED  BY <1>1, <2>3, RankInjective DEF Done
<1>4. CASE Advanced(r).stage = "distinct"
  <2>1. path \in SecretPaths /\ path[1] # "config"
    BY <1>1, <1>4, PathFacts DEF Done, AtPath
  <2>2. r.at[1] = "peer" /\ r.at[2] = NOrgs
    BY <1>2, <1>4, AdvancedFields
  <2>3. Rank(path) < Rank(r.at) \/ Rank(path) = Rank(r.at)
    BY <1>1, <1>2, <2>1, <2>2, RankFacts
  <2>. QED  BY <1>1, <2>3, RankInjective DEF Done
<1>5. CASE Advanced(r).stage = "listing"
  <2>1. r.at[1] = "config" /\ r.at[2] = NNodes
    BY <1>2, <1>5, AdvancedFields
  <2>2. Rank(path) < Rank(r.at) \/ Rank(path) = Rank(r.at)
    BY <1>1, <1>2, <2>1, RankFacts
  <2>. QED  BY <1>1, <2>2, RankInjective DEF Done
<1>. QED  BY <1>2, <1>3, <1>4, <1>5, AdvancedFields

\* Nothing is behind a run that begins, and its own path is not behind it.
LEMMA DoneFacts ==
    ASSUME NEW r \in Process
    PROVE  /\ r.stage \in {"keys", "idle", "passed", "failed", "killed"} => Done(r) = {}
           /\ r.stage = "probe" /\ r.at = <<"couchdb", 1>> => Done(r) = {}
           /\ r.stage \in AtPath => r.at \notin Done(r)
           /\ r.stage = "probe" /\ r.at = <<"config", 1>> => Done(r) \subseteq SecretPaths
           /\ r.stage \in AtPath /\ r.at[1] = "peer"
                 => <<"couchdb", r.at[2]>> \in Done(r)
           /\ r.stage \in AtPath /\ r.at[1] = "config" => SecretPaths \subseteq Done(r)
<1>1. r.at \in Paths
  BY DEF Process
<1>2. ASSUME r.stage = "probe", r.at = <<"couchdb", 1>> PROVE Done(r) = {}
  <2>1. ASSUME NEW path \in Paths, Rank(path) < Rank(r.at) PROVE FALSE
    <3>1. r.at[1] = "couchdb" /\ r.at[2] = 1
      BY <1>2
    <3>2. Rank(r.at) = 1
      BY <1>1, <3>1, RankFacts
    <3>. QED  BY <2>1, <3>2, RankFacts
  <2>. QED  BY <1>2, <2>1 DEF Done, AtPath
<1>3. ASSUME r.stage \in AtPath PROVE r.at \notin Done(r)
  <2>1. ~ (Rank(r.at) < Rank(r.at))
    BY <1>1, PathFacts, RankFacts
  <2>. QED  BY <1>3, <2>1 DEF Done, AtPath
<1>4. ASSUME r.stage = "probe", r.at = <<"config", 1>> PROVE Done(r) \subseteq SecretPaths
  <2>1. ASSUME NEW path \in Paths, Rank(path) < Rank(r.at) PROVE path[1] # "config"
    BY <1>1, <1>4, <2>1, RankFacts
  <2>. QED  BY <1>4, <2>1, PathFacts DEF Done, AtPath
<1>5. ASSUME r.stage \in AtPath, r.at[1] = "peer"
      PROVE  <<"couchdb", r.at[2]>> \in Done(r)
  <2>1. <<"couchdb", r.at[2]>> \in Paths
    BY <1>1, <1>5, PathFacts DEF Paths, SecretPaths
  <2>2. Rank(<<"couchdb", r.at[2]>>) < Rank(r.at)
    BY <1>1, <1>5, <2>1, RankFacts
  <2>. QED  BY <1>5, <2>1, <2>2 DEF Done
<1>6. ASSUME r.stage \in AtPath, r.at[1] = "config" PROVE SecretPaths \subseteq Done(r)
  <2>1. ASSUME NEW path \in SecretPaths PROVE path \in Paths /\ Rank(path) < Rank(r.at)
    <3>1. path \in Paths /\ path[1] \in {"couchdb", "peer"}
      BY DEF Paths, SecretPaths
    <3>. QED  BY <1>1, <1>6, <3>1, RankFacts
  <2>. QED  BY <1>6, <2>1 DEF Done
<1>7. r.stage \in {"keys", "idle", "passed", "failed", "killed"} => Done(r) = {}
  BY DEF Done, AtPath
<1>. QED  BY <1>2, <1>3, <1>4, <1>5, <1>6, <1>7

-----------------------------------------------------------------------------
(* An undisturbed run stays steady through its own steps.                  *)

LEMMA SteadyEnded ==
    ASSUME NEW p \in Procs, run'[p].stage \in {"keys", "idle", "failed", "killed"}
    PROVE  Steady(p)'
<1>1. Done(run'[p]) = {}
  BY DEF Done, AtPath
<1>. QED  BY <1>1 DEF Steady, Live, AtPath

LEMMA FailsEnded ==
    ASSUME LocalInv, NEW p \in Procs, Fails(p)
    PROVE  Steady(p)'
<1>1. run'[p].stage = "failed"
  BY DEF Fails, Ended, LocalInv, TypeOK
<1>. QED  BY <1>1, SteadyEnded

LEMMA StillKnows ==
    ASSUME LocalInv, NEW p \in Procs, Steady(p), NEW path \in Done(run[p]),
           UNCHANGED <<template, m1>>, disk'[path] = disk[path],
           path[1] \in {"couchdb", "peer"} => run'[p].seen[path[2]] = run[p].seen[path[2]]
    PROVE  Knows(p, path)'
<1>1. path \in Paths /\ run[p].stage \in Live \ {"keys"}
  BY DEF Done, Live, AtPath
<1>2. m1 \in KeyNames
  BY <1>1 DEF Steady, LocalInv, LocalOK
<1>. QED  BY <1>1, <1>2, KnowsKept DEF Steady

LEMMA SteadyReadKeys ==
    ASSUME LocalInv, NEW p \in Procs, Steady(p), ReadKeys(p)
    PROVE  Steady(p)'
<1>1. CASE Fails(p)
  BY <1>1, FailsEnded
<1>2. CASE ~Fails(p)
  <2> DEFINE r == [run[p] EXCEPT !.key = m1, !.stage = "probe"]
  <2>0. run[p] \in Process
    BY DEF LocalInv, TypeOK
  <2>1. run'[p] = r /\ m1 \in KeyNames /\ UNCHANGED <<m1, template, extra>>
    BY <1>2 DEF ReadKeys, LocalInv, TypeOK, Environment, Process
  <2>2. r.stage = "probe" /\ r.at = <<"couchdb", 1>> /\ r.key = m1 /\ r \in Process
    BY <2>0, <2>1 DEF ReadKeys, LocalInv, LocalOK, Process, Stages, Live
  <2>3. Done(r) = {}
    BY <2>2, DoneFacts
  <2>4. r.at[1] = "couchdb"
    BY <2>2
  <2>. QED  BY <2>1, <2>2, <2>3, <2>4 DEF Steady, Live
<1>. QED  BY <1>1, <1>2

LEMMA SteadyProbe ==
    ASSUME LocalInv, NEW p \in Procs, Steady(p), Probe(p)
    PROVE  Steady(p)'
<1>1. CASE Fails(p)
  BY <1>1, FailsEnded
<1>2. CASE ~Fails(p)
  <2>0. run[p] \in Process /\ run[p].stage = "probe"
    BY DEF Probe, LocalInv, TypeOK
  <2>1. /\ run'[p].stage \in {"read", "create"} /\ run'[p].at = run[p].at
        /\ run'[p].key = run[p].key /\ run'[p].seen = run[p].seen
        /\ run[p].at[1] = "config" => run'[p].data = <<template, run[p].key>>
        /\ UNCHANGED <<disk, holder, template, m1, extra>>
    <3>1. run[p].at[1] = "config" => Writes(p) = {<<template, run[p].key>>}
      BY DEF Writes
    <3>. QED  BY <1>2, <2>0, <3>1 DEF Probe, Quiet, Environment, LocalInv, TypeOK, Process
  <2>2. Done(run'[p]) = Done(run[p])
    BY <2>0, <2>1 DEF Done, AtPath
  <2>3. \A path \in Done(run'[p]) : Knows(p, path)'
    BY <2>1, <2>2, StillKnows
  <2>. QED  BY <2>0, <2>1, <2>3 DEF Steady, Live, AtPath
<1>. QED  BY <1>1, <1>2

LEMMA SteadyCreate ==
    ASSUME LocalInv, NEW p \in Procs, Steady(p), Create(p)
    PROVE  Steady(p)'
<1>1. CASE Fails(p)
  BY <1>1, FailsEnded
<1>2. CASE ~Fails(p)
  <2>0. run[p] \in Process /\ run[p].stage = "create" /\ run[p].at \in Paths
    BY DEF Create, LocalInv, TypeOK, Process
  <2>1. /\ run'[p] = [run[p] EXCEPT !.stage = "write"]
        /\ disk' = [disk EXCEPT ![run[p].at] = Torn]
        /\ holder' = [holder EXCEPT ![run[p].at] = p]
        /\ UNCHANGED <<template, m1, extra>>
    BY <1>2 DEF Create, Environment, LocalInv, TypeOK
  <2>2. /\ run'[p].stage = "write" /\ run'[p].at = run[p].at /\ run'[p].key = run[p].key
        /\ run'[p].seen = run[p].seen /\ run'[p].data = run[p].data
    BY <2>0, <2>1 DEF Process
  <2>3. holder'[run[p].at] = p
    BY <2>0, <2>1 DEF LocalInv, TypeOK
  <2>4. Done(run'[p]) = Done(run[p])
    BY <2>0, <2>2 DEF Done, AtPath
  <2>5. run[p].at \notin Done(run[p]) /\ Done(run[p]) \subseteq Paths
    BY <2>0, DoneFacts DEF AtPath, Done
  <2>6. \A path \in Done(run'[p]) : Knows(p, path)'
    BY <2>1, <2>2, <2>4, <2>5, StillKnows DEF LocalInv, TypeOK
  <2>. QED  BY <2>0, <2>1, <2>2, <2>3, <2>6 DEF Steady, Live, AtPath
<1>. QED  BY <1>1, <1>2

LEMMA SteadyWrite ==
    ASSUME LocalInv, NEW p \in Procs, Steady(p), Write(p)
    PROVE  Steady(p)'
<1>0. run[p] \in Process /\ run[p].stage = "write" /\ run[p].at \in Paths
  BY DEF Write, LocalInv, TypeOK, Process
<1>1. /\ run'[p] = [run[p] EXCEPT !.stage = "fsync"]
      /\ UNCHANGED <<template, m1, extra, holder>>
      /\ \A path \in Paths : path # run[p].at => disk'[path] = disk[path]
  BY <1>0 DEF Write, Environment, LocalInv, TypeOK
<1>2. /\ run'[p].stage = "fsync" /\ run'[p].at = run[p].at /\ run'[p].key = run[p].key
      /\ run'[p].seen = run[p].seen /\ run'[p].data = run[p].data
  BY <1>0, <1>1 DEF Process
<1>3. Done(run'[p]) = Done(run[p])
  BY <1>0, <1>2 DEF Done, AtPath
<1>4. run[p].at \notin Done(run[p]) /\ Done(run[p]) \subseteq Paths
  BY <1>0, DoneFacts DEF AtPath, Done
<1>5. \A path \in Done(run'[p]) : Knows(p, path)'
  BY <1>1, <1>2, <1>3, <1>4, StillKnows
<1>. QED  BY <1>0, <1>1, <1>2, <1>5 DEF Steady, Live, AtPath

\* A run that advances, having taken its path into account.
LEMMA SteadyAdvanced ==
    ASSUME LocalInv, NEW p \in Procs, Steady(p), run[p].stage \in AtPath,
           NEW r \in Process, r.stage = run[p].stage, r.at = run[p].at, r.key = run[p].key,
           \A o \in Orgs : (r.at[1] = "couchdb" /\ o = r.at[2]) \/ r.seen[o] = run[p].seen[o],
           run'[p] = Advanced(r), UNCHANGED <<disk, template, m1, extra>>,
           NEW x \in Paths, x = run[p].at, Knows(p, x)'
    PROVE  Steady(p)'
<1>1. run[p].at \in Paths
  BY DEF Process
<1>2. Done(r) = Done(run[p])
  BY DEF Done
<1>3. /\ Advanced(r).key = run[p].key /\ Advanced(r).seen = r.seen
      /\ Advanced(r).stage \in {"probe", "distinct", "listing"}
  BY <1>1, AdvancedFields, PathFacts
<1>4. ASSUME NEW path \in Done(run'[p]) PROVE Knows(p, path)'
  <2>1. path \in Paths /\ (path \in Done(run[p]) \/ path = run[p].at)
    BY <1>2, DoneAdvanced
  <2>2. CASE path = x
    BY <2>2
  <2>3. CASE path \in Done(run[p]) /\ path # run[p].at
    <3>1. path[1] \in {"couchdb", "peer"} => r.seen[path[2]] = run[p].seen[path[2]]
      <4>1. SUFFICES ASSUME path[1] \in {"couchdb", "peer"}, r.at[1] = "couchdb", path[2] = r.at[2]
                     PROVE  FALSE
        BY <2>1, PathFacts
      <4>2. path = <<"peer", r.at[2]>> \/ path = <<"couchdb", r.at[2]>>
        BY <2>1, <4>1, PathFacts
      <4>3. path # <<"couchdb", r.at[2]>>
        BY <1>1, <2>3, <4>1, PathFacts
      <4>4. Rank(path) < Rank(run[p].at)
        BY <2>3 DEF Done, AtPath
      <4>. QED  BY <1>1, <2>1, <4>1, <4>2, <4>3, <4>4, RankFacts
    <3>. QED  BY <2>3, <3>1, <1>3, StillKnows
  <2>. QED  BY <2>1, <2>2, <2>3
<1>5. (Advanced(r).stage = "probe" /\ Advanced(r).at[1] = "config")
        \/ Advanced(r).stage = "listing" => r.at[1] = "config"
  BY <1>1, AdvancedFields, PathFacts
<1>6. r.at[1] = "config" => \A o \in Orgs : r.seen[o] = run[p].seen[o]
  OBVIOUS
<1>7. run[p].stage \in AtPath /\ run[p].at[1] = "config" =>
        \A o1, o2 \in Orgs : run[p].seen[o1] = run[p].seen[o2] => o1 = o2
  BY DEF Steady
<1>8. run[p].key = m1
  BY DEF Steady, AtPath, Live
<1>. QED  BY <1>3, <1>4, <1>5, <1>6, <1>7, <1>8 DEF Steady, Live, AtPath

LEMMA SteadyFsync ==
    ASSUME HolderInv, NEW p \in Procs, Steady(p), Fsync(p)
    PROVE  Steady(p)'
<1> DEFINE path == run[p].at
<1>0. /\ LocalInv /\ run[p] \in Process /\ run[p].stage = "fsync" /\ path \in Paths
      /\ LocalOK(run[p]) /\ template \in Templates
      /\ path[1] \in {"couchdb", "peer", "config"}
  BY PathFacts DEF HolderInv, Fsync, LocalInv, TypeOK, Process
<1>1. holder[path] = p /\ disk[path] = run[p].data
  BY <1>0, ValueAssumption DEF Steady, HolderInv, HolderOK
<1>2. UNCHANGED <<disk, template, m1, extra>>
  BY DEF Fsync, Environment
<1>3. CASE path[1] = "couchdb"
  <2>1. run[p].data \in Passwords
    BY <1>0, <1>3 DEF LocalOK
  <2>s. PICK s \in Process : s = Saw(run[p], run[p].data)
    BY <1>0, <2>1, SawType
  <2>2. /\ s.stage = "fsync" /\ s.at = path /\ s.key = run[p].key
        /\ s.seen = [run[p].seen EXCEPT ![path[2]] = run[p].data]
    BY <1>0, <2>s DEF Saw, Process
  <2>3. run'[p] = Advanced(s)
    BY <1>0, <1>3, <2>s DEF Fsync, LocalInv, TypeOK
  <2>4. path[2] \in Orgs /\ s.seen[path[2]] = run[p].data
        /\ \A o \in Orgs : o = path[2] \/ s.seen[o] = run[p].seen[o]
    BY <1>0, <1>3, <2>2, PathFacts DEF Process
  <2>5. run'[p].seen = s.seen
    BY <2>2, <2>3, AdvancedFields
  <2>x. PICK x \in Paths : x = path
    BY <1>0
  <2>6. Knows(p, x)'
    BY <1>1, <1>2, <1>3, <2>x, <2>1, <2>4, <2>5 DEF Knows
  <2>7. \A o \in Orgs : (s.at[1] = "couchdb" /\ o = s.at[2]) \/ s.seen[o] = run[p].seen[o]
    BY <1>3, <2>2, <2>4
  <2>8. run[p].stage \in AtPath /\ s.stage = run[p].stage
    BY <1>0, <2>2 DEF AtPath
  <2>. QED  BY <1>0, <1>2, <2>x, <2>2, <2>3, <2>6, <2>7, <2>8, SteadyAdvanced
<1>4. CASE path[1] = "peer"
  <2>1. run'[p] = [run[p] EXCEPT !.stage = "read"]
    BY <1>0, <1>4 DEF Fsync, LocalInv, TypeOK
  <2>2. /\ run'[p].stage = "read" /\ run'[p].at = path /\ run'[p].key = run[p].key
        /\ run'[p].seen = run[p].seen
    BY <1>0, <2>1 DEF Process
  <2>3. Done(run'[p]) = Done(run[p])
    BY <1>0, <2>2 DEF Done, AtPath
  <2>4. \A x \in Done(run'[p]) : Knows(p, x)'
    BY <1>0, <1>2, <2>2, <2>3, StillKnows
  <2>. QED  BY <1>0, <1>2, <1>4, <2>2, <2>4 DEF Steady, Live, AtPath
<1>5. CASE path[1] = "config"
  <2>1. run'[p] = Advanced(run[p])
    BY <1>0, <1>5 DEF Fsync, LocalInv, TypeOK
  <2>2. disk[path] = <<template, m1>>
    BY <1>0, <1>1, <1>5 DEF Steady
  <2>3. ASSUME NEW x \in Paths, x = path PROVE Knows(p, x)'
    BY <1>2, <1>5, <2>2, <2>3 DEF Knows
  <2>. QED  BY <1>0, <1>2, <2>1, <2>3, SteadyAdvanced DEF AtPath
<1>. QED  BY <1>0, <1>3, <1>4, <1>5

LEMMA SteadyRead ==
    ASSUME LocalInv, NEW p \in Procs, Steady(p), Read(p)
    PROVE  Steady(p)'
<1> DEFINE path == run[p].at
           c    == disk[path]
<1>0. /\ run[p] \in Process /\ run[p].stage = "read" /\ path \in Paths
      /\ path[1] \in {"couchdb", "peer", "config"}
      /\ UNCHANGED <<disk, template, m1, extra>>
  BY PathFacts DEF Read, Quiet, Environment, LocalInv, TypeOK, Process
<1>1. CASE Fails(p)
  BY <1>1, FailsEnded
<1>2. CASE path[1] = "couchdb" /\ ~Fails(p)
  <2>a. c \in Passwords /\ run'[p] = Advanced(Saw(run[p], c))
    BY <1>0, <1>2, PathFacts DEF Read, Value, LocalInv, TypeOK
  <2>s. PICK s \in Process : s = Saw(run[p], c)
    BY <1>0, <2>a, SawType
  <2>1. c \in Passwords /\ run'[p] = Advanced(s)
    BY <2>a, <2>s
  <2>2. /\ s.stage = "read" /\ s.at = path /\ s.key = run[p].key
        /\ s.seen = [run[p].seen EXCEPT ![path[2]] = c]
    BY <1>0, <2>s DEF Saw, Process
  <2>4. path[2] \in Orgs /\ s.seen[path[2]] = c
        /\ \A o \in Orgs : o = path[2] \/ s.seen[o] = run[p].seen[o]
    BY <1>0, <1>2, <2>2, PathFacts DEF Process
  <2>5. run'[p].seen = s.seen
    BY <2>1, <2>2, AdvancedFields
  <2>x. PICK x \in Paths : x = path
    BY <1>0
  <2>6. Knows(p, x)'
    BY <1>0, <1>2, <2>x, <2>1, <2>4, <2>5 DEF Knows
  <2>7. \A o \in Orgs : (s.at[1] = "couchdb" /\ o = s.at[2]) \/ s.seen[o] = run[p].seen[o]
    BY <1>2, <2>2, <2>4
  <2>8. run[p].stage \in AtPath /\ s.stage = run[p].stage
    BY <1>0, <2>2 DEF AtPath
  <2>. QED  BY <1>0, <2>x, <2>1, <2>2, <2>6, <2>7, <2>8, SteadyAdvanced
<1>3. CASE path[1] # "couchdb" /\ ~Fails(p)
  <2>1. run'[p] = Advanced(run[p]) /\ c \in Value(path)
    BY <1>0, <1>3 DEF Read, LocalInv, TypeOK
  <2>2. path[1] = "peer" => c = run[p].seen[path[2]] /\ c \in Passwords
    BY <1>0, <1>3, PathFacts DEF Read, Value
  <2>3. path[1] = "config" => c = <<template, m1>>
    BY <1>0, <1>3 DEF Read, Steady
  <2>4. run'[p].seen = run[p].seen
    BY <1>0, <2>1, AdvancedFields
  <2>5. ASSUME NEW x \in Paths, x = path PROVE Knows(p, x)'
    BY <1>0, <1>3, <2>2, <2>3, <2>4, <2>5 DEF Knows
  <2>. QED  BY <1>0, <2>1, <2>5, SteadyAdvanced DEF AtPath
<1>. QED  BY <1>1, <1>2, <1>3

LEMMA SteadyCheckDistinct ==
    ASSUME LocalInv, NEW p \in Procs, Steady(p), CheckDistinct(p)
    PROVE  Steady(p)'
<1>1. CASE Fails(p)
  BY <1>1, FailsEnded
<1>2. CASE ~Fails(p)
  <2> DEFINE r == [run[p] EXCEPT !.stage = "probe", !.at = <<"config", 1>>]
  <2>0. run[p] \in Process /\ run[p].stage = "distinct" /\ r \in Process
    BY PathFacts DEF CheckDistinct, LocalInv, TypeOK, Process, Stages, Live
  <2>1. /\ run'[p] = r /\ UNCHANGED <<disk, template, m1, extra>>
        /\ \A o1, o2 \in Orgs : run[p].seen[o1] = run[p].seen[o2] => o1 = o2
    BY <1>2, <2>0 DEF CheckDistinct, Quiet, Environment, LocalInv, TypeOK
  <2>2. r.stage = "probe" /\ r.at = <<"config", 1>> /\ r.key = run[p].key /\ r.seen = run[p].seen
    BY <2>0 DEF Process
  <2>3. Done(r) \subseteq SecretPaths
    BY <2>0, <2>2, DoneFacts
  <2>4. Done(r) \subseteq Done(run[p])
    BY <2>0, <2>3 DEF Done, Paths
  <2>5. \A x \in Done(run'[p]) : Knows(p, x)'
    BY <2>1, <2>2, <2>4, StillKnows
  <2>. QED  BY <2>0, <2>1, <2>2, <2>5 DEF Steady, Live, AtPath
<1>. QED  BY <1>1, <1>2

LEMMA SteadyCheckListing ==
    ASSUME LocalInv, NEW p \in Procs, Steady(p), CheckListing(p)
    PROVE  Steady(p)'
<1>1. CASE Fails(p)
  BY <1>1, FailsEnded
<1>2. CASE ~Fails(p)
  <2> DEFINE r == [run[p] EXCEPT !.stage = "fields", !.at = <<"config", 1>>]
  <2>0. run[p] \in Process /\ run[p].stage = "listing"
    BY DEF CheckListing, LocalInv, TypeOK
  <2>1. run'[p] = r /\ ~extra /\ UNCHANGED <<disk, template, m1, extra>>
    BY <1>2, <2>0 DEF CheckListing, Quiet, Environment, LocalInv, TypeOK
  <2>2. /\ r.stage = "fields" /\ r.key = run[p].key /\ r.seen = run[p].seen
        /\ r.at[1] = "config"
    BY <2>0 DEF Process
  <2>3. Done(r) = Done(run[p])
    BY <2>0, <2>2 DEF Done, AtPath
  <2>4. \A x \in Done(run'[p]) : Knows(p, x)'
    BY <2>1, <2>2, <2>3, StillKnows
  <2>. QED  BY <2>0, <2>1, <2>2, <2>4 DEF Steady, Live, AtPath
<1>. QED  BY <1>1, <1>2

LEMMA SteadyCheckFields ==
    ASSUME LocalInv, NEW p \in Procs, Steady(p), CheckFields(p)
    PROVE  Steady(p)'
<1>0. /\ run[p] \in Process /\ run[p].stage = "fields" /\ run[p].key = m1 /\ ~extra
      /\ run[p].key \in KeyNames
      /\ UNCHANGED <<disk, template, m1, extra>>
  BY DEF CheckFields, Quiet, Environment, LocalInv, LocalOK, TypeOK, Steady, Live
<1>1. CASE Fails(p)
  BY <1>1, FailsEnded
<1>2. CASE run[p].at[2] < NNodes /\ ~Fails(p)
  <2>1. run'[p] = [run[p] EXCEPT !.at = <<"config", run[p].at[2] + 1>>]
    BY <1>0, <1>2 DEF CheckFields, LocalInv, TypeOK
  <2>2. /\ run'[p].stage = "fields" /\ run'[p].key = run[p].key
        /\ run'[p].seen = run[p].seen /\ run'[p].at[1] = "config"
    BY <1>0, <2>1 DEF Process
  <2>3. Done(run'[p]) = Done(run[p])
    BY <1>0, <2>2 DEF Done, AtPath
  <2>4. \A x \in Done(run'[p]) : Knows(p, x)'
    BY <1>0, <2>2, <2>3, StillKnows
  <2>. QED  BY <1>0, <2>2, <2>4 DEF Steady, Live, AtPath
<1>3. CASE ~(run[p].at[2] < NNodes) /\ ~Fails(p)
  <2>1. run'[p] = Ended("passed", run[p].act)
    BY <1>0, <1>3 DEF CheckFields, LocalInv, TypeOK
  <2>2. run'[p].stage = "passed"
    BY <2>1 DEF Ended
  <2>3. Done(run[p]) = Paths
    BY <1>0 DEF Done, AtPath
  <2>4. \A o \in Orgs : /\ disk[<<"couchdb", o>>] \in Passwords
                        /\ disk[<<"couchdb", o>>] = run[p].seen[o]
                        /\ disk[<<"peer", o>>] = run[p].seen[o]
    <3>1. \A o \in Orgs : <<"couchdb", o>> \in Paths /\ <<"peer", o>> \in Paths
      BY DEF Paths, SecretPaths
    <3>2. \A o \in Orgs : Knows(p, <<"couchdb", o>>) /\ Knows(p, <<"peer", o>>)
      BY <2>3, <3>1 DEF Steady
    <3>. QED  BY <3>2 DEF Knows
  <2>5. \A n \in Nodes : disk[<<"config", n>>] = <<template, m1>>
    <3>1. \A n \in Nodes : <<"config", n>> \in Paths
      BY DEF Paths, ConfigPaths
    <3>2. \A n \in Nodes : Knows(p, <<"config", n>>)
      BY <2>3, <3>1 DEF Steady
    <3>. QED  BY <3>2 DEF Knows
  <2>6. \A o1, o2 \in Orgs : run[p].seen[o1] = run[p].seen[o2] => o1 = o2
    BY <1>0 DEF Steady
  <2>7. Ready
    <3>1. PairsMatch
      BY <2>4 DEF PairsMatch
    <3>2. Distinct
      BY <2>4, <2>6 DEF Distinct
    <3>3. m1 # Nothing
      BY <1>0, ValueAssumption
    <3>4. ConfigsCurrent
      BY <2>5, <3>3 DEF ConfigsCurrent
    <3>5. ~extra
      BY <1>0
    <3>. QED  BY <3>1, <3>2, <3>4, <3>5, Zenon DEF Ready
  <2>8. Ready'
    BY <1>0, <2>7 DEF Ready, PairsMatch, Distinct, ConfigsCurrent
  <2>9. Done(run'[p]) = {}
    BY <2>2 DEF Done, AtPath
  <2>. QED  BY <2>2, <2>8, <2>9 DEF Steady, Live, AtPath
<1>. QED  BY <1>1, <1>2, <1>3

LEMMA SteadyOwn ==
    ASSUME HolderInv, NEW p \in Procs, Steady(p), Acts(p)
    PROVE  Steady(p)'
<1>1. LocalInv /\ run \in [Procs -> Process]
  BY DEF HolderInv, LocalInv, TypeOK
<1>2. CASE Step(p)
  BY <1>1, <1>2, SteadyReadKeys, SteadyProbe, SteadyCreate, SteadyWrite, SteadyFsync,
     SteadyRead, SteadyCheckDistinct, SteadyCheckListing, SteadyCheckFields DEF Step
<1>3. CASE WriteError(p)
  BY <1>1, <1>3, FailsEnded DEF WriteError
<1>4. CASE Kill(p)
  <2>1. run'[p].stage = "killed"
    BY <1>1, <1>4 DEF Kill, Ended
  <2>. QED  BY <2>1, SteadyEnded
<1>5. ASSUME NEW act \in {"prepare", "verify"}, Start(p, act) PROVE Steady(p)'
  <2>1. run'[p].stage = "keys"
    BY <1>1, <1>5 DEF Start, Ended
  <2>. QED  BY <2>1, SteadyEnded
<1>. QED  BY <1>2, <1>3, <1>4, <1>5 DEF Acts

-----------------------------------------------------------------------------
(* The inductive invariant.                                                *)

LEMMA InitInv == Init => IInv
<1>. SUFFICES ASSUME Init PROVE IInv
  OBVIOUS
<1>1. HolderInv
  <2>1. \A path \in Paths : HolderOK(path)
    BY DEF Init, HolderOK
  <2>. QED  BY <2>1, InitLocal DEF HolderInv
<1>2. ASSUME NEW p \in Procs PROVE Steady(p)
  <2>1. run[p].stage = "idle"
    BY DEF Init, Ended
  <2>2. Done(run[p]) = {}
    BY <2>1 DEF Done, AtPath
  <2>. QED  BY <2>1, <2>2 DEF Steady, Live, AtPath
<1>. QED  BY <1>1, <1>2 DEF IInv, Init

\* A power loss under which nobody is disturbed loses no readable file.
LEMMA PowerLossKeeps ==
    ASSUME LocalInv, PowerLoss, NEW p \in Procs, p \notin disturbed'
    PROVE  Keeps /\ disturbed' = disturbed
<1>1. ~ \E path \in Paths : disk[path] \in Value(path) /\ disk'[path] # disk[path]
  BY DEF PowerLoss
<1>2. disturbed' = disturbed
  BY <1>1 DEF PowerLoss
<1>. QED  BY <1>1, <1>2 DEF PowerLoss, Keeps, Environment

LEMMA OperatorDisturbs == Operator => disturbed' = Procs
BY DEF Operator, ReplaceFile, ArchiveConfigs, ChangeInputs, Edit

\* Only a new process begins undisturbed.
LEMMA ActsDisturbs ==
    ASSUME TypeOK, NEW p \in Procs, Acts(p)
    PROVE  \/ \E act \in {"prepare", "verify"} : Start(p, act)
           \/ disturbed \subseteq disturbed' /\ vouched' = vouched
BY DEF Acts, Step, TypeOK, Quiet, ReadKeys, Probe, Create, Write, Fsync, Read,
       CheckDistinct, CheckListing, CheckFields, WriteError, Kill

LEMMA SteadyStep ==
    ASSUME IInv, [Next]_vars, NEW p \in Procs \ disturbed'
    PROVE  Steady(p)'
<1>0. HolderInv /\ LocalInv /\ run \in [Procs -> Process]
  BY DEF IInv, HolderInv, LocalInv, TypeOK
<1>1. CASE UNCHANGED vars
  <2>1. Steady(p) /\ run'[p] = run[p] /\ Keeps /\ holder' = holder
    BY <1>1 DEF IInv, vars, Keeps
  <2>. QED  BY <1>0, <2>1, SteadyFrame DEF Steady
<1>2. ASSUME NEW q \in Procs, Acts(q) PROVE Steady(p)'
  <2>1. CASE p = q
    <3>1. CASE \E act \in {"prepare", "verify"} : Start(p, act)
      <4>1. run'[p].stage = "keys"
        BY <1>0, <3>1 DEF Start, Ended
      <4>. QED  BY <4>1, SteadyEnded
    <3>2. CASE disturbed \subseteq disturbed'
      <4>1. Steady(p)
        BY <3>2 DEF IInv
      <4>. QED  BY <1>0, <1>2, <2>1, <4>1, SteadyOwn
    <3>. QED  BY <1>0, <1>2, <2>1, <3>1, <3>2, ActsDisturbs DEF LocalInv
  <2>2. CASE p # q
    <3>1. /\ p \notin disturbed /\ Keeps
          /\ \A path \in Paths : holder[path] = p => holder'[path] = p
      BY <1>0, <1>2, <2>2, OtherKeeps
    <3>2. Steady(p) /\ run'[p] = run[p] /\ run[p].at \in Paths
      BY <1>0, <1>2, <2>2, <3>1, OthersSame DEF IInv, Process
    <3>3. run[p].stage \in {"write", "fsync"} => holder'[run[p].at] = p
      BY <3>1, <3>2 DEF Steady
    <3>. QED  BY <1>0, <3>1, <3>2, <3>3, SteadyFrame
  <2>. QED  BY <2>1, <2>2
<1>3. CASE PowerLoss
  <2>1. Keeps /\ Steady(p)
    BY <1>0, <1>3, PowerLossKeeps DEF IInv
  <2>2. CASE run[p].stage \in Live
    <3>1. run'[p].stage = "killed"
      BY <1>3, <2>2 DEF PowerLoss, Ended
    <3>. QED  BY <3>1, SteadyEnded
  <2>3. CASE run[p].stage \notin Live
    <3>1. run'[p] = run[p] /\ run[p].stage \notin {"write", "fsync"}
      BY <1>3, <2>3 DEF PowerLoss, Live
    <3>. QED  BY <1>0, <2>1, <3>1, SteadyFrame
  <2>. QED  BY <2>2, <2>3
<1>4. CASE Operator
  BY <1>4, OperatorDisturbs
<1>. QED  BY <1>1, <1>2, <1>3, <1>4 DEF Next, Acts

-----------------------------------------------------------------------------
(* A run that begins after a PASS accepts what it finds.                   *)

\* Ready output gives a vouched run nothing to create and nothing to refuse.
LEMMA VouchedOwn ==
    ASSUME LocalInv, NEW p \in Procs, Steady(p), Vouched(p), Step(p)
    PROVE  Vouched(p)'
<1>0. /\ run \in [Procs -> Process] /\ run[p] \in Process /\ run[p].at \in Paths
      /\ run[p].stage \notin {"create", "write", "fsync", "failed"} /\ Ready
      /\ run[p].at[1] \in {"couchdb", "peer", "config"}
  BY PathFacts DEF LocalInv, TypeOK, Process, Vouched
<1>1. \A path \in Paths : disk[path] \in Value(path) /\ disk[path] \notin {Nothing, Torn}
  BY <1>0, ReadyContents, ValueAssumption DEF Value
<1>2. SUFFICES /\ UNCHANGED <<disk, template, m1, extra>>
               /\ run'[p].stage \notin {"create", "write", "fsync", "failed"}
  BY <1>0, ReadyKept DEF Vouched, Keeps
<1>3. CASE ReadKeys(p)
  <2>1. m1 # Nothing
    BY <1>0 DEF Ready, ConfigsCurrent
  <2>. QED  BY <1>0, <1>3, <2>1 DEF ReadKeys, Quiet, Environment, Process
<1>4. CASE Probe(p)
  BY <1>0, <1>1, <1>4 DEF Probe, Quiet, Environment, Process
<1>5. CASE Create(p) \/ Write(p) \/ Fsync(p)
  BY <1>0, <1>5 DEF Create, Write, Fsync
<1>6. CASE Read(p)
  <2> DEFINE path == run[p].at
  <2>0. run[p].stage = "read"
    BY <1>6 DEF Read
  <2>1. path[1] = "peer" => disk[path] = run[p].seen[path[2]]
    <3>1. SUFFICES ASSUME path[1] = "peer" PROVE disk[path] = run[p].seen[path[2]]
      OBVIOUS
    <3>2. <<"couchdb", path[2]>> \in Done(run[p]) /\ path[2] \in Orgs
          /\ path = <<"peer", path[2]>>
      BY <1>0, <2>0, <3>1, DoneFacts, PathFacts DEF AtPath
    <3>3. Knows(p, <<"couchdb", path[2]>>)
      BY <3>2 DEF Steady
    <3>. QED  BY <1>0, <3>2, <3>3 DEF Knows, Ready, PairsMatch
  <2>2. path[1] = "config" => disk[path] = run[p].data
    BY <1>0, <2>0, PathFacts DEF Steady, Ready, ConfigsCurrent
  <2>3. \/ run'[p] = Advanced(run[p])
        \/ path[1] = "couchdb" /\ disk[path] \in Passwords /\ run'[p] = Advanced(Saw(run[p], disk[path]))
    BY <1>0, <1>1, <1>6, <2>1, <2>2, PathFacts DEF Read, Value
  <2>4. \A r \in Process : Advanced(r).stage \in {"probe", "distinct", "listing"}
    BY AdvancedFields, PathFacts DEF Process
  <2>. QED  BY <1>0, <1>6, <2>3, <2>4, SawType DEF Read, Quiet, Environment
<1>7. CASE CheckDistinct(p)
  <2>1. \A o \in Orgs : <<"couchdb", o>> \in Done(run[p])
    BY <1>7 DEF CheckDistinct, Done, AtPath, Paths, SecretPaths
  <2>2. \A o \in Orgs : run[p].seen[o] = disk[<<"couchdb", o>>]
    BY <2>1 DEF Steady, Knows
  <2>3. \A o1, o2 \in Orgs : run[p].seen[o1] = run[p].seen[o2] => o1 = o2
    BY <1>0, <2>2 DEF Ready, Distinct
  <2>. QED  BY <1>0, <1>7, <2>3 DEF CheckDistinct, Quiet, Environment, Process
<1>8. CASE CheckListing(p)
  <2>1. ~extra /\ \A path \in ConfigPaths : disk[path] # Nothing
    BY <1>0, <1>1 DEF Ready, Paths
  <2>. QED  BY <1>0, <1>8, <2>1 DEF CheckListing, Quiet, Environment, Process
<1>9. CASE CheckFields(p)
  <2>1. run[p].stage = "fields" /\ run[p].key = m1 /\ run[p].at[1] = "config"
    BY <1>9 DEF CheckFields, Steady, Live
  <2>2. disk[run[p].at] = <<template, m1>> /\ disk[run[p].at] \in Configs
    BY <1>0, <1>1, <2>1, PathFacts DEF Ready, ConfigsCurrent, Value
  <2>3. disk[run[p].at][2] = run[p].key
    BY <2>1, <2>2
  <2> DEFINE next == IF run[p].at[2] < NNodes THEN [run[p] EXCEPT !.at = <<"config", run[p].at[2] + 1>>]
                                               ELSE Ended("passed", run[p].act)
  <2>4. run' = [run EXCEPT ![p] = next] /\ UNCHANGED <<disk, template, m1, extra>>
    BY <1>9, <2>2, <2>3 DEF CheckFields, Quiet, Environment
  <2>5. next.stage \in {"fields", "passed"}
    <3>1. run[p] \in Process
      BY <1>0
    <3>2. [run[p] EXCEPT !.at = <<"config", run[p].at[2] + 1>>].stage = run[p].stage
      BY <3>1 DEF Process
    <3>3. Ended("passed", run[p].act).stage = "passed"
      BY DEF Ended
    <3>. QED  BY <2>1, <3>2, <3>3
  <2>. QED  BY <1>0, <2>4, <2>5
<1>. QED  BY <1>3, <1>4, <1>5, <1>6, <1>7, <1>8, <1>9 DEF Step

LEMMA VouchedKept ==
    ASSUME LocalInv, NEW p \in Procs, Vouched(p), Keeps,
           run'[p] = run[p] \/ run'[p].stage \in {"keys", "killed"}
    PROVE  Vouched(p)'
BY ReadyKept DEF Vouched

LEMMA VouchedStep ==
    ASSUME IInv, [Next]_vars, NEW p \in vouched' \ disturbed', p \in Procs
    PROVE  Vouched(p)'
<1>0. HolderInv /\ LocalInv /\ run \in [Procs -> Process]
  BY DEF IInv, HolderInv, LocalInv, TypeOK
<1>1. CASE UNCHANGED vars
  <2>1. Vouched(p) /\ run'[p] = run[p] /\ Keeps
    BY <1>1 DEF IInv, vars, Keeps
  <2>. QED  BY <1>0, <2>1, VouchedKept
<1>2. ASSUME NEW q \in Procs, Acts(q) PROVE Vouched(p)'
  <2>1. CASE p # q
    <3>1. p \notin disturbed /\ Keeps /\ run'[p] = run[p]
      BY <1>0, <1>2, <2>1, OtherKeeps, OthersSame
    <3>2. p \in vouched
      BY <1>0, <1>2, <2>1, ActsDisturbs DEF LocalInv, Start
    <3>. QED  BY <1>0, <3>1, <3>2, VouchedKept DEF IInv
  <2>2. CASE p = q /\ \E act \in {"prepare", "verify"} : Start(p, act)
    <3>1. Standing # {}
      BY <2>2 DEF Start
    <3>2. PICK s \in Procs \ disturbed : run[s].stage = "passed"
      BY <3>1 DEF Standing
    <3>3. Ready
      BY <3>2 DEF IInv, Steady
    <3>4. Keeps /\ run'[p].stage = "keys"
      BY <1>0, <2>2 DEF Start, Keeps, Environment, Ended
    <3>. QED  BY <1>0, <3>3, <3>4, ReadyKept DEF Vouched
  <2>3. CASE p = q /\ ~ \E act \in {"prepare", "verify"} : Start(p, act)
    <3>1. p \in vouched /\ p \notin disturbed
      BY <1>0, <1>2, <2>3, ActsDisturbs DEF LocalInv
    <3>2. Vouched(p) /\ Steady(p)
      BY <3>1 DEF IInv
    <3>3. CASE Step(p)
      BY <1>0, <3>2, <3>3, VouchedOwn
    <3>4. CASE Kill(p)
      BY <1>0, <3>2, <3>4, VouchedKept DEF Kill, Keeps, Environment, Ended
    <3>5. ~WriteError(p)
      BY <3>2 DEF Vouched, WriteError
    <3>. QED  BY <1>2, <2>3, <3>3, <3>4, <3>5 DEF Acts
  <2>. QED  BY <2>1, <2>2, <2>3
<1>3. CASE PowerLoss
  <2>1. Keeps /\ disturbed' = disturbed /\ vouched' = vouched
    BY <1>0, <1>3, PowerLossKeeps DEF PowerLoss
  <2>2. run'[p] = run[p] \/ run'[p].stage = "killed"
    BY <1>3 DEF PowerLoss, Ended
  <2>. QED  BY <1>0, <2>1, <2>2, VouchedKept DEF IInv
<1>4. CASE Operator
  BY <1>4, OperatorDisturbs
<1>. QED  BY <1>1, <1>2, <1>3, <1>4 DEF Next, Acts

LEMMA StepInv == IInv /\ [Next]_vars => IInv'
<1>. SUFFICES ASSUME IInv, [Next]_vars PROVE IInv'
  OBVIOUS
<1>1. HolderInv'
  BY HolderStep DEF IInv
<1>2. vouched' \subseteq Procs
  BY <1>1 DEF HolderInv, LocalInv, TypeOK
<1>. QED  BY <1>1, <1>2, SteadyStep, VouchedStep DEF IInv

\* A PASS that still stands means that the output is ready: every secret has its
\* handoff, no password is shared, every config is the rendering of the inputs, for
\* any number of overlapping runs, faults and edits.  The checks of a run read their
\* files at different moments; what holds the proof together is that no other run
\* replaces a readable file (OtherKeeps), so that what a run knows of the paths
\* behind it (Knows) lasts to its end.
THEOREM PassIsReady == Spec => []PassMeansReady
<1>1. IInv => PassMeansReady
  BY DEF IInv, Steady, PassMeansReady, Standing
<1>. QED  BY <1>1, InitInv, StepInv, PTL DEF Spec

\* Idempotence of `prepare` and `verify`: a run that begins after a PASS that stands
\* never creates a file and never fails, whatever runs beside it.
THEOREM RerunsAgree == Spec => []RerunAgrees
<1>1. IInv => RerunAgrees
  BY DEF IInv, Vouched, RerunAgrees, HolderInv, LocalInv, TypeOK
<1>. QED  BY <1>1, InitInv, StepInv, PTL DEF Spec

-----------------------------------------------------------------------------
(* What a step never does.                                                 *)

LEMMA DriftStep ==
    ASSUME IInv, [Next]_vars, NEW o \in Orgs,
           disk'[<<"peer", o>>] \in Passwords,
           disk'[<<"peer", o>>] # disk[<<"peer", o>>]
    PROVE  \/ disk'[<<"couchdb", o>>] = disk'[<<"peer", o>>]
           \/ edits' # edits
           \/ \E p \in disturbed : run[p].stage = "write" /\ run[p].at = <<"peer", o>>
<1> DEFINE path == <<"peer", o>>
           secret == <<"couchdb", o>>
<1>0. /\ HolderInv /\ LocalInv /\ path \in Paths /\ secret \in Paths /\ path # secret
      /\ path[1] = "peer" /\ path[2] = o
      /\ Torn \notin Passwords /\ Nothing \notin Passwords
  BY ValueAssumption DEF IInv, HolderInv, Paths, SecretPaths
<1>1. CASE UNCHANGED vars
  BY <1>1 DEF vars
<1>2. ASSUME NEW p \in Procs, Write(p), run[p].at = path
      PROVE  disk'[secret] = disk'[path] \/ (p \in disturbed /\ run[p].stage = "write")
  <2>1. SUFFICES ASSUME p \notin disturbed PROVE disk'[secret] = disk'[path]
    BY <1>2 DEF Write
  <2>2. /\ run[p].stage = "write" /\ run[p] \in Process /\ Steady(p) /\ LocalOK(run[p])
        /\ holder[path] = p /\ run[p].data = run[p].seen[o]
    BY <1>0, <1>2, <2>1 DEF Write, IInv, Steady, LocalInv, LocalOK, TypeOK
  <2>3. Knows(p, secret)
    BY <1>0, <1>2, <2>2, DoneFacts DEF AtPath, Steady
  <2>4. disk[secret] = run[p].seen[o]
    BY <2>3 DEF Knows
  <2>5. disk'[path] = run[p].data /\ disk'[secret] = disk[secret]
    BY <1>0, <1>2, <2>2 DEF Write, LocalInv, TypeOK
  <2>. QED  BY <2>2, <2>4, <2>5
<1>3. ASSUME NEW p \in Procs, Acts(p)
      PROVE  (Write(p) /\ run[p].at = path) \/ disk'[path] = disk[path] \/ disk'[path] \in {Nothing, Torn}
  BY <1>0, <1>3 DEF Acts, Step, Quiet, Start, ReadKeys, Probe, Create, Write, Fsync, Read,
     CheckDistinct, CheckListing, CheckFields, WriteError, Kill, LocalInv, TypeOK, Process
<1>4. CASE PowerLoss
  <2>1. disk'[path] \in {Nothing, Torn, disk[path]}
    BY <1>0, <1>4 DEF PowerLoss
  <2>. QED  BY <1>0, <2>1
<1>5. CASE Operator
  BY <1>0, <1>5 DEF Operator, ReplaceFile, ArchiveConfigs, ChangeInputs, Edit, LocalInv, TypeOK
<1>. QED  BY <1>0, <1>1, <1>2, <1>3, <1>4, <1>5 DEF Next, Acts

\* A run only ever writes a Peer password that its organization's CouchDB file holds
\* at that moment, unless it was disturbed since it began: drift between secret and
\* handoff comes from undisturbed runs in no interleaving and under no fault.
THEOREM NeverWritesDrift == Spec => NoDriftWritten
<1>1. IInv /\ [Next]_vars =>
        [\A o \in Orgs :
            /\ disk'[<<"peer", o>>] \in Passwords
            /\ disk'[<<"peer", o>>] # disk[<<"peer", o>>]
            => \/ disk'[<<"couchdb", o>>] = disk'[<<"peer", o>>]
               \/ edits' # edits
               \/ \E p \in disturbed : run[p].stage = "write" /\ run[p].at = <<"peer", o>>]_vars
  BY DriftStep
<1>. QED  BY <1>1, InitInv, StepInv, PTL DEF Spec, NoDriftWritten

\* Before any edit, a run that writes holds the very file at its path.
Owns == \A p \in Procs :
    edits = 0 /\ run[p].stage \in {"write", "fsync"} => holder[run[p].at] = p

LEMMA OwnsStep ==
    ASSUME HolderInv, Owns, [Next]_vars
    PROVE  Owns'
<1>0. /\ LocalInv /\ LocalInv' /\ Nothing \notin Procs /\ run \in [Procs -> Process]
      /\ \A p \in Procs : run[p].at \in Paths
  BY StepLocal, ValueAssumption DEF HolderInv, LocalInv, TypeOK, Process
<1>1. SUFFICES ASSUME NEW p \in Procs, edits' = 0, run'[p].stage \in {"write", "fsync"}
               PROVE  holder'[run'[p].at] = p
  BY DEF Owns
<1>2. CASE UNCHANGED vars
  BY <1>1, <1>2 DEF vars, Owns
<1>3. ASSUME NEW q \in Procs, Acts(q) PROVE holder'[run'[p].at] = p
  <2>0. edits' = edits
    BY <1>3 DEF Acts, Step, Environment, Start, ReadKeys, Probe, Create, Write, Fsync, Read,
       CheckDistinct, CheckListing, CheckFields, WriteError, Kill
  <2>1. CASE p # q
    <3>1. run'[p] = run[p] /\ holder[run[p].at] = p
      BY <1>0, <1>1, <1>3, <2>0, <2>1, OthersSame DEF Owns
    <3>2. disk[run[p].at] # Nothing
      <4>1. \/ disk[run[p].at] = Torn
            \/ disk[run[p].at] = run[p].data /\ run[p].stage = "fsync"
        BY <1>0, <3>1 DEF HolderInv, HolderOK
      <4>2. run[p].stage = "fsync" => run[p].data \in Value(run[p].at)
        BY <1>0, DataContent
      <4>. QED  BY <4>1, <4>2, ValueAssumption DEF Value
    <3>3. run[q].stage \in {"write", "fsync"} => run[q].at # run[p].at
      BY <1>0, <1>1, <2>0, <2>1, <3>1 DEF Owns
    <3>4. holder'[run[p].at] = holder[run[p].at]
      BY <1>0, <1>3, <2>1, <3>1, <3>2, <3>3 DEF Acts, Step, Quiet, Start, ReadKeys, Probe,
         Create, Write, Fsync, Read, CheckDistinct, CheckListing, CheckFields, WriteError,
         Kill, LocalInv, TypeOK
    <3>. QED  BY <3>1, <3>4
  <2>2. CASE p = q
    <3>1. CASE Create(p)
      <4>1. CASE disk[run[p].at] = Nothing
        <5>1. /\ run'[p].at = run[p].at
              /\ holder' = [holder EXCEPT ![run[p].at] = p]
          BY <1>0, <3>1, <4>1 DEF Create, LocalInv, TypeOK, Process
        <5>. QED  BY <1>0, <5>1 DEF LocalInv, TypeOK
      <4>2. CASE disk[run[p].at] # Nothing
        BY <1>0, <1>1, <3>1, <4>2 DEF Create, Fails, Ended
      <4>. QED  BY <4>1, <4>2
    <3>2. CASE Write(p)
      BY <1>0, <1>1, <2>0, <3>2 DEF Write, Owns, LocalInv, TypeOK, Process
    <3>3. CASE Fsync(p)
      <4>1. \A r \in Process : Advanced(r).stage \in {"probe", "distinct", "listing"}
        BY AdvancedFields, PathFacts DEF Process
      <4>2. run[p].stage = "fsync" /\ LocalOK(run[p]) /\ run[p] \in Process
            /\ run[p].at[1] \in {"couchdb", "peer", "config"}
        BY <1>0, <3>3, PathFacts DEF Fsync, LocalInv
      <4>3. run[p].at[1] = "couchdb" => Saw(run[p], run[p].data) \in Process
        BY <4>2, SawType DEF LocalOK
      <4>4. run'[p].stage \in {"probe", "distinct", "listing", "read"}
        BY <1>0, <3>3, <4>1, <4>2, <4>3 DEF Fsync, Process
      <4>. QED  BY <1>1, <4>4
    <3>4. CASE Read(p)
      <4>1. \A r \in Process : Advanced(r).stage \in {"probe", "distinct", "listing"}
        BY AdvancedFields, PathFacts DEF Process
      <4>2. run[p] \in Process /\ disk[run[p].at] \in Value(run[p].at)
              => (run[p].at[1] = "couchdb" => Saw(run[p], disk[run[p].at]) \in Process)
        BY <1>0, SawType, PathFacts DEF Value
      <4>3. run'[p].stage \in {"probe", "distinct", "listing", "failed"}
        BY <1>0, <3>4, <4>1, <4>2 DEF Read, Fails, Ended
      <4>. QED  BY <1>1, <4>3
    <3>5. run'[p].stage \in {"write", "fsync"} => Create(p) \/ Write(p) \/ Fsync(p) \/ Read(p)
      BY <1>0, <1>3, <2>2 DEF Acts, Step, Start, ReadKeys, Probe, CheckDistinct, CheckListing,
         CheckFields, WriteError, Kill, Fails, Ended, Process
    <3>. QED  BY <1>1, <2>2, <3>1, <3>2, <3>3, <3>4, <3>5
  <2>. QED  BY <2>1, <2>2
<1>4. CASE PowerLoss
  <2>1. run'[p].stage \notin Live
    BY <1>4 DEF PowerLoss, Ended, Live
  <2>. QED  BY <1>1, <2>1 DEF Live
<1>5. CASE Operator
  <2>1. edits' = edits + 1 /\ edits \in Nat
    BY <1>0, <1>5 DEF Operator, ReplaceFile, ArchiveConfigs, ChangeInputs, Edit, LocalInv, TypeOK
  <2>. QED  BY <1>1, <2>1
<1>. QED  BY <1>2, <1>3, <1>4, <1>5 DEF Next, Acts

\* "no file is overwritten": until the operator replaces files, a present file is
\* written or removed by nobody but the run that created it, or by a power loss.
THEOREM CreatorTouchesOnly == Spec => OnlyCreatorTouches
<1> DEFINE Touch == \A path \in Paths :
        disk[path] # Nothing /\ disk'[path] # disk[path] =>
            \/ edits' # edits
            \/ \A p \in Procs : run[p].stage \in Live => run'[p].stage = "killed"
            \/ \E p \in Procs :
                  /\ run[p].stage \in {"write", "fsync"} /\ run[p].at = path
                  /\ holder[path] = p \/ edits > 0
<1>1. HolderInv /\ Owns /\ [Next]_vars => [Touch]_vars
  <2>1. SUFFICES ASSUME HolderInv, Owns, [Next]_vars, NEW path \in Paths,
                        disk[path] # Nothing, disk'[path] # disk[path], edits' = edits
                 PROVE  \/ \A p \in Procs : run[p].stage \in Live => run'[p].stage = "killed"
                        \/ \E p \in Procs :
                              /\ run[p].stage \in {"write", "fsync"} /\ run[p].at = path
                              /\ holder[path] = p \/ edits > 0
    OBVIOUS
  <2>2. LocalInv /\ run \in [Procs -> Process] /\ edits \in Nat
    BY <2>1 DEF HolderInv, LocalInv, TypeOK
  <2>3. ~ UNCHANGED vars
    BY <2>1 DEF vars
  <2>4. ASSUME NEW p \in Procs, Acts(p)
        PROVE  run[p].stage \in {"write", "fsync"} /\ run[p].at = path
    BY <2>1, <2>2, <2>4 DEF Acts, Step, Quiet, Start, ReadKeys, Probe, Create, Write, Fsync,
       Read, CheckDistinct, CheckListing, CheckFields, WriteError, Kill, LocalInv, TypeOK
  <2>5. PowerLoss => \A p \in Procs : run[p].stage \in Live => run'[p].stage = "killed"
    BY DEF PowerLoss, Ended
  <2>6. ~ Operator
    BY <2>1, <2>2 DEF Operator, ReplaceFile, ArchiveConfigs, ChangeInputs, Edit
  <2>7. \A p \in Procs : run[p].stage \in {"write", "fsync"} => holder[run[p].at] = p \/ edits > 0
    BY <2>1, <2>2 DEF Owns
  <2>. QED  BY <2>1, <2>3, <2>4, <2>5, <2>6, <2>7 DEF Next, Acts
<1>2. Init => HolderInv /\ Owns
  <2>. SUFFICES ASSUME Init PROVE HolderInv /\ Owns
    OBVIOUS
  <2>1. \A p \in Procs : run[p].stage = "idle"
    BY DEF Init, Ended
  <2>. QED  BY <2>1, InitInv DEF IInv, Owns
<1>3. HolderInv /\ Owns /\ [Next]_vars => (HolderInv /\ Owns)'
  BY HolderStep, OwnsStep
<1>. QED  BY <1>1, <1>2, <1>3, PTL DEF Spec, OnlyCreatorTouches

-----------------------------------------------------------------------------
(* Runs that do not overlap.                                               *)

\* Before any edit: every handoff has its secret, a run that acts was not disturbed, and
\* a secret that is being created has no handoff yet.
AloneInv == edits = 0 =>
    /\ Paired
    /\ \A p \in Procs : run[p].stage \in Live => p \notin disturbed
    /\ \A p \in Procs : run[p].stage \in {"write", "fsync"} /\ run[p].at[1] = "couchdb"
          => disk[<<"peer", run[p].at[2]>>] \notin Passwords

LEMMA InitAlone == Init => AloneInv
BY ValueAssumption DEF Init, AloneInv, Paired, Ended, Live, Paths, SecretPaths

\* What the acting run is to the secret of a handoff that is there.
LEMMA SecretKept ==
    ASSUME IInv, AloneInv, edits = 0, NEW p \in Procs, Acts(p), NEW o \in Orgs,
           disk[<<"peer", o>>] \in Passwords
    PROVE  disk'[<<"couchdb", o>>] = disk[<<"couchdb", o>>]
<1> DEFINE secret == <<"couchdb", o>>
<1>0. /\ LocalInv /\ secret \in Paths /\ disk[secret] # Nothing
      /\ run[p] \in Process /\ secret[1] = "couchdb" /\ secret[2] = o
  BY ValueAssumption DEF IInv, HolderInv, LocalInv, TypeOK, AloneInv, Paired, Paths, SecretPaths
<1>1. run[p].stage \in {"write", "fsync"} => run[p].at # secret
  BY <1>0 DEF AloneInv
<1>. QED  BY <1>0, <1>1 DEF Acts, Step, Quiet, Start, ReadKeys, Probe, Create, Write, Fsync, Read,
     CheckDistinct, CheckListing, CheckFields, WriteError, Kill, LocalInv, TypeOK, Process

\* A step of the only run.
LEMMA ActsAlone ==
    ASSUME IInv, IInv', AloneInv, [Next]_vars, \A q, r \in Procs : q = r, NEW p \in Procs, Acts(p)
    PROVE  AloneInv'
<1>0. /\ LocalInv /\ Nothing \notin Passwords /\ Torn \notin Passwords
      /\ run \in [Procs -> Process] /\ run[p] \in Process
      /\ LocalInv' /\ run'[p] \in Process
  BY ValueAssumption DEF IInv, HolderInv, LocalInv, TypeOK
<1>1. edits' = edits
  BY DEF Acts, Step, Environment, Start, ReadKeys, Probe, Create, Write, Fsync, Read,
     CheckDistinct, CheckListing, CheckFields, WriteError, Kill
<1>2. SUFFICES ASSUME edits = 0
               PROVE  /\ Paired'
                      /\ run'[p].stage \in Live => p \notin disturbed'
                      /\ run'[p].stage \in {"write", "fsync"} /\ run'[p].at[1] = "couchdb"
                            => disk'[<<"peer", run'[p].at[2]>>] \notin Passwords
  BY <1>1 DEF AloneInv
<1>3. Paired'
  <2>1. SUFFICES ASSUME NEW o \in Orgs, disk'[<<"peer", o>>] \in Passwords
                 PROVE  disk'[<<"couchdb", o>>] = disk'[<<"peer", o>>]
    BY DEF Paired
  <2>2. CASE disk'[<<"peer", o>>] = disk[<<"peer", o>>]
    <3>1. disk[<<"couchdb", o>>] = disk[<<"peer", o>>]
      BY <1>2, <2>1, <2>2 DEF AloneInv, Paired
    <3>. QED  BY <1>2, <2>1, <2>2, <3>1, SecretKept
  <2>3. CASE disk'[<<"peer", o>>] # disk[<<"peer", o>>]
    <3>1. ~ \E q \in disturbed : run[q].stage = "write" /\ run[q].at = <<"peer", o>>
      BY <1>0, <1>2 DEF AloneInv, LocalInv, TypeOK, Live
    <3>. QED  BY <1>1, <2>1, <2>3, <3>1, DriftStep
  <2>. QED  BY <2>2, <2>3
<1>4. ASSUME run'[p].stage \in Live PROVE p \notin disturbed'
  <2>1. CASE \E act \in {"prepare", "verify"} : Start(p, act)
    BY <2>1 DEF Start
  <2>2. CASE Step(p)
    <3>1. run[p].stage \in Live /\ disturbed' = disturbed
      BY <2>2 DEF Step, Quiet, ReadKeys, Probe, Create, Write, Fsync, Read,
         CheckDistinct, CheckListing, CheckFields, Live
    <3>. QED  BY <1>2, <3>1 DEF AloneInv
  <2>3. CASE WriteError(p) \/ Kill(p)
    BY <1>0, <1>4, <2>3 DEF WriteError, Kill, Fails, Ended, Live
  <2>. QED  BY <2>1, <2>2, <2>3 DEF Acts
<1>5. ASSUME run'[p].stage \in {"write", "fsync"}, run'[p].at[1] = "couchdb"
      PROVE  disk'[<<"peer", run'[p].at[2]>>] \notin Passwords
  <2>1. run[p].at \in Paths /\ run'[p].at \in Paths
    BY <1>0 DEF Process
  <2>2. (Create(p) /\ disk[run[p].at] = Nothing) \/ Write(p)
    <3>1. ~(Fsync(p) \/ Read(p))
      <4>1. \A r \in Process : Advanced(r).stage \in {"probe", "distinct", "listing"}
        BY AdvancedFields, PathFacts DEF Process
      <4>2. \A w \in Passwords : Saw(run[p], w) \in Process
        BY <1>0, SawType
      <4>3. run[p].stage = "fsync" /\ run[p].at[1] = "couchdb" => run[p].data \in Passwords
        BY <1>0 DEF LocalInv, LocalOK
      <4>4. Fsync(p) => run'[p].stage \in {"probe", "distinct", "listing", "read"}
        BY <1>0, <2>1, <4>1, <4>2, <4>3, PathFacts DEF Fsync, Process
      <4>5. Read(p) => run'[p].stage \in {"probe", "distinct", "listing", "failed"}
        <5>1. run[p].at[1] = "couchdb" => run[p].at \in SecretPaths
          BY <2>1, PathFacts
        <5>. QED  BY <1>0, <2>1, <4>1, <4>2, <5>1, PathFacts DEF Read, Fails, Ended, Value
      <4>. QED  BY <1>5, <4>4, <4>5
    <3>2. ~(WriteError(p) \/ Kill(p) \/ \E act \in {"prepare", "verify"} : Start(p, act))
      BY <1>0, <1>5 DEF WriteError, Kill, Start, Fails, Ended
    <3>3. ~(ReadKeys(p) \/ Probe(p) \/ CheckDistinct(p) \/ CheckListing(p) \/ CheckFields(p))
      BY <1>0, <1>5 DEF ReadKeys, Probe, CheckDistinct, CheckListing, CheckFields, Fails, Ended, Process
    <3>. QED  BY <1>0, <1>5, <3>1, <3>2, <3>3 DEF Acts, Step, Create, Fails, Ended
  <2>3. run'[p].at = run[p].at /\ run[p].at = <<"couchdb", run[p].at[2]>> /\ run[p].at[2] \in Orgs
    BY <1>0, <1>5, <2>1, <2>2, PathFacts DEF Create, Write, Fails, Process
  <2>4. disk'[<<"peer", run[p].at[2]>>] = disk[<<"peer", run[p].at[2]>>]
    <3>1. <<"peer", run[p].at[2]>> \in Paths /\ <<"peer", run[p].at[2]>> # run[p].at
      BY <2>3 DEF Paths, SecretPaths
    <3>. QED  BY <1>0, <2>2, <3>1 DEF Create, Write, LocalInv, TypeOK
  <2>5. CASE Create(p) /\ disk[run[p].at] = Nothing
    BY <1>0, <1>2, <2>3, <2>4, <2>5 DEF AloneInv, Paired
  <2>6. CASE Write(p)
    BY <1>2, <1>5, <2>3, <2>4, <2>6 DEF AloneInv, Write
  <2>. QED  BY <2>2, <2>5, <2>6
<1>. QED  BY <1>3, <1>4, <1>5

LEMMA StepAlone ==
    ASSUME IInv, IInv', AloneInv, [Next]_vars,
           \A q, r \in Procs : q = r, "loss" \notin FaultKinds
    PROVE  AloneInv'
<1>1. CASE UNCHANGED vars
  BY <1>1 DEF vars, AloneInv, Paired
<1>2. ASSUME NEW p \in Procs, Acts(p) PROVE AloneInv'
  BY <1>2, ActsAlone
<1>3. ~PowerLoss
  BY DEF PowerLoss, Fault
<1>4. CASE Operator
  <2>1. edits \in Nat /\ edits' = edits + 1
    BY <1>4 DEF Operator, ReplaceFile, ArchiveConfigs, ChangeInputs, Edit, IInv, HolderInv,
       LocalInv, TypeOK
  <2>. QED  BY <2>1 DEF AloneInv
<1>. QED  BY <1>1, <1>2, <1>3, <1>4 DEF Next, Acts

\* Kills and I/O errors, any number of them at any moment, never leave a handoff without
\* the secret it was copied from, as long as runs do not overlap and the host stays up:
\* a secret that is unlinked was created by the same run, before its handoff.
THEOREM FailuresKeepPairs ==
    ASSUME \A p, q \in Procs : p = q, "loss" \notin FaultKinds
    PROVE  Spec => []CrashConsistent
<1>1. Init => IInv /\ AloneInv
  BY InitInv, InitAlone
<1>2. IInv /\ AloneInv /\ [Next]_vars => IInv' /\ AloneInv'
  BY StepInv, StepAlone
<1>3. AloneInv => CrashConsistent
  BY DEF AloneInv, CrashConsistent
<1>. QED  BY <1>1, <1>2, <1>3, PTL DEF Spec

=============================================================================
