------------------------------ MODULE NodePrep ------------------------------
(***************************************************************************)
(* Runs of scripts/prepare-m2-nodes.py, `prepare` and `verify`, over the   *)
(* ignored output they share: one CouchDB env file and one Peer handoff    *)
(* env file for each organization, and one rendered YAML for each node.    *)
(*                                                                         *)
(* The runs are processes with no lock between them.  A run walks the      *)
(* output in a fixed order; at each path it tests for the file, and then   *)
(* reads it or creates it with write_new (O_EXCL, write, fsync, unlink on  *)
(* an error).  A run can be killed between any two steps, the host can     *)
(* lose power, a write or an fsync can fail, and the operator can replace  *)
(* files, archive the rendered directory, and change the reviewed inputs.  *)
(***************************************************************************)
EXTENDS Naturals

CONSTANTS
    Procs,       \* run slots: a slot holds one process at a time
    NOrgs,       \* ORGS is a tuple: organizations are visited in order 1..NOrgs
    NNodes,      \* ORDERERS, then the peers, in order 1..NNodes
    Passwords,   \* what token_urlsafe(32) can return
    Templates,   \* reviewed node templates (network/config at some commit)
    KeyNames,    \* private key file names that the M1 keystores can show
    Nothing,     \* no file, no value
    Torn,        \* a file every reader refuses: cut short, empty, bad mode, symlink
    FaultKinds,  \* the faults of an instance, out of "kill", "error" and "loss"
    MaxFaults,   \* bound on the number of faults
    MaxEdits     \* bound on operator actions

Orgs    == 1..NOrgs
Nodes   == 1..NNodes
Configs == Templates \X KeyNames    \* a rendered YAML: its template and its key name

ASSUME SizeAssumption == NOrgs \in Nat \ {0} /\ NNodes \in Nat \ {0}
ASSUME FaultAssumption == FaultKinds \subseteq {"kill", "error", "loss"}
ASSUME ValueAssumption ==
    /\ Nothing # Torn
    /\ {Nothing, Torn} \cap (Passwords \cup Configs \cup KeyNames \cup Procs) = {}

SecretPaths == {"couchdb", "peer"} \X Orgs
ConfigPaths == {"config"} \X Nodes
Paths       == SecretPaths \cup ConfigPaths

Value(path)   == IF path \in SecretPaths THEN Passwords ELSE Configs
Content(path) == Value(path) \cup {Nothing, Torn}

VARIABLES
    disk,        \* path -> content of the file at that path
    holder,      \* path -> the run whose open descriptor is that file, or Nothing
    synced,      \* paths whose present file has been fsynced
    extra,       \* TRUE when network-config holds a name that is not a node's
    template,    \* the reviewed templates in the checkout
    m1,          \* the M1 key name, or Nothing when the identity checks refuse M1
    run,         \* slot -> the process in it
    faults,      \* faults so far
    edits,       \* operator actions so far
    disturbed,   \* slots under whose process an input or a file in use was changed
    vouched      \* slots whose process began while some run's PASS still stood

vars == <<disk, holder, synced, extra, template, m1, run, faults, edits,
          disturbed, vouched>>

Live    == {"keys", "probe", "create", "write", "fsync", "read", "distinct",
            "listing", "fields"}
Stages  == Live \cup {"idle", "passed", "failed", "killed"}

\* One process: where it is, the path it is at, and its memory.  `seen` is the
\* passwords list, `data` the bytes it is to write or to find at its path.
Process == [stage : Stages, act : {"prepare", "verify"}, at : Paths,
            key  : KeyNames \cup {Nothing},
            data : Passwords \cup Configs \cup {Nothing},
            seen : [Orgs -> Passwords \cup {Nothing}]]

NoSeen == [o \in Orgs |-> Nothing]
Ended(stage, act) ==
    [stage |-> stage, act |-> act, at |-> <<"couchdb", 1>>, key |-> Nothing,
     data |-> Nothing, seen |-> NoSeen]

Init ==
    /\ disk = [path \in Paths |-> Nothing]
    /\ holder = [path \in Paths |-> Nothing]
    /\ synced = {}
    /\ extra = FALSE
    /\ template \in Templates
    /\ m1 \in KeyNames \cup {Nothing}
    /\ run = [p \in Procs |-> Ended("idle", "prepare")]
    /\ faults = 0 /\ edits = 0
    /\ disturbed = {} /\ vouched = {}

-----------------------------------------------------------------------------
(* Readiness of the output: what a PASS is taken to mean.                  *)

PairsMatch == \A o \in Orgs :
    /\ disk[<<"couchdb", o>>] \in Passwords
    /\ disk[<<"peer", o>>] = disk[<<"couchdb", o>>]
Distinct == \A o1, o2 \in Orgs :
    disk[<<"couchdb", o1>>] = disk[<<"couchdb", o2>>] => o1 = o2
ConfigsCurrent ==
    /\ m1 # Nothing
    /\ \A n \in Nodes : disk[<<"config", n>>] = <<template, m1>>

Ready == PairsMatch /\ Distinct /\ ConfigsCurrent /\ ~extra

Standing == {q \in Procs : run[q].stage = "passed"} \ disturbed

-----------------------------------------------------------------------------
(* Steps of a process.                                                     *)

Fails(p)    == run' = [run EXCEPT ![p] = Ended("failed", run[p].act)]
Quiet       == UNCHANGED <<disk, holder, synced, disturbed>>
Environment == <<extra, template, m1, edits>>

Fault(kind) == kind \in FaultKinds /\ faults < MaxFaults /\ faults' = faults + 1

\* Mutant: an off-by-one at the end of ORGS.
AdvancedTooFar(r) ==
    CASE r.at[1] = "couchdb" -> [r EXCEPT !.stage = "probe", !.at = <<"peer", r.at[2]>>]
      [] r.at[1] = "peer" ->
            [r EXCEPT !.stage = "probe", !.at = <<"couchdb", r.at[2] + 1>>]
      [] r.at[1] = "config" -> [r EXCEPT !.stage = "listing"]

\* The process that goes on past its path.
Advanced(r) ==
    CASE r.at[1] = "couchdb" -> [r EXCEPT !.stage = "probe", !.at = <<"peer", r.at[2]>>]
      [] r.at[1] = "peer" ->
            IF r.at[2] < NOrgs
            THEN [r EXCEPT !.stage = "probe", !.at = <<"couchdb", r.at[2] + 1>>]
            ELSE [r EXCEPT !.stage = "distinct"]
      [] r.at[1] = "config" ->
            IF r.at[2] < NNodes
            THEN [r EXCEPT !.stage = "probe", !.at = <<"config", r.at[2] + 1>>]
            ELSE [r EXCEPT !.stage = "listing"]

\* The process that has taken password w into its passwords list.
Saw(r, w) == [r EXCEPT !.seen = [r.seen EXCEPT ![r.at[2]] = w]]

\* A fresh token differs from every password on disk or in a process's memory.
InUse == {disk[path] : path \in SecretPaths}
           \cup {run[q].data : q \in Procs}
           \cup UNION {{run[q].seen[o] : o \in Orgs} : q \in Procs}

\* main: a new process starts.
Start(p, act) ==
    /\ run[p].stage \in Stages \ Live
    /\ run' = [run EXCEPT ![p] = [Ended("keys", act) EXCEPT !.stage = "keys"]]
    /\ disturbed' = disturbed \ {p}
    /\ vouched' = IF Standing # {} THEN vouched \cup {p} ELSE vouched \ {p}
    /\ UNCHANGED <<disk, holder, synced, faults, Environment>>

\* key_names: refuse M1, or remember the key names for the whole run.
ReadKeys(p) ==
    /\ run[p].stage = "keys"
    /\ IF m1 = Nothing
       THEN Fails(p)
       ELSE run' = [run EXCEPT ![p].key = m1, ![p].stage = "probe"]
    /\ Quiet /\ UNCHANGED <<faults, vouched, Environment>>

\* What the process would write at its path.
Writes(p) ==
    CASE run[p].at[1] = "couchdb" -> Passwords \ InUse
      [] run[p].at[1] = "peer"    -> {run[p].seen[run[p].at[2]]}
      [] run[p].at[1] = "config"  -> {<<template, run[p].key>>}

\* Mutant: prepare does not look for a retained file.
ProbeBlind(p) ==
    /\ run[p].stage = "probe"
    /\ \E w \in Writes(p) : run' = [run EXCEPT ![p].stage = "create", ![p].data = w]
    /\ Quiet /\ UNCHANGED <<faults, vouched, Environment>>

\* path.exists(), after rendering when the path is a node config.
Probe(p) ==
    /\ run[p].stage = "probe"
    /\ \/ /\ disk[run[p].at] # Nothing
          /\ run' = [run EXCEPT
                ![p].stage = "read",
                ![p].data = IF run[p].at[1] = "config" THEN <<template, run[p].key>>
                                                       ELSE Nothing]
       \/ /\ disk[run[p].at] = Nothing /\ run[p].act = "verify"
          /\ Fails(p)
       \/ /\ disk[run[p].at] = Nothing /\ run[p].act = "prepare"
          /\ \E w \in Writes(p) :
                run' = [run EXCEPT ![p].stage = "create", ![p].data = w]
    /\ Quiet /\ UNCHANGED <<faults, vouched, Environment>>

\* Mutant: os.open without O_EXCL truncates the file it finds.
CreateTruncating(p) ==
    LET path == run[p].at IN
    /\ run[p].stage = "create"
    /\ disk' = [disk EXCEPT ![path] = Torn]
    /\ holder' = [holder EXCEPT ![path] = p]
    /\ synced' = synced \ {path}
    /\ run' = [run EXCEPT ![p].stage = "write"]
    /\ UNCHANGED <<disturbed, faults, vouched, Environment>>

\* Mutant: os.open inside the try, so the loser of the race unlinks the winner's file.
CreateUnlinking(p) ==
    LET path == run[p].at IN
    /\ run[p].stage = "create"
    /\ IF disk[path] = Nothing
       THEN /\ disk' = [disk EXCEPT ![path] = Torn]
            /\ holder' = [holder EXCEPT ![path] = p]
            /\ run' = [run EXCEPT ![p].stage = "write"]
       ELSE /\ disk' = [disk EXCEPT ![path] = Nothing]
            /\ holder' = [holder EXCEPT ![path] = Nothing]
            /\ Fails(p)
    /\ synced' = synced \ {path}
    /\ UNCHANGED <<disturbed, faults, vouched, Environment>>

\* write_new's os.open: the loser of a race for the path fails outside the try.
Create(p) ==
    LET path == run[p].at IN
    /\ run[p].stage = "create"
    /\ IF disk[path] = Nothing
       THEN /\ disk' = [disk EXCEPT ![path] = Torn]
            /\ holder' = [holder EXCEPT ![path] = p]
            /\ synced' = synced \ {path}
            /\ run' = [run EXCEPT ![p].stage = "write"]
       ELSE Fails(p) /\ UNCHANGED <<disk, holder, synced>>
    /\ UNCHANGED <<disturbed, faults, vouched, Environment>>

\* file.write and file.flush reach the file the descriptor is open on.
Write(p) ==
    LET path == run[p].at IN
    /\ run[p].stage = "write"
    /\ disk' = IF holder[path] = p THEN [disk EXCEPT ![path] = run[p].data] ELSE disk
    /\ run' = [run EXCEPT ![p].stage = "fsync"]
    /\ UNCHANGED <<holder, synced, disturbed, faults, vouched, Environment>>

\* os.fsync returns.  Only the Peer handoff is read back after it is written.
Fsync(p) ==
    LET path == run[p].at IN
    /\ run[p].stage = "fsync"
    /\ synced' = IF holder[path] = p THEN synced \cup {path} ELSE synced
    /\ holder' = IF holder[path] = p THEN [holder EXCEPT ![path] = Nothing] ELSE holder
    /\ run' = [run EXCEPT ![p] =
          CASE path[1] = "couchdb" -> Advanced(Saw(run[p], run[p].data))
            [] path[1] = "peer"    -> [run[p] EXCEPT !.stage = "read"]
            [] path[1] = "config"  -> Advanced(run[p])]
    /\ UNCHANGED <<disk, disturbed, faults, vouched, Environment>>

\* Mutant: the handler unlinks and does not raise again.
WriteErrorSwallowed(p) ==
    LET path == run[p].at
        own  == holder[path] = p
    IN
    /\ run[p].stage \in {"write", "fsync"} /\ Fault("error")
    /\ disk' = [disk EXCEPT ![path] = Nothing]
    /\ holder' = [holder EXCEPT ![path] = Nothing]
    /\ synced' = synced \ {path}
    /\ disturbed' = IF own /\ disk[path] = Torn THEN disturbed ELSE Procs
    /\ run' = [run EXCEPT ![p] = Advanced(Saw(run[p], run[p].data))]
    /\ UNCHANGED <<vouched, Environment>>

\* write or fsync raises: unlink whatever file is at the path now, then exit 1.
WriteError(p) ==
    LET path == run[p].at
        own  == holder[path] = p
    IN
    /\ run[p].stage \in {"write", "fsync"} /\ Fault("error")
    /\ disk' = [disk EXCEPT ![path] = Nothing]
    /\ holder' = [holder EXCEPT ![path] = Nothing]
    /\ synced' = synced \ {path}
    /\ disturbed' = IF own /\ disk[path] = Torn THEN disturbed ELSE Procs
    /\ Fails(p)
    /\ UNCHANGED <<vouched, Environment>>

\* Mutant: the handoff is not compared with the secret.
ReadUncompared(p) ==
    LET path == run[p].at
        c    == disk[path]
        ok   == c \in Value(path) /\ (path[1] = "config" => c = run[p].data)
    IN
    /\ run[p].stage = "read"
    /\ IF ~ok THEN Fails(p)
       ELSE run' = [run EXCEPT ![p] =
               IF path[1] = "couchdb" THEN Advanced(Saw(run[p], c)) ELSE Advanced(run[p])]
    /\ Quiet /\ UNCHANGED <<faults, vouched, Environment>>

\* read_env or read_bytes, and the comparison that follows it.
Read(p) ==
    LET path == run[p].at
        c    == disk[path]
        ok   == /\ c \in Value(path)
                /\ path[1] = "peer" => c = run[p].seen[path[2]]
                /\ path[1] = "config" => c = run[p].data
    IN
    /\ run[p].stage = "read"
    /\ IF ~ok THEN Fails(p)
       ELSE run' = [run EXCEPT ![p] =
               IF path[1] = "couchdb" THEN Advanced(Saw(run[p], c)) ELSE Advanced(run[p])]
    /\ Quiet /\ UNCHANGED <<faults, vouched, Environment>>

\* Mutant: equal passwords are let through.
CheckDistinctNot(p) ==
    /\ run[p].stage = "distinct"
    /\ run' = [run EXCEPT ![p].stage = "probe", ![p].at = <<"config", 1>>]
    /\ Quiet /\ UNCHANGED <<faults, vouched, Environment>>

\* The passwords list has no repetition; the configs come next.
CheckDistinct(p) ==
    /\ run[p].stage = "distinct"
    /\ IF \A o1, o2 \in Orgs : run[p].seen[o1] = run[p].seen[o2] => o1 = o2
       THEN run' = [run EXCEPT ![p].stage = "probe", ![p].at = <<"config", 1>>]
       ELSE Fails(p)
    /\ Quiet /\ UNCHANGED <<faults, vouched, Environment>>

\* The directory names exactly the node configs.
CheckListing(p) ==
    /\ run[p].stage = "listing"
    /\ IF ~extra /\ \A path \in ConfigPaths : disk[path] # Nothing
       THEN run' = [run EXCEPT ![p].stage = "fields", ![p].at = <<"config", 1>>]
       ELSE Fails(p)
    /\ Quiet /\ UNCHANGED <<faults, vouched, Environment>>

\* check_node_fields reads each YAML again and compares its key path.  The fields that are the
\* same in every config, and those for which rendered_config refuses a template (222 to 265),
\* do not depend on what runs do to the files: the templates that occur pass these tests.
CheckFields(p) ==
    LET path == run[p].at IN
    /\ run[p].stage = "fields"
    /\ IF disk[path] \notin Configs \/ disk[path][2] # run[p].key
       THEN Fails(p)
       ELSE run' = [run EXCEPT ![p] =
               IF path[2] < NNodes THEN [run[p] EXCEPT !.at = <<"config", path[2] + 1>>]
                                   ELSE Ended("passed", run[p].act)]
    /\ Quiet /\ UNCHANGED <<faults, vouched, Environment>>

-----------------------------------------------------------------------------
(* Faults and the operator.                                                *)

\* SIGKILL: no handler runs, the file stays as it is.
Kill(p) ==
    /\ run[p].stage \in Live /\ Fault("kill")
    /\ run' = [run EXCEPT ![p] = Ended("killed", run[p].act)]
    /\ holder' = [path \in Paths |-> IF holder[path] = p THEN Nothing ELSE holder[path]]
    /\ UNCHANGED <<disk, synced, disturbed, vouched, Environment>>

\* The host stops.  A file that was not fsynced is kept, cut short or gone.
PowerLoss ==
    /\ Fault("loss")
    /\ \E p \in Procs : run[p].stage \in Live
    /\ \E gone, cut \in SUBSET {path \in Paths : disk[path] # Nothing /\ path \notin synced} :
          /\ disk' = [path \in Paths |-> IF path \in gone THEN Nothing
                                         ELSE IF path \in cut THEN Torn ELSE disk[path]]
          /\ synced' = synced \ gone
    /\ disturbed' = IF \E path \in Paths : disk[path] \in Value(path)
                                             /\ disk'[path] # disk[path]
                    THEN Procs ELSE disturbed
    /\ run' = [p \in Procs |-> IF run[p].stage \in Live THEN Ended("killed", run[p].act)
                                                        ELSE run[p]]
    /\ holder' = [path \in Paths |-> Nothing]
    /\ UNCHANGED <<vouched, Environment>>

Edit == edits < MaxEdits /\ edits' = edits + 1 /\ disturbed' = Procs

\* The operator renames a file into place, or away (the rotation's `mv`).
ReplaceFile(path) ==
    /\ Edit
    /\ \E c \in Content(path) \ {disk[path]} : disk' = [disk EXCEPT ![path] = c]
    /\ holder' = [holder EXCEPT ![path] = Nothing]
    /\ synced' = synced \cup {path}
    /\ UNCHANGED <<extra, template, m1, run, faults, vouched>>

\* `mv .runtime/network-config <archive>`, before configs are rendered again.
ArchiveConfigs ==
    /\ Edit
    /\ disk' = [path \in Paths |-> IF path \in ConfigPaths THEN Nothing ELSE disk[path]]
    /\ holder' = [path \in Paths |-> IF path \in ConfigPaths THEN Nothing ELSE holder[path]]
    /\ extra' = FALSE
    /\ UNCHANGED <<synced, template, m1, run, faults, vouched>>

\* A stray name appears in network-config, the checkout moves to other reviewed
\* templates, or the M1 identities change.
ChangeInputs ==
    /\ Edit
    /\ \/ extra' = TRUE /\ ~extra /\ UNCHANGED <<template, m1>>
       \/ template' \in Templates \ {template} /\ UNCHANGED <<extra, m1>>
       \/ m1' \in (KeyNames \cup {Nothing}) \ {m1} /\ UNCHANGED <<extra, template>>
    /\ UNCHANGED <<disk, holder, synced, run, faults, vouched>>

-----------------------------------------------------------------------------
Step(p) ==
    \/ ReadKeys(p) \/ Probe(p) \/ Create(p) \/ Write(p) \/ Fsync(p) \/ Read(p)
    \/ CheckDistinct(p) \/ CheckListing(p) \/ CheckFields(p)

Operator == ArchiveConfigs \/ ChangeInputs \/ \E path \in Paths : ReplaceFile(path)

Next ==
    \/ \E p \in Procs :
          \/ \E act \in {"prepare", "verify"} : Start(p, act)
          \/ Step(p) \/ WriteError(p) \/ Kill(p)
    \/ PowerLoss
    \/ Operator

Spec == Init /\ [][Next]_vars

\* The shell runs every command to its end, and the operator does not give up
\* preparing.  Nothing is assumed of faults, of verify runs or of edits.
FairSpec == Spec /\ \A p \in Procs :
    WF_vars(Step(p)) /\ SF_vars(Start(p, "prepare"))

-----------------------------------------------------------------------------
(* Properties.                                                             *)

TypeOK ==
    /\ disk \in [Paths -> Passwords \cup Configs \cup {Nothing, Torn}]
    /\ \A path \in Paths : disk[path] \in Content(path)
    /\ holder \in [Paths -> Procs \cup {Nothing}]
    /\ synced \subseteq Paths
    /\ extra \in BOOLEAN
    /\ template \in Templates
    /\ m1 \in KeyNames \cup {Nothing}
    /\ run \in [Procs -> Process]
    /\ faults \in Nat /\ edits \in Nat
    /\ disturbed \subseteq Procs /\ vouched \subseteq Procs

\* The PASS lines of prepare and verify (lines 217, 289, 437) tell the truth:
\* while nobody removed or replaced what the run looked at, the secrets pair up
\* and are distinct and every config is the rendering of the current inputs,
\* although every check read its file at another moment, next to other runs.
PassMeansReady == Standing # {} => Ready

\* Preparation is idempotent: a run that starts after a PASS that still stands
\* neither refuses the output nor creates a file, whatever runs next to it.
RerunAgrees == \A p \in vouched \ disturbed :
    run[p].stage \notin {"create", "write", "fsync", "failed"}

\* "no file is overwritten": only the run that created the very file at a path writes
\* or removes it, unless a power loss does.  Once the operator has replaced files, a
\* run that created an earlier file at the path may still unlink its successor.
OnlyCreatorTouches == [][
    \A path \in Paths :
        disk[path] # Nothing /\ disk'[path] # disk[path] =>
            \/ edits' # edits
            \/ \A p \in Procs : run[p].stage \in Live => run'[p].stage = "killed"
            \/ \E p \in Procs :
                  /\ run[p].stage \in {"write", "fsync"} /\ run[p].at = path
                  /\ holder[path] = p \/ edits > 0
    ]_vars

\* A handoff never starts life apart from its secret: whenever a run writes a Peer
\* password, the CouchDB file holds the same one, whatever the interleaving, the
\* faults and the edits, unless that very run was disturbed since it began.
NoDriftWritten == [][
    \A o \in Orgs :
        /\ disk'[<<"peer", o>>] \in Passwords
        /\ disk'[<<"peer", o>>] # disk[<<"peer", o>>]
        => \/ disk'[<<"couchdb", o>>] = disk'[<<"peer", o>>]
           \/ edits' # edits
           \/ \E p \in disturbed : run[p].stage = "write" /\ run[p].at = <<"peer", o>>
    ]_vars

\* Every handoff has its secret next to it.
Paired == \A o \in Orgs :
    disk[<<"peer", o>>] \in Passwords => disk[<<"couchdb", o>>] = disk[<<"peer", o>>]

\* A handoff is never left without the secret it was copied from, until the operator
\* replaces one of the two himself.  Kills and I/O errors keep this true
\* when runs do not overlap.  Overlapping runs do not: an fsync error unlinks a
\* secret that another run has copied already.  Nor does a power loss after a
\* kill: the next run trusts a secret that was written and never fsynced.
CrashConsistent == edits = 0 => Paired

\* The output that a later prepare can complete: nothing torn outside a run that
\* still writes it, nothing stale, no handoff without its secret.
Salvageable ==
    /\ m1 # Nothing /\ ~extra
    /\ \A path \in Paths : disk[path] = Torn => holder[path] # Nothing
    /\ \A path \in ConfigPaths : disk[path] \in Configs => disk[path] = <<template, m1>>
    /\ \A o1, o2 \in Orgs :
          disk[<<"couchdb", o1>>] \in Passwords
            /\ disk[<<"couchdb", o1>>] = disk[<<"couchdb", o2>>] => o1 = o2
    /\ Paired
    /\ \A p \in Procs : run[p].stage \in Live => p \notin disturbed

\* Once faults and edits are over, salvageable output is eventually completed by
\* rerunning prepare: losing an O_EXCL race, or an earlier failed run, is no trap.
RerunCompletes ==
    (faults = MaxFaults /\ edits = MaxEdits /\ Salvageable) ~> (Standing # {})

=============================================================================
