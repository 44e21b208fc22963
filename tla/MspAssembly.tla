----------------------------- MODULE MspAssembly -----------------------------
(***************************************************************************)
(* Runs of scripts/assemble-msps.py, `build` and `verify`, over the output *)
(* they share: a NodeOUs config.yaml in each local MSP, one public MSP for *)
(* each organization under public-msps, and the parser probe.              *)
(*                                                                         *)
(* A build reads the pinned inputs, checks all the output that exists      *)
(* (preflight), creates what is missing, and verifies.  There is no lock.  *)
(* A file is created in place (open "x", write, chmod) and nothing unlinks *)
(* it on an error; a public MSP is staged in a temporary directory next to *)
(* the organizations' and renamed into place.  A run can be killed between *)
(* any two steps and any of its calls can fail.  The operator edits the    *)
(* output only while no run is live, and the pinned roots at any time.     *)
(***************************************************************************)
EXTENDS Naturals

CONSTANTS
    Procs,       \* run slots: a slot holds one process at a time
    NLocals,     \* local MSPs that get a config.yaml, visited in order
    NOrgs,       \* ORGS is a dict: organizations are visited in order 1..NOrgs
    NFiles,      \* files of one public MSP
    Roots,       \* values of the pinned roots, as a whole
    Nothing,     \* no file; no usable inputs
    FaultKinds,  \* the faults of an instance, out of "kill" and "error"
    MaxFaults,   \* bound on the number of faults
    MaxEdits     \* bound on operator actions

ASSUME SizeAssumption ==
    NLocals \in Nat \ {0} /\ NOrgs \in Nat \ {0} /\ NFiles \in Nat \ {0}
ASSUME RootsAssumption == Nothing \notin Roots \cup {"good", "torn", "foreign"}

Orgs   == 1..NOrgs
Files  == ({"local"} \X (1..NLocals)) \cup {<<"probe", 1>>}
Places == Files \cup {<<"public", 1>>} \cup ({"org"} \X Orgs)

VARIABLES
    disk,       \* file -> Nothing, "good" (bytes and mode), "torn" or "foreign"
    made,       \* organizations that have a directory under public-msps
    msp,        \* organization -> the roots in its msp, or Nothing, and its number of files
    debris,     \* TRUE when a killed run left its .msp-stage- directory
    pins,       \* the roots that pass every input check, or Nothing
    run,        \* slot -> the process in it
    faults,     \* faults so far
    edits,      \* operator actions so far
    disturbed   \* slots under whose process something was edited or a call failed

vars == <<disk, made, msp, debris, pins, run, faults, edits, disturbed>>

Staging  == {"stage", "rename", "clean"}
Creating == Staging \cup {"open", "write", "mkdir", "temp"}
Live     == Creating \cup {"inputs", "preflight", "build", "verify"}
Stages   == Live \cup {"idle", "passed", "failed", "killed"}

\* One process: where it is, and its memory.  `listed` is preflight's children,
\* `began` is history: what the output was when the process began.
Process == [stage : Stages, act : {"build", "verify"}, at : Places,
            want : Roots \cup {Nothing}, listed : SUBSET Orgs, staged : 0..NFiles,
            began : {"ready", "matching", "differing", "other"}]

New(stage, act, began) ==
    [stage |-> stage, act |-> act, at |-> <<"local", 1>>, want |-> Nothing,
     listed |-> {}, staged |-> 0, began |-> began]

NoMsp          == <<Nothing, 0>>
Finished(root) == <<root, NFiles>>

\* What the PASS line says, read over the whole output at one moment.
Assembled ==
    /\ pins # Nothing
    /\ \A f \in Files : disk[f] = "good"
    /\ \A o \in Orgs : msp[o] = Finished(pins)

\* A name under public-msps that is not an organization's.
StrayName == debris \/ \E p \in Procs : run[p].stage \in Staging

\* Something that is there and is not what a run expects, for good.
Differs ==
    \/ \E f \in Files : disk[f] = "foreign"
    \/ \E o \in Orgs : msp[o] \notin {NoMsp, Finished(pins)}

\* Every file that is there is as expected; any number of them is missing.
Matching == ~Differs /\ \A f \in Files : disk[f] # "torn"

Standing == {q \in Procs : run[q].stage = "passed"} \ disturbed

Init ==
    /\ disk \in [Files -> {Nothing, "good", "foreign"}] /\ disk[<<"probe", 1>>] = Nothing
    /\ made = {} /\ msp = [o \in Orgs |-> NoMsp] /\ debris = FALSE
    /\ pins \in Roots \cup {Nothing}
    /\ run = [p \in Procs |-> New("idle", "build", "other")]
    /\ faults = 0 /\ edits = 0 /\ disturbed = {}

-----------------------------------------------------------------------------
(* The walks.  Preflight and build go locals, public-msps, organizations,  *)
(* probe; verify looks at public-msps first.                               *)

After(place) ==
    CASE place[1] = "local"  -> IF place[2] < NLocals THEN <<"local", place[2] + 1>> ELSE <<"public", 1>>
      [] place[1] = "public" -> <<"org", 1>>
      [] place[1] = "org"    -> IF place[2] < NOrgs THEN <<"org", place[2] + 1>> ELSE <<"probe", 1>>

AfterInVerify(place) ==
    CASE place = <<"public", 1>>      -> <<"local", 1>>
      [] place = <<"local", NLocals>> -> <<"org", 1>>
      [] OTHER                        -> After(place)

Output == <<disk, made, msp, debris>>
Bounds == <<pins, faults, edits, disturbed>>

Finishes(p, stage)    == run' = [run EXCEPT ![p] = New(stage, run[p].act, run[p].began)]
Goes(p, stage)        == run' = [run EXCEPT ![p].stage = stage]
Walks(p, stage, place) == run' = [run EXCEPT ![p].stage = stage, ![p].at = place]

\* What belongs at the process's place is there.
Built(p) == IF run[p].at[1] = "probe" THEN Walks(p, "verify", <<"public", 1>>)
                                      ELSE Walks(p, "build", After(run[p].at))

-----------------------------------------------------------------------------
(* Steps of a process.                                                     *)

Start(p, act) ==
    /\ run[p].stage \notin Live
    /\ LET began == IF Assembled /\ ~StrayName THEN "ready"
                    ELSE IF Differs THEN "differing"
                    ELSE IF Matching THEN "matching" ELSE "other"
       IN  run' = [run EXCEPT ![p] = New("inputs", act, began)]
    /\ disturbed' = disturbed \ {p}
    /\ UNCHANGED <<Output, pins, faults, edits>>

\* pin_roots, inventory and local_configs: refuse, or fix what this run expects.
ReadInputs(p) ==
    /\ run[p].stage = "inputs"
    /\ IF pins = Nothing
       THEN Finishes(p, "failed")
       ELSE run' = [run EXCEPT
                ![p].want = pins,
                ![p].stage = IF run[p].act = "build" THEN "preflight" ELSE "verify",
                ![p].at = IF run[p].act = "build" THEN <<"local", 1>> ELSE <<"public", 1>>]
    /\ UNCHANGED <<Output, Bounds>>

\* Mutant: preflight only looks at the local files.
AcceptsLocal(p) == run[p].at[1] = "local" => disk[run[p].at] \in {Nothing, "good"}

\* What preflight accepts at a place.  It passes over organizations it did not list.
Accepts(p) ==
    LET at == run[p].at IN
    /\ at \in Files => disk[at] \in {Nothing, "good"}
    /\ at[1] = "public" => ~StrayName
    /\ at[1] = "org" /\ at[2] \in run[p].listed => msp[at[2]] = Finished(run[p].want)

Preflight(p) ==
    LET at == run[p].at IN
    /\ run[p].stage = "preflight"
    /\ \/ ~Accepts(p) /\ Finishes(p, "failed")
       \/ Accepts(p) /\ at[1] = "probe" /\ Walks(p, "build", <<"local", 1>>)
       \/ /\ Accepts(p) /\ at[1] # "probe"
          /\ run' = [run EXCEPT
                ![p].at = After(at),
                ![p].listed = IF at[1] = "public" THEN made ELSE run[p].listed]
    /\ UNCHANGED <<Output, Bounds>>

\* Mutant: build does not look for a retained file.
MissingBlind(place) == TRUE

\* path.exists() and orgdir.exists().
Missing(place) ==
    /\ place \in Files => disk[place] = Nothing
    /\ place[1] = "org" => place[2] \notin made

\* PUBLIC.mkdir finds the directory there or makes it: nobody waits on which.
Exists(p) ==
    LET at == run[p].at IN
    /\ run[p].stage = "build"
    /\ IF at[1] # "public" /\ Missing(at)
       THEN Goes(p, IF at[1] = "org" THEN "mkdir" ELSE "open")
       ELSE Built(p)
    /\ UNCHANGED <<Output, Bounds>>

\* Mutant: open "wb" truncates the file it finds.
OpenTruncating(p) ==
    /\ run[p].stage = "open"
    /\ disk' = [disk EXCEPT ![run[p].at] = "torn"] /\ Goes(p, "write")
    /\ UNCHANGED <<made, msp, debris, Bounds>>

\* write_exclusive: open "xb".  The loser of a race fails.
Open(p) ==
    /\ run[p].stage = "open"
    /\ IF disk[run[p].at] = Nothing
       THEN disk' = [disk EXCEPT ![run[p].at] = "torn"] /\ Goes(p, "write")
       ELSE Finishes(p, "failed") /\ UNCHANGED disk
    /\ UNCHANGED <<made, msp, debris, Bounds>>

\* The bytes are written and the file has its mode.
Write(p) ==
    /\ run[p].stage = "write"
    /\ disk' = [disk EXCEPT ![run[p].at] = "good"]
    /\ Built(p)
    /\ UNCHANGED <<made, msp, debris, Bounds>>

\* orgdir.mkdir: the loser of a race fails.
MakeOrg(p) ==
    LET o == run[p].at[2] IN
    /\ run[p].stage = "mkdir"
    /\ IF o \notin made THEN Goes(p, "temp") ELSE Finishes(p, "failed")
    /\ made' = made \cup {o}
    /\ UNCHANGED <<disk, msp, debris, Bounds>>

\* TemporaryDirectory, and the empty msp in it.
MakeTemp(p) ==
    /\ run[p].stage = "temp"
    /\ run' = [run EXCEPT ![p].stage = "stage", ![p].staged = 0]
    /\ UNCHANGED <<Output, Bounds>>

\* Mutants: the last file is left out; one file too many.
StageFileShort(p) ==
    /\ run[p].stage = "stage"
    /\ run' = [run EXCEPT ![p].stage = IF run[p].staged + 2 < NFiles THEN "stage" ELSE "rename",
                          ![p].staged = run[p].staged + 1]
    /\ UNCHANGED <<Output, Bounds>>
StageFileLong(p) ==
    /\ run[p].stage = "stage"
    /\ run' = [run EXCEPT ![p].stage = IF run[p].staged < NFiles THEN "stage" ELSE "rename",
                          ![p].staged = run[p].staged + 1]
    /\ UNCHANGED <<Output, Bounds>>

\* write_exclusive of one file into the staging directory.
StageFile(p) ==
    /\ run[p].stage = "stage"
    /\ run' = [run EXCEPT ![p].stage = IF run[p].staged + 1 < NFiles THEN "stage" ELSE "rename",
                          ![p].staged = run[p].staged + 1]
    /\ UNCHANGED <<Output, Bounds>>

\* os.rename(staging, orgdir / "msp").
Rename(p) ==
    /\ run[p].stage = "rename"
    /\ msp' = [msp EXCEPT ![run[p].at[2]] = <<run[p].want, run[p].staged>>]
    /\ Goes(p, "clean")
    /\ UNCHANGED <<disk, made, debris, Bounds>>

\* Mutant: mkdtemp, and nothing that removes its directory.
RemoveTempNot(p) ==
    /\ run[p].stage = "clean"
    /\ debris' = TRUE /\ Built(p)
    /\ UNCHANGED <<disk, made, msp, Bounds>>

\* The with block ends: the temporary directory is removed.
RemoveTemp(p) ==
    /\ run[p].stage = "clean"
    /\ Built(p)
    /\ UNCHANGED <<Output, Bounds>>

\* Mutant: any finished public MSP will do.
ConfirmsAnyRoot(p) ==
    LET at == run[p].at IN
    /\ at \in Files => disk[at] = "good"
    /\ at[1] = "public" => ~StrayName /\ made = Orgs
    /\ at[1] = "org" => msp[at[2]][2] = NFiles

\* What verify asks for at a place.
Confirms(p) ==
    LET at == run[p].at IN
    /\ at \in Files => disk[at] = "good"
    /\ at[1] = "public" => ~StrayName /\ made = Orgs
    /\ at[1] = "org" => msp[at[2]] = Finished(run[p].want)

Verify(p) ==
    /\ run[p].stage = "verify"
    /\ \/ ~Confirms(p) /\ Finishes(p, "failed")
       \/ Confirms(p) /\ run[p].at[1] = "probe" /\ Finishes(p, "passed")
       \/ /\ Confirms(p) /\ run[p].at[1] # "probe"
          /\ Walks(p, "verify", AfterInVerify(run[p].at))
    /\ UNCHANGED <<Output, Bounds>>

-----------------------------------------------------------------------------
(* Faults and the operator.                                                *)

Fault(kind) == kind \in FaultKinds /\ faults < MaxFaults /\ faults' = faults + 1

\* A call of the build raises OSError: exit 1, and nothing is undone but the
\* temporary directory, unless its removal is what failed.
CallFails(p) ==
    /\ run[p].stage \in Creating /\ Fault("error")
    /\ debris' = (debris \/ run[p].stage = "clean")
    /\ disturbed' = disturbed \cup {p}
    /\ Finishes(p, "failed")
    /\ UNCHANGED <<disk, made, msp, pins, edits>>

Kill(p) ==
    /\ run[p].stage \in Live /\ Fault("kill")
    /\ debris' = (debris \/ run[p].stage \in Staging)
    /\ Finishes(p, "killed")
    /\ UNCHANGED <<disk, made, msp, pins, edits, disturbed>>

Edit == edits < MaxEdits /\ edits' = edits + 1 /\ disturbed' = Procs

\* The operator restores, removes or replaces a piece of output, between runs.
EditOutput ==
    /\ Edit /\ \A p \in Procs : run[p].stage \notin Live
    /\ \/ /\ \E f \in Files, c \in {Nothing, "good", "foreign"} :
                disk[f] # c /\ disk' = [disk EXCEPT ![f] = c]
          /\ UNCHANGED <<made, msp, debris>>
       \/ /\ \E o \in made :
                \/ made' = made \ {o} /\ msp' = [msp EXCEPT ![o] = NoMsp]
                \/ /\ \E root \in Roots : msp' = [msp EXCEPT ![o] = Finished(root)]
                   /\ UNCHANGED made
          /\ UNCHANGED <<disk, debris>>
       \/ debris /\ debris' = FALSE /\ UNCHANGED <<disk, made, msp>>
    /\ UNCHANGED <<pins, run, faults>>

\* The manifests are reviewed again, or roots or identities stop matching them.
ChangePins ==
    /\ Edit
    /\ pins' \in (Roots \cup {Nothing}) \ {pins}
    /\ UNCHANGED <<Output, run, faults>>

-----------------------------------------------------------------------------
Step(p) ==
    \/ ReadInputs(p) \/ Preflight(p) \/ Exists(p) \/ Open(p) \/ Write(p) \/ MakeOrg(p)
    \/ MakeTemp(p) \/ StageFile(p) \/ Rename(p) \/ RemoveTemp(p) \/ Verify(p)

Next ==
    \/ \E p \in Procs :
          \/ \E act \in {"build", "verify"} : Start(p, act)
          \/ Step(p) \/ CallFails(p) \/ Kill(p)
    \/ EditOutput \/ ChangePins

Spec == Init /\ [][Next]_vars

\* A command that the shell has started runs to its end, and builds are repeated.
FairSpec == Spec /\ \A p \in Procs :
    WF_vars(Step(p)) /\ SF_vars(Start(p, "build"))

-----------------------------------------------------------------------------
(* Properties.                                                             *)

TypeOK ==
    /\ disk \in [Files -> {Nothing, "good", "torn", "foreign"}]
    /\ made \subseteq Orgs
    /\ msp \in [Orgs -> (Roots \cup {Nothing}) \X (0..NFiles)]
    /\ debris \in BOOLEAN
    /\ pins \in Roots \cup {Nothing}
    /\ run \in [Procs -> Process]
    /\ faults \in Nat /\ edits \in Nat
    /\ disturbed \subseteq Procs

\* The PASS line (289-290) tells the truth: until the output or the inputs are edited,
\* every local config, every public MSP and the probe are what the pinned inputs give,
\* though verify looked at each at another moment and other builds were writing.
PassMeansAssembled == Standing # {} => Assembled

\* "A repeated build is idempotent": a run that begins over finished output creates
\* nothing and does not fail, whatever runs beside it.
RerunAgrees == \A p \in Procs \ disturbed :
    run[p].began = "ready" => run[p].stage \notin Creating \cup {"failed"}

\* A build that finds a differing file has checked all the others "before writing": it
\* creates nothing at all, neither in the local MSPs nor in the public ones.
FailsClosed == \A p \in Procs \ disturbed :
    run[p].began = "differing" => run[p].stage \notin Creating \cup {"passed"}

\* A public MSP that configtxgen can see is whole, whatever was killed or failed.
PublicComplete == \A o \in Orgs : msp[o] # NoMsp => msp[o] = Finished(msp[o][1])

\* The files and public MSPs as write-once registers, empty until they are whole.
Registers == Files \cup ({"org"} \X Orgs)
Values    == {"good", "foreign"} \cup Roots
reg == [x \in Registers |->
          CASE x \in Files /\ disk[x] # "torn"              -> disk[x]
            [] x[1] = "org" /\ msp[x[2]][2] = NFiles         -> msp[x[2]][1]
            [] OTHER                                         -> Nothing]

Once == INSTANCE WriteOnce WITH Empty <- Nothing, epoch <- edits

\* Builds implement WriteOnce: what is finished, no build changes or removes.
ImplementsWriteOnce == Once!Spec

\* Output that a build can complete: nothing differs and nothing is half made, except
\* by a build that is still at it.
Salvageable ==
    /\ pins # Nothing /\ ~Differs /\ ~debris
    /\ \A f \in Files : disk[f] = "torn" =>
          \E p \in Procs : run[p].stage = "write" /\ run[p].at = f
    /\ \A o \in made : msp[o] = NoMsp =>
          \E p \in Procs : /\ run[p].stage \in {"temp", "stage", "rename"}
                           /\ run[p].at = <<"org", o>>
    /\ \A p \in Procs : run[p].stage \in Live => p \notin disturbed

\* Once faults and edits are over, repeated builds complete salvageable output: builds
\* that overlap and fail on each other's temporary directories and half-made files
\* leave nothing behind that stops the next one.
RepeatedBuildCompletes ==
    (faults = MaxFaults /\ edits = MaxEdits /\ Salvageable) ~> (Standing # {})

\* "`build` creates missing files exclusively and verifies matching existing files":
\* a build that runs alone over matching and missing files does not refuse them.
MissingFilesCreated == \A p \in Procs \ disturbed :
    run[p].act = "build" /\ run[p].began = "matching" /\ pins # Nothing
        => run[p].stage # "failed"

\* Of that sentence remains: as long as nothing was killed or failed and only one slot was
\* ever used, a build over matching and missing files ends by making the missing ones.
Alone(p) == faults = 0 /\ \A q \in Procs \ {p} : run[q].stage = "idle"
CompletesAlone == \A p \in Procs \ disturbed :
    Alone(p) /\ run[p].act = "build" /\ run[p].began = "matching" /\ pins # Nothing
        => run[p].stage # "failed"

=============================================================================
