----------------------------- MODULE VolumeReset -----------------------------
(***************************************************************************)
(* Runs of scripts/reset.sh next to each other, to `docker compose up` and *)
(* to an operator at the Docker command line.  A run takes a snapshot of   *)
(* the Compose model and of the volume names, selects the volumes whose    *)
(* labels match their row, prints them, and when it is confirmed takes the *)
(* project down and removes them one by one, each after another look at    *)
(* two of its three labels.                                                *)
(***************************************************************************)
EXTENDS Naturals

CONSTANTS
    Procs,      \* run slots: a slot holds one process at a time
    NVols,      \* volumes of the Compose model, in the order jq prints them
    MaxFaults,  \* bound on the number of killed runs
    MaxEdits    \* bound on what the operator and `compose up` do

ASSUME ResetAssumption == NVols \in Nat \ {0}

Vols == 1..NVols

\* A row of the model: a reset target, an external volume, or one that reset refuses
\* (backup-like, not marked, or badly named).
Rows == {"allow", "external", "refused"}

\* A volume: missing, with all three labels, with another logical label only, or with
\* a project or reset label that is not this project's.
Volume == {"none", "ours", "kin", "stranger"}

VARIABLES
    declared,   \* volume -> its row in the checkout's Compose model
    vol,        \* volume -> what Docker has under that name
    held,       \* volumes that a container outside the project uses
    up,         \* TRUE while the project's containers exist
    locked,     \* TRUE when the local tools image is the locked one
    run,        \* slot -> the process in it
    faults,     \* killed runs so far
    edits,      \* operator actions so far
    disturbed,  \* slots under whose process an edit took place
    late        \* slots whose process was about to remove a volume at an edit

vars == <<declared, vol, held, up, locked, run, faults, edits, disturbed, late>>
Docker == <<declared, vol, held, up, locked>>
Bounds == <<faults, edits, disturbed, late>>

Live    == {"tools", "snapshot", "select", "confirm", "down", "recheck", "rm"}
Stages  == Live \cup {"idle", "notrun", "complete", "failed", "killed"}
Process == [stage : Stages, confirmed : BOOLEAN, rows : [Vols -> Rows],
            existing : SUBSET Vols, at : 1..NVols + 1, targets : SUBSET Vols]

Init ==
    /\ declared \in [Vols -> Rows] /\ vol \in [Vols -> Volume]
    /\ held = {} /\ up \in BOOLEAN /\ locked \in BOOLEAN
    /\ run = [p \in Procs |-> [stage |-> "idle", confirmed |-> FALSE, rows |-> declared,
                               existing |-> {}, at |-> 1, targets |-> {}]]
    /\ faults = 0 /\ edits = 0 /\ disturbed = {} /\ late = {}

-----------------------------------------------------------------------------
Goes(p, stage)     == run' = [run EXCEPT ![p].stage = stage]
Walks(p, stage, v) == run' = [run EXCEPT ![p].stage = stage, ![p].at = v]

Start(p, confirmed) ==
    /\ run[p].stage \notin Live
    /\ run' = [run EXCEPT ![p].stage = "tools", ![p].confirmed = confirmed,
                          ![p].existing = {}, ![p].at = 1, ![p].targets = {}]
    /\ disturbed' = disturbed \ {p} /\ late' = late \ {p}
    /\ UNCHANGED <<Docker, faults, edits>>

\* The image check, and `docker compose config`.
ReadModel(p) ==
    /\ run[p].stage = "tools"
    /\ IF locked THEN run' = [run EXCEPT ![p].stage = "snapshot", ![p].rows = declared]
                 ELSE Goes(p, "failed")
    /\ UNCHANGED <<Docker, Bounds>>

\* docker volume ls
Snapshot(p) ==
    /\ run[p].stage = "snapshot"
    /\ run' = [run EXCEPT ![p].stage = "select", ![p].existing = {v \in Vols : vol[v] # "none"}]
    /\ UNCHANGED <<Docker, Bounds>>

\* Mutant: the logical label is not compared.
AllLabelsMatchKin(v) == vol[v] \in {"ours", "kin"}

AllLabelsMatch(v) == vol[v] = "ours"

\* The pipeline reports the name of the row; then its three labels are looked at.  An inspect
\* of a volume that is gone by now fails under set -e.
Match(p) ==
    LET v == run[p].at IN
    /\ run[p].stage = "select" /\ v \in run[p].existing /\ run[p].rows[v] = "allow"
    /\ IF AllLabelsMatch(v)
       THEN run' = [run EXCEPT ![p].targets = run[p].targets \cup {v}, ![p].at = v + 1]
       ELSE Goes(p, "failed")
    /\ UNCHANGED <<Docker, Bounds>>

\* One row of the selection loop.  `printf ... | grep -Fqx` runs under pipefail, and printf
\* writes name by name: when grep -q leaves at the match before the next name is written,
\* printf gets a SIGPIPE and the pipeline fails as if the name were not listed.  Any volume
\* of the host may follow in the list, so that may happen to every name.
Select(p) ==
    LET v == run[p].at
        row == run[p].rows[v]
    IN
    \/ Match(p)
    \/ /\ run[p].stage = "select" /\ v \in Vols
       /\ \/ row = "refused" /\ Goes(p, "failed")
          \/ row \in {"external", "allow"} /\ Walks(p, "select", v + 1)
       /\ UNCHANGED <<Docker, Bounds>>

\* The list is printed.  CONFIRM_DESTROY decides.
Confirm(p) ==
    /\ run[p].stage = "select" /\ run[p].at \notin Vols
    /\ Goes(p, IF run[p].confirmed THEN "down" ELSE "notrun")
    /\ UNCHANGED <<Docker, Bounds>>

\* Mutant: the loop begins at the second volume.
DownLate(p) ==
    /\ run[p].stage = "down"
    /\ up' = FALSE /\ Walks(p, "recheck", 2)
    /\ UNCHANGED <<declared, vol, held, locked, Bounds>>

\* docker compose down: the volumes stay.
Down(p) ==
    /\ run[p].stage = "down"
    /\ up' = FALSE /\ Walks(p, "recheck", 1)
    /\ UNCHANGED <<declared, vol, held, locked, Bounds>>

\* The deletion loop: project and reset labels once more, then docker volume rm.
Recheck(p) ==
    LET v == run[p].at IN
    /\ run[p].stage = "recheck"
    /\ \/ v \notin Vols /\ Goes(p, "complete")
       \/ v \in Vols \ run[p].targets /\ Walks(p, "recheck", v + 1)
       \/ v \in run[p].targets /\ Goes(p, IF vol[v] \in {"ours", "kin"} THEN "rm" ELSE "failed")
    /\ UNCHANGED <<Docker, Bounds>>

\* Mutant: the volume after a removed one is passed over.
RemoveSkipping(p) ==
    LET v == run[p].at IN
    /\ run[p].stage = "rm"
    /\ IF vol[v] # "none" /\ v \notin held /\ ~up
       THEN vol' = [vol EXCEPT ![v] = "none"] /\ Walks(p, "recheck", v + 2)
       ELSE Goes(p, "failed") /\ UNCHANGED vol
    /\ UNCHANGED <<declared, held, up, locked, Bounds>>

\* Docker refuses to remove a volume that is gone or that a container uses.
Remove(p) ==
    LET v == run[p].at IN
    /\ run[p].stage = "rm"
    /\ IF vol[v] # "none" /\ v \notin held /\ ~up
       THEN vol' = [vol EXCEPT ![v] = "none"] /\ Walks(p, "recheck", v + 1)
       ELSE Goes(p, "failed") /\ UNCHANGED vol
    /\ UNCHANGED <<declared, held, up, locked, Bounds>>

-----------------------------------------------------------------------------
Kill(p) ==
    /\ run[p].stage \in Live /\ faults < MaxFaults /\ faults' = faults + 1
    /\ Goes(p, "killed")
    /\ UNCHANGED <<Docker, edits, disturbed, late>>

Edit ==
    /\ edits < MaxEdits /\ edits' = edits + 1
    /\ disturbed' = Procs
    /\ late' = late \cup {p \in Procs : run[p].stage = "rm"}
    /\ UNCHANGED <<run, faults>>

\* docker compose up creates the volumes that are missing.
ComposeUp ==
    /\ Edit /\ up' = TRUE
    /\ vol' = [v \in Vols |-> IF vol[v] = "none" /\ declared[v] # "external" THEN "ours" ELSE vol[v]]
    /\ UNCHANGED <<declared, held, locked>>

\* The operator removes a volume, restores one, or makes another under its name.
Swap(v) ==
    /\ Edit /\ ~up /\ v \notin held
    /\ \E c \in Volume \ {vol[v]} : vol' = [vol EXCEPT ![v] = c]
    /\ UNCHANGED <<declared, held, up, locked>>

\* A container of the operator's begins or ceases to use a volume; another commit is
\* checked out; the tools image is rebuilt.
ChangeHost ==
    /\ Edit
    /\ \/ \E v \in Vols : /\ vol[v] # "none"
                          /\ held' = IF v \in held THEN held \ {v} ELSE held \cup {v}
                          /\ UNCHANGED <<declared, locked>>
       \/ \E v \in Vols, row \in Rows : /\ declared' = [declared EXCEPT ![v] = row]
                                        /\ UNCHANGED <<held, locked>>
       \/ locked' = ~locked /\ UNCHANGED <<held, declared>>
    /\ UNCHANGED <<vol, up>>

Step(p) == ReadModel(p) \/ Snapshot(p) \/ Select(p) \/ Confirm(p) \/ Down(p) \/ Recheck(p) \/ Remove(p)

Next ==
    \/ \E p \in Procs : Step(p) \/ Kill(p) \/ \E confirmed \in BOOLEAN : Start(p, confirmed)
    \/ ComposeUp \/ ChangeHost \/ \E v \in Vols : Swap(v)

Spec == Init /\ [][Next]_vars

\* The shell runs a command to its end, the operator repeats a confirmed reset, and grep -q
\* does not always leave too early: of the confirmed runs that look for a volume which is
\* there, again and again, some find it.
FairSpec ==
    /\ Spec /\ \A p \in Procs : WF_vars(Step(p)) /\ SF_vars(Start(p, TRUE))
    /\ \A v \in Vols : SF_vars(\E p \in Procs : run[p].confirmed /\ run[p].at = v /\ Match(p))

-----------------------------------------------------------------------------
TypeOK ==
    /\ declared \in [Vols -> Rows] /\ vol \in [Vols -> Volume] /\ held \subseteq Vols
    /\ up \in BOOLEAN /\ locked \in BOOLEAN
    /\ run \in [Procs -> Process]
    /\ faults \in Nat /\ edits \in Nat /\ disturbed \subseteq Procs /\ late \subseteq Procs

\* "It deletes only explicitly reset-enabled project data volumes": an undisturbed run
\* removes nothing but volumes with all three labels, next to other runs too.  When a
\* volume was made anew since, the run may remove one with another logical label,
\* and a stranger only when it came between the last look and docker volume rm.
OnlyMarkedDeleted == [][
    \A v \in Vols : vol[v] # "none" /\ vol'[v] = "none" /\ edits' = edits =>
        \E p \in Procs :
            /\ run[p].stage = "rm" /\ run[p].at = v /\ run[p].rows[v] = "allow"
            /\ vol[v] = "ours" \/ (vol[v] = "kin" /\ p \in disturbed) \/ p \in late
    ]_vars

\* "Reset complete for the exact listed volumes" (line 103): what the run listed is gone,
\* until somebody makes it anew, though other runs remove the same volumes.
CompleteMeansGone == \A p \in Procs \ disturbed :
    run[p].stage = "complete" => \A v \in run[p].targets : vol[v] = "none"

\* Once kills and edits are over, repeated resets remove every reset target when no
\* row is refused, no label differs and nothing outside the project holds a volume:
\* runs that stop halfway, on each other, or before the whole list, do not stop the next one.
ResetConverges ==
    ( /\ faults = MaxFaults /\ edits = MaxEdits /\ locked /\ held = {}
      /\ \A v \in Vols : declared[v] # "refused" /\ (declared[v] = "allow" => vol[v] \in {"none", "ours"})
      /\ \A p \in Procs : run[p].stage \in Live => p \notin disturbed )
    ~> (\A v \in Vols : declared[v] = "allow" => vol[v] = "none")

\* "`make reset` prints the exact existing Compose named volumes selected for deletion":
\* the list that is printed has every existing volume of a reset-enabled row.
ListIsExact == \A p \in Procs :
    run[p].stage \in {"notrun", "down", "recheck", "rm", "complete"} =>
        run[p].targets = {v \in run[p].existing : run[p].rows[v] = "allow"}

=============================================================================
