-------------------------- MODULE VolumeResetProofs --------------------------
(***************************************************************************)
(* Proofs about VolumeReset for any number of slots and volumes, whatever  *)
(* names the list misses, and for any number of kills and edits.           *)
(***************************************************************************)
EXTENDS VolumeReset, TLAPS

\* What a slot knows.  Nothing is listed before the snapshot, and nothing but rows that are
\* to be reset; a removal was looked at; and until an edit, what was listed is as it was
\* selected, or gone when the loop has passed it.
Knows(p) ==
    /\ run[p].stage \in {"tools", "snapshot"} => run[p].targets = {}
    /\ \A v \in run[p].targets : run[p].rows[v] = "allow"
    /\ run[p].stage = "rm" => run[p].at \in run[p].targets
    /\ run[p].stage = "rm" /\ p \notin late => vol[run[p].at] # "stranger"
    /\ p \notin disturbed => \A v \in run[p].targets : vol[v] \in {"ours", "none"}
    /\ p \notin disturbed /\ run[p].stage \in {"recheck", "rm", "complete"} =>
          \A v \in run[p].targets : v < run[p].at => vol[v] = "none"
    /\ run[p].stage = "complete" => run[p].at \notin Vols

IInv == TypeOK /\ \A p \in Procs : Knows(p)

LEMMA InitInvariant == Init => IInv
BY ResetAssumption DEF Init, IInv, TypeOK, Knows, Process, Stages, Live, Vols

-----------------------------------------------------------------------------
(* A slot's own steps keep what it knows, and the other slots' knowledge:  *)
(* without an edit volumes only go.                                        *)

\* A step of one slot without an edit.
Quiet(p) ==
    /\ run' \in [Procs -> Process]
    /\ \A q \in Procs \ {p} : run'[q] = run[q]
    /\ declared' \in [Vols -> Rows] /\ held' \subseteq Vols /\ up' \in BOOLEAN /\ locked' \in BOOLEAN
    /\ vol' \in [Vols -> Volume] /\ \A v \in Vols : vol'[v] \in {vol[v], "none"}
    /\ faults' \in Nat /\ edits' \in Nat
    /\ \/ disturbed' = disturbed /\ late' = late
       \/ disturbed' = disturbed \ {p} /\ late' = late \ {p}

\* The process in a slot becomes r.
LEMMA Becomes == ASSUME TypeOK, NEW p \in Procs, NEW r \in Process, run' = [run EXCEPT ![p] = r]
                 PROVE  /\ run' \in [Procs -> Process] /\ run'[p] = r
                        /\ \A q \in Procs \ {p} : run'[q] = run[q]
BY DEF TypeOK

\* It goes to another stage, with the same rows and lists.
LEMMA Going == ASSUME TypeOK, NEW p \in Procs, NEW stage \in Stages, Goes(p, stage)
               PROVE  /\ run' \in [Procs -> Process]
                      /\ \A q \in Procs \ {p} : run'[q] = run[q]
                      /\ run'[p].stage = stage /\ run'[p].rows = run[p].rows
                      /\ run'[p].targets = run[p].targets /\ run'[p].at = run[p].at
<1>. DEFINE r == [run[p] EXCEPT !.stage = stage]
<1>1. r \in Process
  BY DEF TypeOK, Process
<1>2. run' = [run EXCEPT ![p] = r]
  BY DEF Goes, TypeOK
<1>. QED  BY <1>1, <1>2, Becomes DEF TypeOK, Process

\* It goes to a volume.
LEMMA Walking == ASSUME TypeOK, NEW p \in Procs, NEW stage \in Stages, NEW v \in 1..NVols + 1,
                        Walks(p, stage, v)
                 PROVE  /\ run' \in [Procs -> Process]
                        /\ \A q \in Procs \ {p} : run'[q] = run[q]
                        /\ run'[p].stage = stage /\ run'[p].rows = run[p].rows
                        /\ run'[p].targets = run[p].targets /\ run'[p].at = v
<1>. DEFINE r == [run[p] EXCEPT !.stage = stage, !.at = v]
<1>1. r \in Process
  BY DEF TypeOK, Process
<1>2. run' = [run EXCEPT ![p] = r]
  BY DEF Walks, TypeOK
<1>. QED  BY <1>1, <1>2, Becomes DEF TypeOK, Process

LEMMA QuietKeeps == ASSUME IInv, NEW p \in Procs, Quiet(p), Knows(p)' PROVE IInv'
<1>1. TypeOK'
  BY DEF IInv, TypeOK, Quiet
<1>2. ASSUME NEW q \in Procs \ {p} PROVE Knows(q)'
  <2>1. run'[q] = run[q] /\ (q \in disturbed' <=> q \in disturbed) /\ (q \in late' <=> q \in late)
    BY DEF Quiet
  <2>2. run[q].targets \subseteq Vols /\ run[q].at \in Nat /\ run[q] \in Process
    BY DEF IInv, TypeOK, Process, Vols
  <2>3. Knows(q) /\ \A v \in Vols : vol'[v] \in {vol[v], "none"}
    BY DEF IInv, Quiet
  <2>4. run[q].stage = "rm" => run[q].at \in Vols
    BY <2>2, <2>3 DEF Knows
  <2>. QED  BY <2>1, <2>2, <2>3, <2>4 DEF Knows
<1>. QED  BY <1>1, <1>2 DEF IInv

\* One step of the script.
LEMMA ReadModelKeeps == ASSUME IInv, NEW p \in Procs, ReadModel(p) PROVE IInv'
<1>1. CASE locked
  <2>. DEFINE r == [run[p] EXCEPT !.stage = "snapshot", !.rows = declared]
  <2>1. r \in Process
    BY DEF IInv, TypeOK, Process, Stages, Live
  <2>2. run' = [run EXCEPT ![p] = r]
    BY <1>1 DEF ReadModel, IInv, TypeOK
  <2>3. r.stage = "snapshot" /\ r.targets = {}
    BY DEF ReadModel, IInv, TypeOK, Knows, Process
  <2>4. Quiet(p) /\ Knows(p)'
    BY <2>1, <2>2, <2>3, Becomes DEF ReadModel, Docker, Bounds, Quiet, IInv, TypeOK, Knows
  <2>. QED  BY <2>4, QuietKeeps
<1>2. CASE ~locked
  <2>1. Quiet(p) /\ Knows(p)'
    BY <1>2, Going DEF ReadModel, Docker, Bounds, Quiet, IInv, TypeOK, Knows, Stages
  <2>. QED  BY <2>1, QuietKeeps
<1>. QED  BY <1>1, <1>2

LEMMA SnapshotKeeps == ASSUME IInv, NEW p \in Procs, Snapshot(p) PROVE IInv'
<1>. DEFINE r == [run[p] EXCEPT !.stage = "select", !.existing = {v \in Vols : vol[v] # "none"}]
<1>1. r \in Process
  BY DEF IInv, TypeOK, Process, Stages, Live
<1>2. run' = [run EXCEPT ![p] = r]
  BY DEF Snapshot, IInv, TypeOK
<1>3. r.stage = "select" /\ r.targets = {}
  BY DEF Snapshot, IInv, TypeOK, Knows, Process
<1>4. run' \in [Procs -> Process] /\ run'[p] = r /\ \A q \in Procs \ {p} : run'[q] = run[q]
  BY <1>1, <1>2, Becomes DEF IInv
<1>5. Quiet(p)
  BY <1>4 DEF Snapshot, Docker, Bounds, Quiet, IInv, TypeOK
<1>6. Knows(p)'
  BY <1>3, <1>4 DEF Knows
<1>. QED  BY <1>5, <1>6, QuietKeeps

LEMMA SelectKeeps == ASSUME IInv, NEW p \in Procs, Select(p) PROVE IInv'
<1>. DEFINE v == run[p].at
            r == [run[p] EXCEPT !.targets = run[p].targets \cup {v}, !.at = v + 1]
<1>1. v \in 1..NVols /\ v + 1 \in 1..NVols + 1
  BY ResetAssumption DEF Select, Match, IInv, TypeOK, Process, Vols
<1>2. CASE Goes(p, "failed")
  <2>1. Quiet(p) /\ Knows(p)'
    BY <1>2, Going DEF Select, Match, Docker, Bounds, Quiet, IInv, TypeOK, Knows, Stages
  <2>. QED  BY <2>1, QuietKeeps
<1>3. CASE Walks(p, "select", v + 1)
  <2>1. Quiet(p) /\ Knows(p)'
    BY <1>1, <1>3, Walking DEF Select, Match, Docker, Bounds, Quiet, IInv, TypeOK, Knows, Stages, Live
  <2>. QED  BY <2>1, QuietKeeps
<1>4. CASE run[p].rows[v] = "allow" /\ vol[v] = "ours" /\ run' = [run EXCEPT ![p] = r]
  <2>1. r \in Process
    BY <1>1 DEF IInv, TypeOK, Process, Vols
  <2>2. /\ r.stage = "select" /\ r.rows = run[p].rows
        /\ r.targets = run[p].targets \cup {v}
    BY DEF Select, Match, IInv, TypeOK, Process
  <2>3. Quiet(p)
    BY <1>4, <2>1, Becomes DEF Select, Match, Docker, Bounds, Quiet, IInv, TypeOK
  <2>4. Knows(p)'
    BY <1>4, <2>1, <2>2, Becomes DEF Select, Match, Docker, Bounds, IInv, Knows
  <2>. QED  BY <2>3, <2>4, QuietKeeps
<1>. QED  BY <1>2, <1>3, <1>4 DEF Select, Match, AllLabelsMatch, IInv, TypeOK

LEMMA ConfirmKeeps == ASSUME IInv, NEW p \in Procs, Confirm(p) PROVE IInv'
<1>1. PICK stage \in {"down", "notrun"} : Goes(p, stage)
  BY DEF Confirm
<1>2. Quiet(p) /\ Knows(p)'
  BY <1>1, Going DEF Confirm, Docker, Bounds, Quiet, IInv, TypeOK, Knows, Stages, Live
<1>. QED  BY <1>2, QuietKeeps

LEMMA DownKeeps == ASSUME IInv, NEW p \in Procs, Down(p) PROVE IInv'
<1>1. 1 \in 1..NVols + 1 /\ "recheck" \in Stages
  BY ResetAssumption DEF Stages, Live
<1>2. /\ run' \in [Procs -> Process]
      /\ \A q \in Procs \ {p} : run'[q] = run[q]
      /\ run'[p].stage = "recheck" /\ run'[p].rows = run[p].rows
      /\ run'[p].targets = run[p].targets /\ run'[p].at = 1
  BY <1>1, Walking DEF Down, IInv
<1>3. Quiet(p)
  BY <1>2 DEF Down, Bounds, Quiet, IInv, TypeOK
<1>4. \A v \in run[p].targets : v \in Nat /\ ~(v < 1)
  BY DEF IInv, TypeOK, Process, Vols
<1>5. Knows(p)'
  BY <1>2, <1>4 DEF Down, Bounds, IInv, Knows
<1>. QED  BY <1>3, <1>5, QuietKeeps

LEMMA RecheckKeeps == ASSUME IInv, NEW p \in Procs, Recheck(p) PROVE IInv'
<1>. DEFINE v == run[p].at
<1>0. /\ v \in 1..NVols + 1 /\ run[p].targets \subseteq 1..NVols /\ NVols \in Nat
      /\ run[p].stage = "recheck" /\ Knows(p) /\ v \in Nat
  BY ResetAssumption DEF Recheck, IInv, TypeOK, Process, Vols
<1>1. CASE Goes(p, "complete") /\ v \notin Vols
  <2>1. Quiet(p) /\ Knows(p)'
    BY <1>0, <1>1, Going DEF Recheck, Docker, Bounds, Quiet, IInv, TypeOK, Knows, Stages
  <2>. QED  BY <2>1, QuietKeeps
<1>2. CASE Walks(p, "recheck", v + 1) /\ v \in Vols \ run[p].targets
  <2>1. v + 1 \in 1..NVols + 1
    BY <1>0, <1>2 DEF Vols
  <2>2. /\ run' \in [Procs -> Process]
        /\ \A q \in Procs \ {p} : run'[q] = run[q]
        /\ run'[p].stage = "recheck" /\ run'[p].rows = run[p].rows
        /\ run'[p].targets = run[p].targets /\ run'[p].at = v + 1
    BY <1>2, <2>1, Walking DEF IInv, Stages, Live
  <2>3. \A w \in run[p].targets : w < v + 1 => w < v
    BY <1>0, <1>2
  <2>4. Quiet(p)
    BY <2>2 DEF Recheck, Docker, Bounds, Quiet, IInv, TypeOK
  <2>5. Knows(p)'
    BY <1>0, <2>2, <2>3 DEF Recheck, Docker, Bounds, Knows
  <2>. QED  BY <2>4, <2>5, QuietKeeps
<1>3. CASE Goes(p, "rm") /\ v \in run[p].targets /\ vol[v] \in {"ours", "kin"}
  <2>1. Quiet(p) /\ Knows(p)'
    BY <1>0, <1>3, Going DEF Recheck, Docker, Bounds, Quiet, IInv, TypeOK, Knows, Stages, Live
  <2>. QED  BY <2>1, QuietKeeps
<1>4. CASE Goes(p, "failed")
  <2>1. Quiet(p) /\ Knows(p)'
    BY <1>0, <1>4, Going DEF Recheck, Docker, Bounds, Quiet, IInv, TypeOK, Knows, Stages
  <2>. QED  BY <2>1, QuietKeeps
<1>. QED  BY <1>1, <1>2, <1>3, <1>4 DEF Recheck

LEMMA RemoveKeeps == ASSUME IInv, NEW p \in Procs, Remove(p) PROVE IInv'
<1>. DEFINE v == run[p].at
<1>1. /\ run[p].targets \subseteq 1..NVols /\ NVols \in Nat /\ v \in 1..NVols
      /\ run[p].stage = "rm" /\ Knows(p)
  BY ResetAssumption DEF Remove, IInv, TypeOK, Process, Vols, Knows
<1>2. CASE Goes(p, "failed") /\ UNCHANGED vol
  <2>1. Quiet(p) /\ Knows(p)'
    BY <1>1, <1>2, Going DEF Remove, Bounds, Quiet, IInv, TypeOK, Knows, Stages
  <2>. QED  BY <2>1, QuietKeeps
<1>3. CASE vol' = [vol EXCEPT ![v] = "none"] /\ Walks(p, "recheck", v + 1)
  <2>1. v + 1 \in 1..NVols + 1
    BY <1>1
  <2>2. /\ run' \in [Procs -> Process]
        /\ \A q \in Procs \ {p} : run'[q] = run[q]
        /\ run'[p].stage = "recheck" /\ run'[p].rows = run[p].rows
        /\ run'[p].targets = run[p].targets /\ run'[p].at = v + 1
    BY <1>3, <2>1, Walking DEF IInv, Stages, Live
  <2>3. \A w \in run[p].targets : w < v + 1 => w < v \/ w = v
    BY <1>1
  <2>4. /\ vol' \in [Vols -> Volume] /\ vol'[v] = "none"
        /\ \A w \in Vols : vol'[w] \in {vol[w], "none"}
    BY <1>1, <1>3 DEF IInv, TypeOK, Volume, Vols
  <2>5. Quiet(p)
    BY <2>2, <2>4 DEF Remove, Bounds, Quiet, IInv, TypeOK
  <2>6. Knows(p)'
    BY <1>1, <2>2, <2>3, <2>4 DEF Remove, Bounds, Knows, Vols
  <2>. QED  BY <2>5, <2>6, QuietKeeps
<1>. QED  BY <1>2, <1>3 DEF Remove

\* A start and a kill.
LEMMA StartKeeps == ASSUME IInv, NEW p \in Procs, NEW c \in BOOLEAN, Start(p, c) PROVE IInv'
<1>. DEFINE r == [run[p] EXCEPT !.stage = "tools", !.confirmed = c, !.existing = {}, !.at = 1,
                                !.targets = {}]
<1>1. r \in Process
  <2>1. "tools" \in Stages /\ {} \in SUBSET Vols /\ 1 \in 1..NVols + 1
    BY ResetAssumption DEF Stages, Live
  <2>. QED  BY <2>1 DEF IInv, TypeOK, Process
<1>2. run' = [run EXCEPT ![p] = r]
  BY DEF Start, IInv, TypeOK
<1>3. r.stage = "tools" /\ r.targets = {}
  BY DEF IInv, TypeOK, Process
<1>4. Quiet(p) /\ Knows(p)'
  BY <1>1, <1>2, <1>3, Becomes DEF Start, Docker, Quiet, IInv, TypeOK, Knows
<1>. QED  BY <1>4, QuietKeeps

LEMMA KillKeeps == ASSUME IInv, NEW p \in Procs, Kill(p) PROVE IInv'
<1>1. Quiet(p) /\ Knows(p)'
  BY Going DEF Kill, Docker, Quiet, IInv, TypeOK, Knows, Stages
<1>. QED  BY <1>1, QuietKeeps

\* An edit leaves the state typed.
LEMMA EditTyped == ASSUME TypeOK, ComposeUp \/ ChangeHost \/ \E v \in Vols : Swap(v) PROVE TypeOK'
<1>1. /\ run' = run /\ faults' = faults /\ edits' = edits + 1 /\ disturbed' = Procs
      /\ late' \subseteq Procs
  BY DEF ComposeUp, ChangeHost, Swap, Edit, TypeOK
<1>2. edits' \in Nat
  BY <1>1 DEF TypeOK
<1>3. CASE ComposeUp
  BY <1>1, <1>2, <1>3 DEF ComposeUp, TypeOK, Volume
<1>4. CASE ChangeHost
  BY <1>1, <1>2, <1>4 DEF ChangeHost, TypeOK
<1>5. CASE \E v \in Vols : Swap(v)
  BY <1>1, <1>2, <1>5 DEF Swap, TypeOK
<1>. QED  BY <1>3, <1>4, <1>5

\* An edit disturbs every slot, and is late for those at docker volume rm.
LEMMA EditKeeps == ASSUME IInv, ComposeUp \/ ChangeHost \/ \E v \in Vols : Swap(v) PROVE IInv'
<1>1. Edit
  BY DEF ComposeUp, ChangeHost, Swap
<1>2. TypeOK'
  BY EditTyped DEF IInv
<1>3. ASSUME NEW p \in Procs PROVE Knows(p)'
  BY <1>1, <1>2 DEF Edit, IInv, Knows
<1>. QED  BY <1>2, <1>3 DEF IInv

LEMMA StepInvariant == IInv /\ [Next]_vars => IInv'
<1>1. ASSUME IInv, UNCHANGED vars PROVE IInv'
  BY <1>1 DEF vars, IInv, TypeOK, Knows
<1>2. ASSUME IInv, Next PROVE IInv'
  BY <1>2, ReadModelKeeps, SnapshotKeeps, SelectKeeps, ConfirmKeeps, DownKeeps, RecheckKeeps,
     RemoveKeeps, StartKeeps, KillKeeps, EditKeeps DEF Next, Step
<1>. QED  BY <1>1, <1>2

LEMMA Invariance == Spec => []IInv
BY InitInvariant, StepInvariant, PTL DEF Spec

-----------------------------------------------------------------------------
\* The state of the resets stays well typed.
THEOREM TypeCorrect == Spec => []TypeOK
<1>1. IInv => TypeOK
  BY DEF IInv
<1>. QED  BY <1>1, Invariance, PTL

\* After "Reset complete" every listed volume is gone until somebody makes it anew.
THEOREM CompleteIsGone == Spec => []CompleteMeansGone
<1>1. IInv => CompleteMeansGone
  <2>. SUFFICES ASSUME IInv, NEW p \in Procs \ disturbed, run[p].stage = "complete",
                       NEW v \in run[p].targets
                PROVE  vol[v] = "none"
    BY DEF CompleteMeansGone
  <2>1. run[p].at \in 1..NVols + 1 /\ run[p].at \notin 1..NVols /\ v \in 1..NVols
    BY DEF IInv, TypeOK, Knows, Process, Vols
  <2>2. v < run[p].at
    BY <2>1, ResetAssumption
  <2>. QED  BY <2>2 DEF IInv, Knows
<1>. QED  BY <1>1, Invariance, PTL

\* Without an edit in the same step, only a volume with the labels of a reset target goes.
THEOREM DeletesOnlyMarked == Spec => OnlyMarkedDeleted
<1>. DEFINE Marked == \A v \in Vols : vol[v] # "none" /\ vol'[v] = "none" /\ edits' = edits =>
        \E p \in Procs :
            /\ run[p].stage = "rm" /\ run[p].at = v /\ run[p].rows[v] = "allow"
            /\ vol[v] = "ours" \/ (vol[v] = "kin" /\ p \in disturbed) \/ p \in late
<1>1. IInv /\ [Next]_vars => [Marked]_vars
  <2>. SUFFICES ASSUME IInv, Next, NEW v \in Vols, vol[v] # "none", vol'[v] = "none", edits' = edits
                PROVE  \E p \in Procs :
                          /\ run[p].stage = "rm" /\ run[p].at = v /\ run[p].rows[v] = "allow"
                          /\ vol[v] = "ours" \/ (vol[v] = "kin" /\ p \in disturbed) \/ p \in late
    OBVIOUS
  <2>1. PICK p \in Procs : Remove(p)
    <3>1. ~Edit /\ vol' # vol
      BY DEF Edit, IInv, TypeOK
    <3>. QED  BY <3>1 DEF Next, Step, ReadModel, Snapshot, Select, Match, Confirm, Down, Recheck, Kill,
                 Start, ComposeUp, ChangeHost, Swap, Docker
  <2>2. run[p].stage = "rm" /\ run[p].at = v
    BY <2>1 DEF Remove, IInv, TypeOK
  <2>3. vol[v] \in Volume /\ Knows(p)
    BY DEF IInv, TypeOK
  <2>. QED  BY <2>2, <2>3 DEF Knows, Volume
<1>. QED  BY <1>1, Invariance, PTL DEF Spec, OnlyMarkedDeleted

=============================================================================
