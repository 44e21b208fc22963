# A verification of supplyledger-lab

supplyledger-lab is a local Hyperledger Fabric network that is run by hand: the
repository holds scripts that prepare, check and take down parts of it, Compose
files and node templates, and runbooks of native commands.  There is no server
in it, and at this commit no application or chaincode.  What the program keeps
is *files and volumes on a host*, and what can go wrong is what goes wrong with
files: two runs at once, a run killed halfway, checks that look at one moment
and speak of another, an operator who replaces things in between.

## Inventory

| part | state it keeps | operations | what is hard | what makes it correct |
| --- | --- | --- | --- | --- |
| **Node preparation**, `scripts/prepare-m2-nodes.py` | CouchDB env files and Peer handoffs (`.secrets`), rendered node YAMLs (`.runtime/network-config`) | `prepare`, `verify` | no lock; create-exclusive, write, fsync; unlink on an error; kill and power loss; templates and M1 keys that change during a run | PASS is true of the whole output; reruns agree; nothing is overwritten; a handoff equals its secret |
| **MSP assembly**, `scripts/assemble-msps.py` | `config.yaml` in local MSPs, four public MSPs, a parser probe | `build`, `verify` | preflight's checks are older than the writes; staging directories of others; a kill in the middle | PASS is true; a difference stops a build before it writes; a public MSP is whole or absent; write-once |
| **Volume reset**, `scripts/reset.sh` | Docker volumes of the project | review, confirmed reset | snapshot, selection, review and deletion look at different moments; partial deletion; two resets; `compose up` | only marked volumes are deleted; "complete" means gone; repeats converge; the printed list should be exact, and is not |
| **Seller credential rotation**, `docs/m2-seller-couchdb-credential-rotation.md`, `m2-seller-couchdb-rotation-state.sh`, `verify-m2-seller-couchdb-rotation.py`, `verify-m2-seller-couchdb-runtime.py` | old, candidate and active env pairs, staged `.env.new`, container envs, tar exports, the marker | about thirty recorded commands and a rollback | any command can fail or be killed; containers keep the env they were created with; the old copies are deleted at the end | no service starts on half a pair; from every state one of roll forward and roll back is open; after acceptance the old password is refused |
| **Compose policy**, `verify-m2-compose.py` | none | check | a predicate over a large document | exclusive volumes and binds per node |
| **Initial block**, `verify-m2-initial-block.py` | none | check | policy trees of any shape; certificates that exist in four copies | the root asks for two founders and the Orderer, the applications for two founders, every other group for its owner, and none for anything else; identities are M1's |
| **Current config**, `verify-m2-current-config.py` | none; a PASS is what it leaves | check of an approved block and of one fetched block per node | files read one after the other, and read twice; nodes that lag; a channel that moves on | a PASS means that every node's ledger has the approved block, and that the next update is governed |
| **CA config installation**, `install-ca-config.sh` | private config in a CA volume | install | test, then create, in a container | never replaced |
| **Version lock and doctor**, `validate-version-lock.awk`, `doctor.sh`, `verify-m0.sh` | none | check | three readers of one file, each with its own idea of a path | the validator accepts the reviewed subset of YAML; in it all readers find the same values |
| **Certificate checks**, `inspect-local-certs.py`, `verify-m1-tls-trust.py` | none | check | X.509 and live TLS | outside these models |
| **Makefile**, images, templates, `app/`, `chaincode/` | none | | | no behaviour of their own |

The parts meet in the file system and in Docker.  Node preparation reads the M1
identities that MSP assembly also reads, and writes the env files that Compose
injects into containers when it creates them; the rotation replaces one pair of
those files, and its runbook runs `verify` of the preparation in between.  Reset
removes the volumes that hold the ledgers and databases behind all of it.  Every
interaction is a shared file or volume; no part calls another one while holding
anything.

## Modules

| module | models |
| --- | --- |
| `NodePrep` | runs of `prepare-m2-nodes.py` over shared output, with faults and edits |
| `NodePrepMC` | symmetry for the runs of `NodePrep` |
| `NodePrepProofs` | the inductive invariant of `NodePrep` and six theorems |
| `WriteOnce` | the abstract promise of a build: registers that are put once |
| `MspAssembly` | runs of `assemble-msps.py`; implements `WriteOnce` |
| `MspAssemblyMC` | symmetry for the runs of `MspAssembly` |
| `MspAssemblyProofs` | the inductive invariants of `MspAssembly`, six invariants, the refinement and what it gives |
| `VolumeReset` | runs of `reset.sh` next to Docker and an operator |
| `VolumeResetMC` | symmetry for the runs of `VolumeReset` |
| `VolumeResetProofs` | what a reset knows at each stage, and three theorems |
| `PairSwitch` | the abstract promise of a rotation: down between two pairs, up on a pair that is kept |
| `CredentialRotation` | the rotation runbook, block by block, with its gate for failures; implements `PairSwitch` |
| `CredentialRotationMC` | `CredentialRotation` for TLC |
| `CredentialRotationProofs` | the inductive invariant of `CredentialRotation`, five invariants, the refinement and what it gives |
| `ChannelAudit` | the three audits of `supplychannel` next to updates, lagging nodes and an operator |
| `ChannelAuditMC` | signature rules and configs for the run of `ChannelAudit` |
| `ChannelAuditProofs` | the inductive invariant of `ChannelAudit` and four theorems |
| `VersionLock` | the validator of `versions.lock.yaml`, line by line, and the lookups of two programs over what it accepts |
| `VersionLockProofs` | trees of lines, the inductive invariant of the validator, and four theorems |

The first three programs have the same shape and their models share it.  A *slot*
holds one process: its `stage` is where in the script it is, `at` the item of the
loop it is at, and the other fields are its local variables (`seen` is the
`passwords` list, `listed` is preflight's `children`, `targets` is the bash array
of that name).  One action is one call that can be interleaved with something
else: a test for existence, an open, a write, an fsync, a rename, a
`docker volume rm`.  The scripts take no locks, so any two slots interleave.
`faults` and `edits` count what is bounded.  `disturbed` is history: the slots
under whose process somebody edited what the process had looked at.  Every
safety property is about undisturbed processes or says what remains true of a
disturbed one, and `disturbed` is cleared when a new process starts.

### NodePrep

Paths are `couchdb`, `peer` and `config` files, visited in the order of `ORGS`
and of the node list.  The content of a file is a password, a rendering (its
template and its key name), `Torn` (anything a reader refuses: cut short, wrong
mode, a link), or `Nothing`.  `holder` tells which process's descriptor is open
on the file at a path, so that a process that writes to a file that was moved
away does not write to the new one; but `write_new` unlinks *by path* when it
fails, and so does `WriteError`.  `synced` are the files a power loss cannot
take.  `Probe` is `path.exists()` (after rendering, for a config), `Create` the
`O_EXCL` open, `Write`, `Fsync` and `WriteError` the body and the handler of
`write_new`, `Read` is `read_env` or `read_bytes` with the comparison that follows,
`CheckDistinct`, `CheckListing` and `CheckFields` the checks behind the three PASS
lines.  A fresh token differs from all those in use: 256 random bits.

The optional comparison with a decoded block (`--inspect-block`) reads and never
writes; it is `CompareNodeConfigs` of `ChannelAudit`.  Not modelled: directory modes; which of the many refusals of
`checked_identity` was met (`m1 = Nothing` stands for each); and the fields of a config that do not depend on a
run (lines 222 to 250 and 263 to 266), which are right or wrong in a template whoever renders it: the templates that
occur are those that pass.  The key name is the field that a run may find changed.

### MspAssembly and WriteOnce

`disk` holds the local configs and the probe, `made` the organization directories
and `msp` what is in them: the pinned roots it was made from and its number of
files.  A staging directory is seen by others only as a name under `public-msps`
that is no organization's (`StrayName`), and stays behind (`debris`) when its
process is killed.  Only the rename makes an MSP visible.  `began` is history: what
the output was when the process started.  The operator edits the output between
runs and the reviewed inputs at any time.

Abstracted: `PUBLIC.mkdir` (an absent `public-msps` and an empty one are treated
alike by preflight, and `verify` refuses both), directory modes and owners, and
the reading of the files of one public MSP, which is one step because nothing
changes a visible MSP while a run is live.  The local configs depend on the name
of a root file only, not on its bytes, so they are the same for all `Roots`.

`WriteOnce` says what a build promises: a register that is empty may be put a
whole value, nothing else happens, and only a revision by the operator, which
opens an epoch, may replace values.  `MspAssembly!Once` maps the files and the
MSPs to registers, a torn file to an empty one.  What a reader wants of the
promise is `PutStays`: until the next revision, what was put stays.

### VolumeReset

`declared` is the Compose model (a row per volume: reset target, external, or
refused), `vol` what Docker has under the name: nothing, a volume with all three
labels, one with another logical label (`kin`), or a stranger.  `held` are volumes
that a container outside the project uses.  The tools image that renders the
model is `locked` or not.  `Match` is a row whose
name the pipeline reports and whose labels are looked at; `Select` is one turn of the loop.  Under
`pipefail` the pipeline `printf | grep -Fqx` may also fail over a name that is there: bash's printf writes to a pipe
line by line, `grep -q` exits at the match, and a line that is written after that is a SIGPIPE.  Every
name may be followed by others in the list of the host's volumes, so `Select` lets each of them be passed over.  `late` is history: the processes that were between the second look
and `docker volume rm` when something was edited.

### CredentialRotation and PairSwitch

The runbook is a program whose interpreter is the operator.  `at` is the block that
is next; a block sources the state guard, runs its tests and then its command, and
`Block` is all of that: it passes, or a test fails and nothing is done, or it is
interrupted and has done nothing, a part (`Halves`, `Unmade`) or all of its work
without a record.  `file` has the content of every place for each of the two parts,
CouchDB and Peer; the content of a file is the password in it, and a digest is named by
what it was taken of.  `con` are the containers.  A container keeps the environment
it was created with, so `env` changes in `Recreated` and nowhere else: that files and
containers may disagree is the whole difficulty.  `Component` is `check_component` of
the runtime checker, `Pair` and `Differ` are the pair verifier, `Holds` is `shasum -c`, which
accepts a manifest that was cut short as long as its remaining lines are true.  The acceptance
ends in four blocks that follow each other: the two old copies go (`DropDbCopy`, `DropPeerCopy`), then the
directories (`DropDirs`) and the marker (`Unmark`).  Directories and marker are not state: a command that is
cut short after it removed them is repeated in the model, where `rmdir` or the state guard would fail and nothing is left to do.  A
failure on the way forward opens the gate: `StartDb`, `StartPeer`, `Resume` and `RollBack` are the
cases it names (lines 373 to 434), chosen by whether a file was replaced.

`PairSwitch` is the promise: the Seller is up on one pair of credentials or down, never
goes from one to the other without being down, comes up on a pair of which a complete set
is kept, and gives up the old pair only when it was seen up on the new one.  The
mapping reads `serving` off the containers and `kept` off the places.  What a reader wants of the
promise is `NeverLost`: some pair is always kept, and the old one until the new one was seen up.

`Stuck` lists where the blocks' own tests refuse every further step: a container that an
interrupted `up` left absent or merely created is not "exited"; a
leftover `.env.rollback` is not absent (lines 397 and 398), and one that was moved by an `mv`
that took effect before it was killed is not there to be moved; and without a manifest nothing is
started.  Everything else settles.  Three observations on the text: after a replacement the
else-branch at lines 423 to 426 is not reached, because the candidate is complete by then; the
marker is not removed by a rollback (only line 24 speaks of it); and no block tests whether
a file was replaced, so `RollBack` follows the sentence "Once either active env file has been
replaced" (line 377).

Not modelled: the identities of the two volumes and the baselines that are recorded
and compared by eye (heights, indexes, document counts), a second operator, and failures after the
acceptance.

### ChannelAudit

A channel is a line of CONFIG blocks; there is a second line, since a node may have been
joined to another channel of the same name.  Nodes commit at their own pace (`height`), and what is fetched from
a node is the block at *its* height.  `initial`, `approved` and `fetched` are decoded
blocks on disk, `pins` the digests that were recorded of the first two, and `inputs` the copies
of roots and certificates that the programs compare: M1's files, the staged PEMs, the inventory's
digests and the rendered node configs.  `run` is one run of
`verify-m2-current-config.py`, a step for every file it reads: it takes the digest of a file,
and later opens the file again.  `AuditInitial` and `CompareNodeConfigs` read the
decoded block once and are a step each.  `verdict` is the block that the last PASS of each
audit is about.  

A block names the config it carries (`Config`, `Content`).  A config has seven groups with an Admins policy that is a signature rule, its `Areas`: the root of the channel,
the applications, the Orderer, and each organization.  A signature rule is a tree, `Permits` evaluates it, and
`AdminsAsReviewed` compares it with the `Threshold` of its area on every set of signers, as `signature_policy` does.
`Update` is Fabric's part, and there mod_policy is a *relative* name: what is changed in an area is judged by the
Admins of that area in the config in force (`Changes`, `Authorised`).  The timeout and the consenters' certificates are the
Orderer's alone to change, an organization's roots its own, and only what lies at the root needs two founders
and the Orderer.  An area whose mod_policy is another name (`open`) is judged by that policy, which any member
satisfies; `assert_mod_policies` is what refuses it.  `Governs` is the reviewed judgement of the same change, a block records
whether it was met (`governed`), and `Outcomes` tells for each pair of configs which records are possible.
`LoadInitial` compares the header alone, as the program does (`SameHeader`); the digest of the file is what
ties the data of block 0.

Abstracted: fields that an audit only compares with a constant are the areas in `drift`;
the DER encoding of a header hash is equality of blocks; that an evaluation counts each signature
once is Fabric's and external.  Two things the audits cannot do and the properties
therefore do not say: a block fetched from one node and stored under another's name passes,
and a PASS does not say that all nodes had the block at one moment, only that each has it.
The timeout of an approved block is any positive one; nothing
links an approved block other than block 0 to block 0 except the digests.

### VersionLock

`Read` is the body of `validate-version-lock.awk` for one line, with its variables; `End` is the `END` block.  A
line is what the programs can tell apart: indentation, form, key, and what is behind the key (`tail`): nothing, one
plain word, quoted or several words, or the quoted empty text, which the validator lets pass (line 12).  Every line that is refused
whatever surrounds it (tabs, comments, flow forms, bad keys or scalars) is the one form
"other", and blank lines, which all readers skip, are left out.  A
value is named by the number of its line.  `Locked` is `lock_get` with `locked` of
`verify-m0.sh`, which dies of a value of which nothing is left (line 42), the empty text too.  `DoctorLine` is the line that
the lookups of `doctor.sh` stop at, and `Doctor` what they print of it, the second word: all of the value when that is one
plain word, and only its first word, with its quotes, when it is more (`-n`).  `Parent` and `KeysTo` say what a general YAML
reader makes of the lines, independently of any stack.  All of these are functions of a lock and not of
the state, so that they can be reasoned about without it; `Track` is what `lock_get` does with one
line.  Two assumptions are made of the constants: bounds are numbers (`BoundsAreNumbers`), and no key
is a hyphen (`KeysAreNames`), as a key begins with a letter (line 62 of the validator).  Values are
text: that a YAML reader takes the plain words `null`, `true` or `1e3` for something else is left out.  The rest of `doctor.sh` and `verify-m0.sh` probes a host once.

## Runs

| run | instance | shows |
| --- | --- | --- |
| `node_race` | 2 slots, 1 organization, 1 node, 3 passwords, 2 key names, 1 fault of any kind, 1 edit | typing, `PassMeansReady`, `RerunAgrees`, `OnlyCreatorTouches`, `NoDriftWritten` |
| `node_crash` | 1 slot, 2 organizations, 2 nodes, 4 passwords, 2 templates, 3 kills or errors, 1 edit | `CrashConsistent`, and `PassMeansReady` with equal passwords and mixed commits |
| `node_rerun` | 2 slots, 1 organization, 1 node, 1 fault, fairness | `RerunCompletes` |
| `msp_race` | 2 slots, 1 local config, 2 organizations of 2 files, 2 roots, 1 kill or error, 1 edit | typing, `PassMeansAssembled`, `RerunAgrees`, `FailsClosed`, `PublicComplete`, `CompletesAlone`, `ImplementsWriteOnce` |
| `msp_repeat` | the same with 1 root, no edits, fairness | `RepeatedBuildCompletes` |
| `msp_crash` | 1 slot, 2 organizations of 3 files, 1 kill | **violated** `MissingFilesCreated` |
| `reset_overlap` | 2 slots, 2 volumes, 1 kill, 1 edit | typing, `CompleteMeansGone`, `OnlyMarkedDeleted` |
| `reset_converge` | the same with no edits, fairness | `ResetConverges` |
| `reset_pipe` | 1 slot, 2 volumes, no faults or edits | **violated** `ListIsExact` |
| `rotation_faults` | the whole runbook, 3 interrupted blocks or dead containers | typing, `PairServes`, `MixedOnlyStopped`, `RollbackReady`, `AcceptedMeansRotated`, `ImplementsPairSwitch`, `Settles` |
| `audit_window` | 2 nodes, 5 configs that differ from the reviewed one in one area or two, 6 rules of the root in several shapes, 2 issues of certificates, 1 update, 1 edit, fairness | typing, `PassMeansShared`, `GovernedAfterPass`, `ConsentersPresentTheirs`, `QuietWindowPasses` |
| `lock_documents` | all locks of up to 6 lines, 2 keys, 4 kinds of value, indentation up to 6 | typing, `AcceptsTheSubset`, `LookupAgrees`, `DoctorAgrees` |

**Bounds.** Races need two processes and one path each of them wants; a third
process adds no new kind of step, since processes meet only in files.  Two
organizations are needed where order, distinctness or a half-finished walk
matters, and `node_crash`, `msp_race` and the reset runs have two.  Three
passwords are enough for two processes that both drew one and a third on disk.
One fault and one edit at any moment meet every step of every process; `node_crash`
has three faults, because its failures have to follow each other.  Nothing in the
properties depends on the bounds of the counters: the proofs below have none.
The runbook has no size of its own.  Three faults give a failure on the way forward, one in the rollback
that answers it, and one in the rollback after that, which is where its blocks
meet their own leftovers.  Two nodes are enough for nodes that lag or are on
different lines, one update for a channel that moves between two reads, and one edit for every
file that can be swapped between its digest and its use.  Six lines and four levels have every
dedent, mappings and lists next to each other, and a key twice in one mapping and in two; a
longer lock has more of the same.
The runs of `NodePrep` use symmetry in slots and passwords where they check
safety; the liveness runs use none.

**Fairness.** A step of a started process is weakly fair: the shell runs a
command to its end.  Starting is strongly fair, as the operator runs `prepare`,
`build` or a confirmed reset again; it is strong because a slot is startable only
when its process has ended.  Nothing is assumed of faults, edits, or of
`verify` runs, and the liveness properties begin where faults and edits are over.
In the reset one more thing is asked of the system: the race between `printf` and `grep -q` is not lost for ever
(`SF` of `Match` for each volume, by confirmed runs).  Which of the two processes the kernel lets go first is not the
script's to decide, and a race that one side always wins is not what a scheduler does; without
this, repeated resets could pass over the same volume without end, and `ResetConverges` would be false.
In the rotation the operator does not leave between two blocks (`WF` of all blocks
together, so that none of them is favoured).  In the audits a started run ends
(`WF` of its steps), nodes catch up and are fetched from (`WF`, of all nodes together), and the
operator repeats approval and audit (`SF`, since both wait for all fetches).

## What the violations show

* `msp_crash`: `build` cannot finish what a killed build began.  `preflight`
  (`assemble-msps.py:227,232`) refuses the empty organization directory and the
  staging directory that a kill leaves, though `docs/m1-msp-assembly.md:17` says
  that build "creates missing files exclusively and verifies matching existing
  files".  The operator has to remove them by hand.  `BuildCompletes` is the other half:
  without kills, failed calls and overlapping runs the sentence is true, whatever the
  operator edits between runs.
* `reset_pipe`: `reset.sh:67` may take an existing volume for a missing one, with any list in which a name follows
  it, so the list that is printed for review is not "the exact existing" one of `README.md:23`, and the reset
  completes without that volume.  What is left of the sentence is that what was printed is marked and, when the run
  is complete, gone (`OnlyMarkedDeleted`, `CompleteMeansGone`), and that repeating the reset
  gets at the rest (`ResetConverges`).

Two things that do *not* hold were left out of `CrashConsistent` on purpose and
are told in its comment: overlapping runs with an fsync error, and a power loss after
a kill, can leave a handoff without its secret.

## Proofs

`NodePrepProofs` proves, for any finite or infinite sets of slots, passwords,
templates and key names, any number of organizations and nodes, and no bound on
faults or edits, from the three assumptions on constants in `NodePrep`:

* `TypeCorrect`: `Spec => []TypeOK`
* `PassIsReady`: `Spec => []PassMeansReady`
* `RerunsAgree`: `Spec => []RerunAgrees`
* `NeverWritesDrift`: `Spec => NoDriftWritten`
* `CreatorTouchesOnly`: `Spec => OnlyCreatorTouches`
* `FailuresKeepPairs`: `Spec => []CrashConsistent`, if there is one slot and power losses
  are not among the faults; without these two it is false

`PassMeansReady` is not inductive: that all paths are right at the end follows
from what each process has passed on its way.  The inductive invariant `IInv`
says it for every prefix of the walk.  `HolderInv`: the descriptor that is open on
a file belongs to a process at that path in `write` or `fsync`, and an undisturbed
process that writes holds its file.  `Steady(p)`: for an undisturbed process, every
path it has passed still has the content it saw, its key name is the current one,
and the checks it has passed still hold.  `Vouched(p)`: while a process that started
under a standing PASS is undisturbed, the output is ready and the process neither
creates nor fails.
The step that matters is that no process changes a finished file: creation
is exclusive, a write goes to the file its process holds, and an unlink of a file
that somebody may have read disturbs everybody (`OnlyCreatorTouches` is about the same
fact as an action property).  One lemma per action shows that the action keeps
each part; the theorems combine them.

`MspAssemblyProofs` proves, for any set of runs and of roots, any number of local MSPs,
organizations and files, and no bound on faults or edits, from the two
assumptions on constants in `MspAssembly`:

* `TypeCorrect`: `Spec => []TypeOK`
* `PublicIsComplete`: `Spec => []PublicComplete`
* `Implements`: `Spec => ImplementsWriteOnce`
* `PassIsTrue`: `Spec => []PassMeansAssembled`
* `RefusesBeforeWriting`: `Spec => []FailsClosed`
* `RepeatIsIdempotent`: `Spec => []RerunAgrees`
* `FinishedStays`: `Spec => Once!PutStays`
* `BuildCompletes`: `Spec => []CompletesAlone`

The argument has two layers.  `SharedInv` needs nothing but the shape of the
program: a visible MSP is whole and in a directory that exists (`Visible`), and a run
that creates something is the only one to create it, since `open "xb"` and
`mkdir` let one through (`Claims`).  From it follow `PublicComplete` and the refinement: what
the write and the rename put was empty.  It also gives `Grows`: while runs act, no
finished file or MSP changes, the ones that differ included.  The second layer is what a run
that nobody disturbed knows.  `Verified`: the places that `verify` has left behind are
still as they should be, so at the probe all of them are, at once.  `Refused`:
a difference that was there at the start is still ahead of the run in the order
of `preflight`, and its organization is among those `preflight` listed, so the run
stops at it before the first creation.  `Agreed`: output that was ready still
is, so no walk finds anything missing or in the way.  `Rank` and `VerifyRank`
give the two orders as numbers, and `AfterFacts` says that a step goes up by one.

`IInv` is the conjunction; TLC checked it on the instance of `msp_race` before
it was proved.

`FinishedStays` is proved of `WriteOnce` and handed down by the refinement.  `BuildCompletes`
has an invariant of its own on top of `IInv`, also checked by TLC first (`CalmInv`), for a slot that is the only
one used so far while nothing was killed or failed (`Alone`).
`Tidy`: what is torn or empty is what the live run is making at this moment, what it is about to
make is missing, and what preflight has listed is still there.  `Completes`: a build that began
over matching output meets nothing that differs, and what its walk has left behind is as it should be; so
`preflight` accepts every place, `open` and `mkdir` find nothing, and `verify` confirms all.  Both parts of
`Alone` are needed: a kill gives the counterexample of `msp_crash`, and the loser of two
overlapping builds fails at `open "xb"` or at a staging directory.

`VolumeResetProofs` proves, for any set of runs, any number of volumes and no bound on faults or
edits, from the assumption of `VolumeReset`:

* `TypeCorrect`: `Spec => []TypeOK`
* `CompleteIsGone`: `Spec => []CompleteMeansGone`
* `DeletesOnlyMarked`: `Spec => OnlyMarkedDeleted`

`Knows(p)` says what a run has made sure of when it is past a stage: its targets are reset
rows whose volumes are the project's or gone, and those it has left behind are gone.  Without an edit
volumes only go (`Quiet`), so the steps of other runs keep it.

`CredentialRotationProofs` proves, for any number of faults, from `RotationAssumption` alone:

* `TypeCorrect`: `Spec => []TypeOK`
* `NeverOnTwo`: `Spec => []PairServes`
* `MixedIsStopped`: `Spec => []MixedOnlyStopped`
* `CanGoBack`: `Spec => []RollbackReady`
* `AcceptedIsRotated`: `Spec => []AcceptedMeansRotated`
* `Implements`: `Spec => ImplementsPairSwitch`
* `AlwaysAPair`: `Spec => []Switch!NeverLost`, from the refinement

None of the properties is inductive: whether a half-moved pair is harmful depends on what the
containers were created with, and what they were created with on how far the runbook came.  `IInv` gives,
for every position, what is in the files (`FileInv`), what has been saved (`SavedInv`) and how
the containers are (`ConInv`).  The refinement is in two halves: `Effect` bounds what any block, finished or cut short,
may do to what the abstract switch sees (one container at a time, the new pair made by one block, the old one
gone only after the acceptance), and `View` says what the switch sees of a state.

`ChannelAuditProofs` proves, for any number of nodes, any rules, configs and
issues, and any number of updates and edits, from `AuditAssumption`:

* `TypeCorrect`: `Spec => []TypeOK`
* `PassIsShared`: `Spec => []PassMeansShared`
* `PassIsGoverned`: `Spec => []GovernedAfterPass`
* `ConsentersAgree`: `Spec => []ConsentersPresentTheirs`

Lines only grow (`Grows`), so what a node had when it was fetched from it still has
(`FilesInv`); `RunInv` says what a run has found before its present file, and `VerdictInv` what a
PASS was given for.  What a rule permits is never computed in the proof.  For each area the audit has found that the rule in force permits
the same signers as the reviewed threshold, and that no area is open; so whoever is authorised to change some areas
meets the threshold of each of them (`AuditedIsGoverned`, `AuthorisedGoverns`), whatever the shape of the rules and
whatever is changed with what.

`VersionLockProofs` proves, for any set of keys, any indentation and locks of any length, from
`KeysAreNames` and `BoundsAreNumbers`:

* `TypeCorrect`: `Spec => []TypeOK`
* `SubsetIsAccepted`: `Spec => []AcceptsTheSubset`
* `LookupsAgree`: `Spec => []LookupAgrees`
* `DoctorReadsTheLine`: `Spec => []DoctorAgrees`

What the validator keeps is a stack, and what it should accept is said of a tree.  The inductive invariant `IInv` is
typing, `AcceptsTheSubset` itself, and, while it reads, `ReadInv`: the lines so far are the beginning of a
supported lock (`Sound`: every line hangs where it may below the ones above it), `seen` are the
paths of its keys, all lines before the last have their children, and for every open depth the stack has the
kind, and the path the keys, of the one line that is open there (`StackInv`).  A line that fits is put under the
open line one level up, which is its parent in the tree, as the first line, as a first child or after a
dedent (`PlacedFirst`, `PlacedChild`, `PlacedBack`), and a line that does not fit spoils the tree
whatever follows.  The lookups need no invariant: they are about a sound
lock alone.  `LookupsAgree` has one exception, an empty text: YAML finds it, and `verify-m0.sh` stops.
`DoctorReadsTheLine` says when `doctor.sh` stops at the line that `verify-m0.sh` reads, and that it then reads the same
value exactly when that is one plain word, as the three fields it asks for are in this lock.  `lock_get` follows the tree because the last line that set a depth is the ancestor at
that depth; no two keys have one path, so the first hit is the only one; and the lines between a section
and the first field are the section's own.

The tree and the paths are recursive functions over line numbers, and no induction theorem of the library
can be used here.  Each argument looks at the *first* line that does otherwise, which `Least` gives for any
set of numbers (from `WFMin`, whose parameters are sets).  In this way too the recursive definitions
are shown to have solutions (`KeysToDefined`, `PathsDefined`) before anything is said of their values.  The
proof found one defect of the model: the indentation rule was a CASE whose guards overlapped, so that
what it said of a line depended on which one was taken; it is now three disjuncts.

**Only model-checked.** The liveness properties (`RerunCompletes`,
`RepeatedBuildCompletes`, `ResetConverges`, `Settles`, `QuietWindowPasses`), as liveness is beyond
this prover.  The two violations are TLC's counterexamples; what remains true of the
first sentence is proved (`BuildCompletes`), and of the second what the violations' section says.  Every invariant and every action
property of the passing runs has a theorem; `CrashConsistent` has one under the two
conditions without which it is false.

## Plan

1. `NodePrep`, checked and proved. **Done.**
2. `MspAssembly` over `WriteOnce`, checked and proved. **Done.**
3. `VolumeReset`, checked and proved. **Done.**
4. `CredentialRotation` over `PairSwitch`, checked and proved. **Done.**
5. `ChannelAudit`, checked and proved. **Done.**
6. `VersionLock`, checked and proved. **Done.**
7. Left: `CaConfigInstall` (below), the recorded identities of volumes in the rotation, and the reset
   and the rotation in one model, as `make reset` does not know of a rotation that is under way.

## Not modelled

* **CA config installation** (`install-ca-config.sh`): a test for the file and a plain redirection
  in a container, once for each CA.  It has the hazards of `MspAssembly` without its
  exclusive creation, in four lines; they are read off the code more easily than off a model.
* **Compose policy** (`verify-m2-compose.py`): a predicate over one document that it reads once.  A
  model would be the same list of equalities a second time.
* **Certificate checks** (`inspect-local-certs.py`, `verify-m1-tls-trust.py`): what openssl says of a
  certificate, and live TLS handshakes.
* The rest of **doctor and verify-m0**: single probes of a host, of images and of modules.
* **Tests, templates, evidence, `app/` and `chaincode/`**: data, or no behaviour at this commit.
