------------------------- MODULE CredentialRotation -------------------------
(***************************************************************************)
(* The rotation of the Seller's CouchDB password, as the runbook           *)
(* docs/m2-seller-couchdb-credential-rotation.md gives it: one recorded    *)
(* command block after another, each with tests of its own, and a gate     *)
(* for failures.  A container keeps the environment it was created with,   *)
(* so the files and the running services can hold different passwords.     *)
(* Any block may be interrupted halfway and a service may die.             *)
(***************************************************************************)
EXTENDS Naturals

CONSTANT MaxFaults  \* bound on interrupted blocks and dead containers

ASSUME RotationAssumption == MaxFaults \in Nat

Parts == {"couchdb", "peer"}

\* "stale" is a pair that was put on disk after the containers were created.  "torn" is
\* any file that its reader refuses; "data" is a whole tar archive.
Passwords == {"old", "new", "stale"}
Contents  == Passwords \cup {"none", "torn", "data"}

\* .secrets, env.before.sha256, old-secrets, the two archives, checksums.sha256,
\* candidate, .env.new and .env.rollback.  A digest is named by what it was taken of.
Places == {"active", "before", "copy", "archive", "sums", "candidate", "staged", "back"}

Container == [state : {"running", "exited", "created", "absent"}, env : Passwords, fits : BOOLEAN]

VARIABLES
    file,       \* place -> part -> content
    con,        \* part -> its container: state, password it was created with, and
                \* whether its mounts, networks and ports are the expected ones
    compose,    \* part -> whether the checkout's Compose files give the expected ones
    phase,      \* whether blocks are run, or one of the way forward has failed
    at,         \* the block that is next, or that failed
    left        \* faults that may still happen

vars == <<file, con, compose, phase, at, left>>

Acceptance == {"dropDbCopy", "dropPeerCopy", "dropDirs", "unmark"}
Switched   == {"recreatePeer", "runtimeBoth"}
Forward == {"begin", "manifest", "preflight", "stopPeer", "stopDb", "copy", "exportDb",
            "exportPeer", "validate", "generate", "verifyCandidate", "stage", "moveDb",
            "movePeer", "verifyActive", "verifyNodes", "recreateDb", "runtimeDb", "probeNew",
            "probeOld"} \cup Switched \cup Acceptance
Rollback == {"haltPeer", "haltDb", "restage", "backDb", "backPeer", "verifyBack", "nodesBack",
             "reviveDb", "revivePeer", "checkBack"}

Both(content) == [part \in Parts |-> content]

\* The services run on one pair; the files may hold it or another one.
Init ==
    /\ \E on \in [Parts -> {"old", "stale"}] :
          file = [place \in Places |-> IF place = "active" THEN on ELSE Both("none")]
    /\ con \in [Parts -> [state : {"running"}, env : {"old"}, fits : BOOLEAN]]
    /\ compose \in [Parts -> BOOLEAN]
    /\ phase = "running" /\ at = "begin" /\ left \in 0..MaxFaults

-----------------------------------------------------------------------------
(* The tests that the blocks run.                                          *)

\* seller_pair
Pair(f) == f["couchdb"] \in Passwords /\ f["peer"] = f["couchdb"]

\* verify-m2-seller-couchdb-rotation.py
Differ(before, after) == Pair(before) /\ Pair(after) /\ before["couchdb"] # after["couchdb"]

Runs(part) == con[part].state = "running" /\ con[part].env = file["active"][part]

\* Mutant: mounts, networks and ports are not looked at.
ComponentEnvOnly(part) == file["active"][part] \in Passwords /\ Runs(part)

\* Mutant: a container that has stopped is inspected like a running one.
ComponentStopped(part) == con[part].env = file["active"][part] /\ con[part].fits

\* verify-m2-seller-couchdb-runtime.py: check_component
Component(part) == file["active"][part] \in Passwords /\ Runs(part) /\ con[part].fits

BothExited   == \A part \in Parts : con[part].state = "exited"
Absent(place) == file[place] = Both("none")

\* Mutant: the manifest is there, and that is enough.
ManifestExists == \E part \in Parts : file["before"][part] # "none"

\* shasum -c: there is a well formed line, and every well formed line holds.
Holds(place, of) ==
    /\ \E part \in Parts : file[place][part] \in Passwords
    /\ \A part \in Parts : file[place][part] \in Passwords => file[of][part] = file[place][part]
ManifestHolds == Holds("before", "active")

\* The results of the commands.
Filled(place, f)      == [file EXCEPT ![place] = f]
Put(place, part, c)   == [file EXCEPT ![place][part] = c]
Moved(from, to, part) == [file EXCEPT ![to][part] = file[from][part], ![from][part] = "none"]
Stopped(part) == [con EXCEPT ![part].state = IF @ = "running" THEN "exited" ELSE @]
Started(part) == [con EXCEPT ![part].state = "running"]

\* Mutant: a new container is given what .env.new holds.
RecreatedFromStaged(part) ==
    [con EXCEPT ![part] = [state |-> "running", env |-> file["staged"][part], fits |-> compose[part]]]

Recreated(part) ==
    [con EXCEPT ![part] = [state |-> "running", env |-> file["active"][part], fits |-> compose[part]]]

\* What is there when a command is cut short: of two files the first or a piece of either,
\* and of a container nothing, or one that was created and never started.
Halves(place, f) ==
    {Filled(place, h) : h \in
        {[file[place] EXCEPT !["couchdb"] = c] : c \in {"torn", f["couchdb"]}}
        \cup {[f EXCEPT !["peer"] = "torn"]}}
Unmade(part) == {[Recreated(part) EXCEPT ![part].state = s] : s \in {"absent", "created"}}

-----------------------------------------------------------------------------
(* A block sources the guard, runs its tests and then its command.  A      *)
(* failure ends the way forward; a rollback block can be repeated.  An     *)
(* interrupted block has done nothing, a part or all of its work, and none *)
(* of that is on record.                                                   *)
Block(here, tests, next, files, containers, cutFiles, cutContainers) ==
    LET fails == UNCHANGED at /\ phase' = IF here \in Forward THEN "failed" ELSE "running" IN
    /\ phase = "running" /\ at = here
    /\ \/ tests /\ at' = next /\ file' = files /\ con' = containers /\ UNCHANGED <<phase, left>>
       \/ ~tests /\ fails /\ UNCHANGED <<file, con, left>>
       \/ tests /\ left > 0 /\ left' = left - 1 /\ fails
          /\ file' \in {file, files} \cup cutFiles
          /\ con' \in {con, containers} \cup cutContainers
    /\ UNCHANGED compose

Check(here, tests, next)               == Block(here, tests, next, file, con, {}, {})
Write(here, tests, next, files, cut)   == Block(here, tests, next, files, con, cut, {})
Docker(here, tests, next, containers, cut) == Block(here, tests, next, file, containers, {}, cut)

Install(here, tests, next, place, f) ==
    Write(here, tests /\ Absent(place), next, Filled(place, f), Halves(place, f))
Move(here, from, part, next) ==
    Write(here, BothExited /\ file[from][part] # "none", next, Moved(from, "active", part), {})
Export(here, part, next) ==
    Write(here, BothExited /\ file["archive"][part] = "none", next,
          Put("archive", part, "data"), {Put("archive", part, "torn")})

\* The private directory and the marker, the manifest of the files, and the first check.
Begin     == Check("begin", TRUE, "manifest")
Manifest  == Install("manifest", TRUE, "preflight", "before", file["active"])
Preflight == Check("preflight", \A part \in Parts : Component(part), "stopPeer")

StopPeer == Docker("stopPeer", TRUE, "stopDb", Stopped("peer"), {})
StopDb   == Docker("stopDb", con["peer"].state = "exited", "copy", Stopped("couchdb"), {})

\* Mutant: only the database's file is copied.
CopyOne == Write("copy", BothExited /\ Absent("copy"), "exportDb",
                 Put("copy", "couchdb", file["active"]["couchdb"]), {})

Copy       == Install("copy", BothExited, "exportDb", "copy", file["active"])
ExportDb   == Export("exportDb", "couchdb", "exportPeer")
ExportPeer == Export("exportPeer", "peer", "validate")
Validate   == Write("validate", file["archive"] = Both("data"), "generate",
                    Filled("sums", file["copy"]), Halves("sums", file["copy"]))

Generate        == Install("generate", BothExited, "verifyCandidate", "candidate", Both("new"))
VerifyCandidate == Check("verifyCandidate", Differ(file["active"], file["candidate"]), "stage")
Stage        == Install("stage", BothExited, "moveDb", "staged", file["candidate"])
MoveDb       == Move("moveDb", "staged", "couchdb", "movePeer")
MovePeer     == Move("movePeer", "staged", "peer", "verifyActive")
VerifyActive == Check("verifyActive", Differ(file["copy"], file["active"]), "verifyNodes")
VerifyNodes  == Check("verifyNodes", Pair(file["active"]), "recreateDb")

\* The new password is to be answered by 200 and the copied one by 401 or 403.
RecreateDb   == Docker("recreateDb", TRUE, "runtimeDb", Recreated("couchdb"), Unmade("couchdb"))
RuntimeDb    == Check("runtimeDb", Component("couchdb"), "probeNew")
ProbeNew     == Check("probeNew", Runs("couchdb"), "probeOld")
ProbeOld     == Check("probeOld", con["couchdb"].state = "running"
                                  /\ con["couchdb"].env # file["copy"]["couchdb"], "recreatePeer")
RecreatePeer == Docker("recreatePeer", TRUE, "runtimeBoth", Recreated("peer"), Unmade("peer"))
RuntimeBoth  == Check("runtimeBoth", \A part \in Parts : Component(part), "dropDbCopy")

\* The acceptance: the old copies go, then their directories, which have to be empty, then the
\* marker.  (Directories and marker are not kept as state: a command that was cut short after it
\* removed them is repeated here, where rmdir or the guard would fail and nothing is left to do.)
DropDbCopy   == Write("dropDbCopy",
                      file["candidate"] = file["active"] /\ file["copy"]["couchdb"] # "none",
                      "dropPeerCopy", Put("copy", "couchdb", "none"), {})
DropPeerCopy == Write("dropPeerCopy",
                      file["copy"]["couchdb"] = "none" /\ file["copy"]["peer"] # "none",
                      "dropDirs", Put("copy", "peer", "none"), {})
DropDirs     == Check("dropDirs", Absent("copy"), "unmark")
Unmark       == Check("unmark", TRUE, "accepted")

-----------------------------------------------------------------------------
(* The failure and rollback gate.                                          *)
Start(part) ==
    /\ phase = "failed" /\ ManifestHolds /\ con[part].state = "exited"
    /\ con' = Started(part)
    /\ UNCHANGED <<file, compose, phase, at, left>>

\* As long as no file was replaced, the containers that exist are started again.
StartDb   == Start("couchdb")
StartPeer == con["couchdb"].state = "running" /\ Start("peer")

\* A Peer that fails next to a verified database may be tried again, and so may a
\* command of the acceptance.
Resume ==
    /\ phase = "failed" /\ phase' = "running"
    /\ \/ at \in Switched /\ con["couchdb"].state = "running" /\ at' = "recreatePeer"
       \/ at \in Acceptance /\ UNCHANGED at
    /\ UNCHANGED <<file, con, compose, left>>

Replaced == \E part \in Parts : file["active"][part] = "new"

\* Mutant: the services are taken to be stopped already.
RollBackUnstopped ==
    /\ phase = "failed" /\ at \notin Acceptance /\ Replaced
    /\ phase' = "running" /\ at' = "restage"
    /\ UNCHANGED <<file, con, compose, left>>

\* Once either active file has been replaced, both old ones have to be put back.
RollBack ==
    /\ phase = "failed" /\ at \notin Acceptance /\ Replaced
    /\ phase' = "running" /\ at' = "haltPeer"
    /\ UNCHANGED <<file, con, compose, left>>

HaltPeer   == Docker("haltPeer", TRUE, "haltDb", Stopped("peer"), {})
HaltDb     == Docker("haltDb", con["peer"].state = "exited", "restage", Stopped("couchdb"), {})
Restage    == Install("restage", BothExited /\ Holds("sums", "copy"), "backDb", "back", file["copy"])
BackDb     == Move("backDb", "back", "couchdb", "backPeer")
BackPeer   == Move("backPeer", "back", "peer", "verifyBack")
VerifyBack == Check("verifyBack", IF \A part \in Parts : file["candidate"][part] # "none"
                                  THEN Differ(file["candidate"], file["active"])
                                  ELSE file["active"] = file["copy"], "nodesBack")
NodesBack  == Check("nodesBack", Pair(file["active"]), "reviveDb")

\* Mutant: a restart in place of up --force-recreate.
ReviveDbRestarting == Docker("reviveDb", TRUE, "revivePeer", Started("couchdb"), {})

ReviveDb   == Docker("reviveDb", TRUE, "revivePeer", Recreated("couchdb"), Unmade("couchdb"))
RevivePeer == Docker("revivePeer", TRUE, "checkBack", Recreated("peer"), Unmade("peer"))

\* Old admin positive and the Seller's own queries; what fails is rolled back anew.
CheckBack ==
    /\ phase = "running" /\ at = "checkBack"
    /\ at' = IF \A part \in Parts : Runs(part) THEN "restored" ELSE "haltPeer"
    /\ UNCHANGED <<file, con, compose, phase, left>>

-----------------------------------------------------------------------------
\* A service dies.  After the acceptance that is no longer the rotation's.
Die(part) ==
    /\ left > 0 /\ left' = left - 1
    /\ at \notin Acceptance \cup {"accepted", "restored"}
    /\ con[part].state = "running" /\ con' = Stopped(part)
    /\ UNCHANGED <<file, compose, phase, at>>

GoForward ==
    \/ Begin \/ Manifest \/ Preflight \/ StopPeer \/ StopDb
    \/ Copy \/ ExportDb \/ ExportPeer \/ Validate
    \/ Generate \/ VerifyCandidate \/ Stage \/ MoveDb \/ MovePeer \/ VerifyActive \/ VerifyNodes
    \/ RecreateDb \/ RuntimeDb \/ ProbeNew \/ ProbeOld \/ RecreatePeer \/ RuntimeBoth
    \/ DropDbCopy \/ DropPeerCopy \/ DropDirs \/ Unmark

GoBack ==
    \/ StartDb \/ StartPeer \/ Resume \/ RollBack
    \/ HaltPeer \/ HaltDb \/ Restage \/ BackDb \/ BackPeer \/ VerifyBack \/ NodesBack
    \/ ReviveDb \/ RevivePeer \/ CheckBack

Operator == GoForward \/ GoBack

Next == Operator \/ \E part \in Parts : Die(part)

Spec == Init /\ [][Next]_vars

\* The operator does not leave between two blocks.
FairSpec == Spec /\ WF_vars(Operator)

-----------------------------------------------------------------------------
TypeOK ==
    /\ file \in [Places -> [Parts -> Contents]] /\ con \in [Parts -> Container]
    /\ compose \in [Parts -> BOOLEAN]
    /\ phase \in {"running", "failed"} /\ left \in 0..MaxFaults
    /\ at \in Forward \cup Rollback \cup {"accepted", "restored"}

\* Seller Peer and CouchDB never run with two different passwords, whatever was
\* interrupted, started again or rolled back (the files and the containers' own
\* environments disagree in between: "a mere restart would keep old container env").
PairServes ==
    (\A part \in Parts : con[part].state = "running") => con["couchdb"].env = con["peer"].env

\* "A one-file intermediate state is safe only while both Seller services are stopped"
\* (line 178): after the preflight the active files differ only while neither runs.
MixedOnlyStopped ==
    at \notin {"begin", "manifest", "preflight"} /\ ~Pair(file["active"]) =>
        \A part \in Parts : con[part].state # "running"

\* "Once either active env file has been replaced, old-secrets must be complete"
\* (line 377): until the acceptance, both old files can be put back, and the check of
\* their digests is not what will fail.
RollbackReady ==
    Replaced /\ at \notin Acceptance \cup {"accepted"} =>
        file["copy"] = Both("old") /\ Holds("sums", "copy")

\* "The exposed old password must no longer authenticate" (line 330): when the old
\* copies begin to go, files, backup and both containers have the new password, and
\* the containers are the ones the runtime checker wants.
AcceptedMeansRotated ==
    at \in Acceptance \cup {"accepted"} =>
        /\ file["active"] = Both("new") /\ file["candidate"] = Both("new")
        /\ \A part \in Parts : con[part].env = "new" /\ con[part].fits

\* A pair can still be brought up: its files are complete in one of three places, or the
\* containers that were created with it are there.
Restorable(pair) ==
    \/ \E place \in {"active", "copy", "candidate"} : file[place] = Both(pair)
    \/ \A part \in Parts : con[part].env = pair /\ con[part].state \in {"running", "exited"}

\* The pair that both services run on, the pairs that can be brought up, and those that the
\* Seller was accepted on.
serving ==
    IF \A part \in Parts : con[part].state = "running"
    THEN IF con["couchdb"].env = con["peer"].env THEN con["peer"].env ELSE "mixed"
    ELSE "down"
kept    == {pair \in {"old", "new"} : Restorable(pair)}
trusted == IF at \in Acceptance \cup {"accepted"} THEN {"old", "new"} ELSE {"old"}

Switch == INSTANCE PairSwitch WITH Old <- "old", New <- "new", Down <- "down"

\* The rotation implements the abstract switch: never from one password to the other
\* without a stop, never up on a pair that is not kept, and the old pair is kept until
\* the Seller was seen up on the new one.
ImplementsPairSwitch == Switch!Spec

\* The tests of the runbook itself refuse every further block: a container that was made
\* halfway is not "exited", a leftover .env.rollback is not absent, a moved one is not
\* there to be moved, and without a manifest nothing is started.
Stuck ==
    \/ \E part \in Parts : con[part].state \in {"absent", "created"}
    \/ phase = "failed" /\ ~Replaced /\ ~ManifestHolds
    \/ at = "restage" /\ ~Absent("back")
    \/ at = "backDb" /\ file["back"]["couchdb"] = "none"
    \/ at = "backPeer" /\ file["back"]["peer"] = "none"

\* From every failure, whichever block it meets, the gate brings the Seller up on one pair
\* for good, unless the interruption left one of the traps of Stuck.
Settles == <>[](Stuck \/ \A part \in Parts : con[part].state = "running")

=============================================================================
