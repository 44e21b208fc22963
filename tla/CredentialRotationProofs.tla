----------------------- MODULE CredentialRotationProofs -----------------------
(***************************************************************************)
(* Proofs about CredentialRotation for every number of faults.             *)
(***************************************************************************)
EXTENDS CredentialRotation, TLAPS

Has(place, c) == file[place]["couchdb"] = c /\ file[place]["peer"] = c

\* The blocks in the order of the runbook, cut where what holds changes.
Early    == {"begin", "manifest", "preflight"}
Stopping == {"stopPeer", "stopDb"}
Saving   == {"exportDb", "exportPeer", "validate"}
Making   == {"verifyCandidate", "stage"}
Unmoved  == Stopping \cup {"copy"} \cup Saving \cup {"generate"} \cup Making \cup {"moveDb"}
Probing  == {"runtimeDb", "probeNew", "probeOld"}
Renewing == {"verifyActive", "verifyNodes", "recreateDb"}
Switching    == {"movePeer"} \cup Renewing \cup Probing \cup Switched
Halting  == {"haltPeer", "haltDb"}
Restored == {"verifyBack", "nodesBack", "reviveDb", "revivePeer", "checkBack", "restored"}
Back     == Rollback \cup {"restored"}
Done     == Acceptance \cup {"accepted"}

\* What the files hold.
FileInv ==
    /\ at \in Early => \A part \in Parts : file["active"][part] \in {"old", "stale"}
    /\ at = "preflight" => \A part \in Parts : file["before"][part] = file["active"][part]
    /\ at \notin Early => Has("before", "old")
    /\ at \in Unmoved \ {"moveDb"} => Has("active", "old")
    /\ at = "moveDb" => /\ file["active"]["peer"] = "old" /\ file["active"]["couchdb"] \in {"old", "new"}
                        /\ phase = "running" => Has("active", "old") /\ Has("staged", "new")
    /\ at = "movePeer" =>
          /\ file["active"]["couchdb"] = "new" /\ file["active"]["peer"] \in {"old", "new"}
          /\ phase = "running" => file["staged"]["peer"] = "new"
    /\ at \in (Switching \ {"movePeer"}) \cup Done => Has("active", "new")
    /\ at \in Back => \A part \in Parts : file["active"][part] \in {"old", "new"}
    /\ at = "backDb" => IF file["back"]["couchdb"] = "none"
                        THEN file["active"]["couchdb"] = "old" /\ file["back"]["peer"] = "old"
                        ELSE Has("back", "old")
    /\ at = "backPeer" => /\ file["active"]["couchdb"] = "old"
                          /\ file["back"]["peer"] = "old" \/ file["active"]["peer"] = "old"
                          /\ file["back"]["peer"] \in {"old", "none"}
    /\ at \in Restored => Has("active", "old")

\* What was saved, and what was made.
SavedInv ==
    /\ at \in Early \cup Stopping \cup {"copy"} =>
          \A part \in Parts : file["copy"][part] # "new"
    /\ at \in Saving \cup {"generate"} \cup Making \cup {"moveDb"} \cup Switching \cup Back => Has("copy", "old")
    /\ at \in {"generate"} \cup Making \cup {"moveDb"} \cup Switching \cup Back => Has("sums", "old")
    /\ at \in Making \cup {"moveDb"} \cup Switching \cup Back \cup Done => Has("candidate", "new")

Off(part) == con[part].state # "running"

\* What the containers hold.
ConInv ==
    /\ at \in Early \cup Unmoved \cup {"movePeer"} => \A part \in Parts :
          con[part].env = "old" /\ con[part].state \in {"running", "exited"}
    /\ at = "moveDb" /\ file["active"]["couchdb"] = "new" => \A part \in Parts : Off(part)
    /\ at \in {"movePeer"} \cup Renewing => \A part \in Parts : at = "recreateDb" \/ Off(part)
    /\ at \in {"recreateDb"} \cup Probing => con["peer"].env = "old" /\ Off("peer")
    /\ at \in {"verifyActive", "verifyNodes"} => \A part \in Parts : con[part].env = "old"
    /\ at = "recreateDb" => /\ con["couchdb"].env \in {"old", "new"}
                            /\ con["couchdb"].env = "old" => Off("couchdb")
    /\ at \in Probing \cup Switched => con["couchdb"].env = "new"
    /\ at \in Switched => con["peer"].env = "new" \/ (con["peer"].env = "old" /\ Off("peer"))
    /\ at \in Done => \A part \in Parts : con[part].env = "new" /\ con[part].fits
    /\ at \in Back => \A part \in Parts : con[part].env \in {"old", "new"}
    /\ at \in Halting => /\ Off("couchdb") \/ Off("peer") \/ con["couchdb"].env = con["peer"].env
                         /\ file["active"]["couchdb"] # file["active"]["peer"] =>
                               \A part \in Parts : Off(part)
    /\ at \in {"restage", "backDb", "backPeer"} => \A part \in Parts : Off(part)
    /\ at \in {"verifyBack", "nodesBack", "reviveDb"} =>
          Off("peer") /\ (Off("couchdb") \/ (at = "reviveDb" /\ con["couchdb"].env = "old"))
    /\ at = "revivePeer" => con["couchdb"].env = "old" /\ (con["peer"].env = "old" \/ Off("peer"))
    /\ at \in {"checkBack", "restored"} => \A part \in Parts : con[part].env = "old"

IInv ==
    /\ TypeOK
    /\ phase = "failed" => at \in Forward
    /\ FileInv /\ SavedInv /\ ConInv


USE DEF Parts, Places, Passwords, Contents, Container, Acceptance, Switched, Forward, Rollback
USE DEF Early, Stopping, Saving, Making, Unmoved, Probing, Renewing, Switching, Halting, Restored,
        Back, Done, Has, Off

-----------------------------------------------------------------------------
(* The invariant holds at first, and every block keeps it.                 *)

LEMMA InitInvariant == Init => IInv
BY RotationAssumption DEF Init, Both, IInv, TypeOK, FileInv, SavedInv, ConInv

\* A container that is made, or made halfway, is one.
LEMMA NewContainers == ASSUME TypeOK, NEW part \in Parts, file["active"][part] \in Passwords
                       PROVE  /\ Recreated(part) \in [Parts -> Container]
                              /\ Unmade(part) \subseteq [Parts -> Container]
<1>1. Recreated(part) \in [Parts -> Container]
  BY DEF TypeOK, Recreated
<1>2. Unmade(part) \subseteq [Parts -> Container]
  BY <1>1 DEF Unmade
<1>. QED  BY <1>1, <1>2

\* The private directory, the manifest and the preflight leave everything as it is.
LEMMA OpeningKeeps == ASSUME IInv, Begin \/ Manifest \/ Preflight PROVE IInv'
<1>1. CASE Begin
  <2>1. TypeOK'
    BY <1>1, RotationAssumption DEF IInv, TypeOK, Begin, Check, Block
  <2>2. FileInv' /\ (phase' = "failed" => at' \in Forward)
    BY <1>1 DEF IInv, TypeOK, FileInv, SavedInv, ConInv, Begin, Check, Block
  <2>3. SavedInv'
    BY <1>1 DEF IInv, TypeOK, FileInv, SavedInv, Begin, Check, Block
  <2>4. ConInv'
    BY <1>1 DEF IInv, TypeOK, FileInv, ConInv, Begin, Check, Block
  <2>. QED  BY <2>1, <2>2, <2>3, <2>4 DEF IInv
<1>2. CASE Manifest
  <2>1. TypeOK'
    BY <1>2, RotationAssumption DEF IInv, TypeOK, Manifest, Install, Write, Absent, Filled,
         Halves, Block, Both
  <2>2. FileInv' /\ (phase' = "failed" => at' \in Forward)
    BY <1>2 DEF IInv, TypeOK, FileInv, SavedInv, ConInv, Manifest, Install, Write, Absent,
         Filled, Halves, Block, Both
  <2>3. SavedInv'
    BY <1>2 DEF IInv, TypeOK, FileInv, SavedInv, Manifest, Install, Write, Absent, Filled,
         Halves, Block, Both
  <2>4. ConInv'
    BY <1>2 DEF IInv, TypeOK, FileInv, ConInv, Manifest, Install, Write, Absent, Filled,
         Halves, Block, Both
  <2>. QED  BY <2>1, <2>2, <2>3, <2>4 DEF IInv
<1>3. CASE Preflight
  <2>1. TypeOK'
    BY <1>3, RotationAssumption DEF IInv, TypeOK, Preflight, Check, Component, Block, Runs
  <2>2. FileInv' /\ (phase' = "failed" => at' \in Forward)
    BY <1>3 DEF IInv, TypeOK, FileInv, SavedInv, ConInv, Preflight, Check, Component, Block,
         Runs
  <2>3. SavedInv'
    BY <1>3 DEF IInv, TypeOK, FileInv, SavedInv, Preflight, Check, Component, Block, Runs
  <2>4. ConInv'
    BY <1>3 DEF IInv, TypeOK, FileInv, ConInv, Preflight, Check, Component, Block, Runs
  <2>. QED  BY <2>1, <2>2, <2>3, <2>4 DEF IInv
<1>. QED  BY <1>1, <1>2, <1>3

\* Both services are stopped.
LEMMA StoppingKeeps == ASSUME IInv, StopPeer \/ StopDb PROVE IInv'
<1>1. CASE StopPeer
  <2>1. TypeOK'
    BY <1>1, RotationAssumption DEF IInv, TypeOK, StopPeer, Docker, Stopped, Block
  <2>2. FileInv' /\ (phase' = "failed" => at' \in Forward)
    BY <1>1 DEF IInv, TypeOK, FileInv, SavedInv, ConInv, StopPeer, Docker, Stopped, Block
  <2>3. SavedInv'
    BY <1>1 DEF IInv, TypeOK, FileInv, SavedInv, StopPeer, Docker, Stopped, Block
  <2>4. ConInv'
    BY <1>1 DEF IInv, TypeOK, FileInv, ConInv, StopPeer, Docker, Stopped, Block
  <2>. QED  BY <2>1, <2>2, <2>3, <2>4 DEF IInv
<1>2. CASE StopDb
  <2>1. TypeOK'
    BY <1>2, RotationAssumption DEF IInv, TypeOK, StopDb, Docker, Stopped, Block
  <2>2. FileInv' /\ (phase' = "failed" => at' \in Forward)
    BY <1>2 DEF IInv, TypeOK, FileInv, SavedInv, ConInv, StopDb, Docker, Stopped, Block
  <2>3. SavedInv'
    BY <1>2 DEF IInv, TypeOK, FileInv, SavedInv, StopDb, Docker, Stopped, Block
  <2>4. ConInv'
    BY <1>2 DEF IInv, TypeOK, FileInv, ConInv, StopDb, Docker, Stopped, Block
  <2>. QED  BY <2>1, <2>2, <2>3, <2>4 DEF IInv
<1>. QED  BY <1>1, <1>2

\* What the way back needs is saved: the old pair, the archives and the digests.
LEMMA SavingKeeps == ASSUME IInv, Copy \/ ExportDb \/ ExportPeer \/ Validate PROVE IInv'
<1>1. CASE Copy
  <2>1. TypeOK'
    BY <1>1, RotationAssumption DEF IInv, TypeOK, Copy, Install, BothExited, Write, Absent,
         Filled, Halves, Block, Both
  <2>2. FileInv' /\ (phase' = "failed" => at' \in Forward)
    BY <1>1 DEF IInv, TypeOK, FileInv, SavedInv, ConInv, Copy, Install, BothExited, Write,
         Absent, Filled, Halves, Block, Both
  <2>3. SavedInv'
    BY <1>1 DEF IInv, TypeOK, FileInv, SavedInv, Copy, Install, BothExited, Write, Absent,
         Filled, Halves, Block, Both
  <2>4. ConInv'
    BY <1>1 DEF IInv, TypeOK, FileInv, ConInv, Copy, Install, BothExited, Write, Absent,
         Filled, Halves, Block, Both
  <2>. QED  BY <2>1, <2>2, <2>3, <2>4 DEF IInv
<1>2. CASE ExportDb
  <2>1. TypeOK'
    BY <1>2, RotationAssumption DEF IInv, TypeOK, ExportDb, Export, Write, BothExited, Put,
         Block
  <2>2. FileInv' /\ (phase' = "failed" => at' \in Forward)
    BY <1>2 DEF IInv, TypeOK, FileInv, SavedInv, ConInv, ExportDb, Export, Write,
         BothExited, Put, Block
  <2>3. SavedInv'
    BY <1>2 DEF IInv, TypeOK, FileInv, SavedInv, ExportDb, Export, Write, BothExited, Put,
         Block
  <2>4. ConInv'
    BY <1>2 DEF IInv, TypeOK, FileInv, ConInv, ExportDb, Export, Write, BothExited, Put,
         Block
  <2>. QED  BY <2>1, <2>2, <2>3, <2>4 DEF IInv
<1>3. CASE ExportPeer
  <2>1. TypeOK'
    BY <1>3, RotationAssumption DEF IInv, TypeOK, ExportPeer, Export, Write, BothExited,
         Put, Block
  <2>2. FileInv' /\ (phase' = "failed" => at' \in Forward)
    BY <1>3 DEF IInv, TypeOK, FileInv, SavedInv, ConInv, ExportPeer, Export, Write,
         BothExited, Put, Block
  <2>3. SavedInv'
    BY <1>3 DEF IInv, TypeOK, FileInv, SavedInv, ExportPeer, Export, Write, BothExited, Put,
         Block
  <2>4. ConInv'
    BY <1>3 DEF IInv, TypeOK, FileInv, ConInv, ExportPeer, Export, Write, BothExited, Put,
         Block
  <2>. QED  BY <2>1, <2>2, <2>3, <2>4 DEF IInv
<1>4. CASE Validate
  <2>1. TypeOK'
    BY <1>4, RotationAssumption DEF IInv, TypeOK, Validate, Write, Both, Filled, Halves,
         Block
  <2>2. FileInv' /\ (phase' = "failed" => at' \in Forward)
    BY <1>4 DEF IInv, TypeOK, FileInv, SavedInv, ConInv, Validate, Write, Both, Filled,
         Halves, Block
  <2>3. SavedInv'
    BY <1>4 DEF IInv, TypeOK, FileInv, SavedInv, Validate, Write, Both, Filled, Halves,
         Block
  <2>4. ConInv'
    BY <1>4 DEF IInv, TypeOK, FileInv, ConInv, Validate, Write, Both, Filled, Halves, Block
  <2>. QED  BY <2>1, <2>2, <2>3, <2>4 DEF IInv
<1>. QED  BY <1>1, <1>2, <1>3, <1>4

\* The new pair is generated, verified and staged; the active files are the old ones.
LEMMA MakingKeeps == ASSUME IInv, Generate \/ VerifyCandidate \/ Stage PROVE IInv'
<1>1. CASE Generate
  <2>1. TypeOK'
    BY <1>1, RotationAssumption DEF IInv, TypeOK, Generate, Install, BothExited, Both,
         Write, Absent, Filled, Halves, Block
  <2>2. FileInv' /\ (phase' = "failed" => at' \in Forward)
    BY <1>1 DEF IInv, TypeOK, FileInv, SavedInv, ConInv, Generate, Install, BothExited,
         Both, Write, Absent, Filled, Halves, Block
  <2>3. SavedInv'
    BY <1>1 DEF IInv, TypeOK, FileInv, SavedInv, Generate, Install, BothExited, Both, Write,
         Absent, Filled, Halves, Block
  <2>4. ConInv'
    BY <1>1 DEF IInv, TypeOK, FileInv, ConInv, Generate, Install, BothExited, Both, Write,
         Absent, Filled, Halves, Block
  <2>. QED  BY <2>1, <2>2, <2>3, <2>4 DEF IInv
<1>2. CASE VerifyCandidate
  <2>1. TypeOK'
    BY <1>2, RotationAssumption DEF IInv, TypeOK, VerifyCandidate, Check, Differ, Block,
         Pair
  <2>2. FileInv' /\ (phase' = "failed" => at' \in Forward)
    BY <1>2 DEF IInv, TypeOK, FileInv, SavedInv, ConInv, VerifyCandidate, Check, Differ,
         Block, Pair
  <2>3. SavedInv'
    BY <1>2 DEF IInv, TypeOK, FileInv, SavedInv, VerifyCandidate, Check, Differ, Block, Pair
  <2>4. ConInv'
    BY <1>2 DEF IInv, TypeOK, FileInv, ConInv, VerifyCandidate, Check, Differ, Block, Pair
  <2>. QED  BY <2>1, <2>2, <2>3, <2>4 DEF IInv
<1>3. CASE Stage
  <2>1. TypeOK'
    BY <1>3, RotationAssumption DEF IInv, TypeOK, Stage, Install, BothExited, Write, Absent,
         Filled, Halves, Block, Both
  <2>2. FileInv' /\ (phase' = "failed" => at' \in Forward)
    BY <1>3 DEF IInv, TypeOK, FileInv, SavedInv, ConInv, Stage, Install, BothExited, Write,
         Absent, Filled, Halves, Block, Both
  <2>3. SavedInv'
    BY <1>3 DEF IInv, TypeOK, FileInv, SavedInv, Stage, Install, BothExited, Write, Absent,
         Filled, Halves, Block, Both
  <2>4. ConInv'
    BY <1>3 DEF IInv, TypeOK, FileInv, ConInv, Stage, Install, BothExited, Write, Absent,
         Filled, Halves, Block, Both
  <2>. QED  BY <2>1, <2>2, <2>3, <2>4 DEF IInv
<1>. QED  BY <1>1, <1>2, <1>3

\* The active files are replaced one by one, while nothing runs.
LEMMA MovingKeeps == ASSUME IInv, MoveDb \/ MovePeer \/ VerifyActive \/ VerifyNodes PROVE IInv'
<1>1. CASE MoveDb
  <2>1. TypeOK'
    BY <1>1, RotationAssumption DEF IInv, TypeOK, MoveDb, Move, Write, BothExited, Moved,
         Block
  <2>2. FileInv' /\ (phase' = "failed" => at' \in Forward)
    BY <1>1 DEF IInv, TypeOK, FileInv, SavedInv, ConInv, MoveDb, Move, Write, BothExited,
         Moved, Block
  <2>3. SavedInv'
    BY <1>1 DEF IInv, TypeOK, FileInv, SavedInv, MoveDb, Move, Write, BothExited, Moved,
         Block
  <2>4. ConInv'
    BY <1>1 DEF IInv, TypeOK, FileInv, ConInv, MoveDb, Move, Write, BothExited, Moved, Block
  <2>. QED  BY <2>1, <2>2, <2>3, <2>4 DEF IInv
<1>2. CASE MovePeer
  <2>1. TypeOK'
    BY <1>2, RotationAssumption DEF IInv, TypeOK, MovePeer, Move, Write, BothExited, Moved,
         Block
  <2>2. FileInv' /\ (phase' = "failed" => at' \in Forward)
    BY <1>2 DEF IInv, TypeOK, FileInv, SavedInv, ConInv, MovePeer, Move, Write, BothExited,
         Moved, Block
  <2>3. SavedInv'
    BY <1>2 DEF IInv, TypeOK, FileInv, SavedInv, MovePeer, Move, Write, BothExited, Moved,
         Block
  <2>4. ConInv'
    BY <1>2 DEF IInv, TypeOK, FileInv, ConInv, MovePeer, Move, Write, BothExited, Moved,
         Block
  <2>. QED  BY <2>1, <2>2, <2>3, <2>4 DEF IInv
<1>3. CASE VerifyActive
  <2>1. TypeOK'
    BY <1>3, RotationAssumption DEF IInv, TypeOK, VerifyActive, Check, Differ, Block, Pair
  <2>2. FileInv' /\ (phase' = "failed" => at' \in Forward)
    BY <1>3 DEF IInv, TypeOK, FileInv, SavedInv, ConInv, VerifyActive, Check, Differ, Block,
         Pair
  <2>3. SavedInv'
    BY <1>3 DEF IInv, TypeOK, FileInv, SavedInv, VerifyActive, Check, Differ, Block, Pair
  <2>4. ConInv'
    BY <1>3 DEF IInv, TypeOK, FileInv, ConInv, VerifyActive, Check, Differ, Block, Pair
  <2>. QED  BY <2>1, <2>2, <2>3, <2>4 DEF IInv
<1>4. CASE VerifyNodes
  <2>1. TypeOK'
    BY <1>4, RotationAssumption DEF IInv, TypeOK, VerifyNodes, Check, Pair, Block
  <2>2. FileInv' /\ (phase' = "failed" => at' \in Forward)
    BY <1>4 DEF IInv, TypeOK, FileInv, SavedInv, ConInv, VerifyNodes, Check, Pair, Block
  <2>3. SavedInv'
    BY <1>4 DEF IInv, TypeOK, FileInv, SavedInv, VerifyNodes, Check, Pair, Block
  <2>4. ConInv'
    BY <1>4 DEF IInv, TypeOK, FileInv, ConInv, VerifyNodes, Check, Pair, Block
  <2>. QED  BY <2>1, <2>2, <2>3, <2>4 DEF IInv
<1>. QED  BY <1>1, <1>2, <1>3, <1>4

\* The database is recreated with the new password and probed; the Peer stays down.
LEMMA RenewingKeeps == ASSUME IInv, RecreateDb \/ RuntimeDb \/ ProbeNew \/ ProbeOld PROVE IInv'
<1>1. CASE RecreateDb
  <2>1. TypeOK'
    BY <1>1, RotationAssumption, NewContainers DEF IInv, TypeOK, FileInv, RecreateDb, Docker, Block
  <2>2. FileInv' /\ (phase' = "failed" => at' \in Forward)
    BY <1>1 DEF IInv, TypeOK, FileInv, SavedInv, ConInv, RecreateDb, Docker, Recreated,
         Unmade, Block
  <2>3. SavedInv'
    BY <1>1 DEF IInv, TypeOK, FileInv, SavedInv, RecreateDb, Docker, Recreated, Unmade,
         Block
  <2>4. ConInv'
    BY <1>1 DEF IInv, TypeOK, FileInv, ConInv, RecreateDb, Docker, Recreated, Unmade, Block
  <2>. QED  BY <2>1, <2>2, <2>3, <2>4 DEF IInv
<1>2. CASE RuntimeDb
  <2>1. TypeOK'
    BY <1>2, RotationAssumption DEF IInv, TypeOK, RuntimeDb, Check, Component, Block, Runs
  <2>2. FileInv' /\ (phase' = "failed" => at' \in Forward)
    BY <1>2 DEF IInv, TypeOK, FileInv, SavedInv, ConInv, RuntimeDb, Check, Component, Block,
         Runs
  <2>3. SavedInv'
    BY <1>2 DEF IInv, TypeOK, FileInv, SavedInv, RuntimeDb, Check, Component, Block, Runs
  <2>4. ConInv'
    BY <1>2 DEF IInv, TypeOK, FileInv, ConInv, RuntimeDb, Check, Component, Block, Runs
  <2>. QED  BY <2>1, <2>2, <2>3, <2>4 DEF IInv
<1>3. CASE ProbeNew
  <2>1. TypeOK'
    BY <1>3, RotationAssumption DEF IInv, TypeOK, ProbeNew, Check, Runs, Block
  <2>2. FileInv' /\ (phase' = "failed" => at' \in Forward)
    BY <1>3 DEF IInv, TypeOK, FileInv, SavedInv, ConInv, ProbeNew, Check, Runs, Block
  <2>3. SavedInv'
    BY <1>3 DEF IInv, TypeOK, FileInv, SavedInv, ProbeNew, Check, Runs, Block
  <2>4. ConInv'
    BY <1>3 DEF IInv, TypeOK, FileInv, ConInv, ProbeNew, Check, Runs, Block
  <2>. QED  BY <2>1, <2>2, <2>3, <2>4 DEF IInv
<1>4. CASE ProbeOld
  <2>1. TypeOK'
    BY <1>4, RotationAssumption DEF IInv, TypeOK, ProbeOld, Check, Block
  <2>2. FileInv' /\ (phase' = "failed" => at' \in Forward)
    BY <1>4 DEF IInv, TypeOK, FileInv, SavedInv, ConInv, ProbeOld, Check, Block
  <2>3. SavedInv'
    BY <1>4 DEF IInv, TypeOK, FileInv, SavedInv, ProbeOld, Check, Block
  <2>4. ConInv'
    BY <1>4 DEF IInv, TypeOK, FileInv, ConInv, ProbeOld, Check, Block
  <2>. QED  BY <2>1, <2>2, <2>3, <2>4 DEF IInv
<1>. QED  BY <1>1, <1>2, <1>3, <1>4

\* The Peer is recreated with the new password.
LEMMA JoiningKeeps == ASSUME IInv, RecreatePeer \/ RuntimeBoth PROVE IInv'
<1>1. CASE RecreatePeer
  <2>1. TypeOK'
    BY <1>1, RotationAssumption, NewContainers DEF IInv, TypeOK, FileInv, RecreatePeer, Docker, Block
  <2>2. FileInv' /\ (phase' = "failed" => at' \in Forward)
    BY <1>1 DEF IInv, TypeOK, FileInv, SavedInv, ConInv, RecreatePeer, Docker, Recreated,
         Unmade, Block
  <2>3. SavedInv'
    BY <1>1 DEF IInv, TypeOK, FileInv, SavedInv, RecreatePeer, Docker, Recreated, Unmade,
         Block
  <2>4. ConInv'
    BY <1>1 DEF IInv, TypeOK, FileInv, ConInv, RecreatePeer, Docker, Recreated, Unmade,
         Block
  <2>. QED  BY <2>1, <2>2, <2>3, <2>4 DEF IInv
<1>2. CASE RuntimeBoth
  <2>1. TypeOK'
    BY <1>2, RotationAssumption DEF IInv, TypeOK, RuntimeBoth, Check, Component, Block, Runs
  <2>2. FileInv' /\ (phase' = "failed" => at' \in Forward)
    BY <1>2 DEF IInv, TypeOK, FileInv, SavedInv, ConInv, RuntimeBoth, Check, Component,
         Block, Runs
  <2>3. SavedInv'
    BY <1>2 DEF IInv, TypeOK, FileInv, SavedInv, RuntimeBoth, Check, Component, Block, Runs
  <2>4. ConInv'
    BY <1>2 DEF IInv, TypeOK, FileInv, ConInv, RuntimeBoth, Check, Component, Block, Runs
  <2>. QED  BY <2>1, <2>2, <2>3, <2>4 DEF IInv
<1>. QED  BY <1>1, <1>2

\* The old copies go, and the services and files stay on the new pair.
LEMMA AcceptingKeeps == ASSUME IInv, DropDbCopy \/ DropPeerCopy \/ DropDirs \/ Unmark PROVE IInv'
<1>1. CASE DropDbCopy
  <2>1. TypeOK'
    BY <1>1, RotationAssumption DEF IInv, TypeOK, DropDbCopy, Write, Put, Block
  <2>2. FileInv' /\ (phase' = "failed" => at' \in Forward)
    BY <1>1 DEF IInv, TypeOK, FileInv, SavedInv, ConInv, DropDbCopy, Write, Put, Block
  <2>3. SavedInv'
    BY <1>1 DEF IInv, TypeOK, FileInv, SavedInv, DropDbCopy, Write, Put, Block
  <2>4. ConInv'
    BY <1>1 DEF IInv, TypeOK, FileInv, ConInv, DropDbCopy, Write, Put, Block
  <2>. QED  BY <2>1, <2>2, <2>3, <2>4 DEF IInv
<1>2. CASE DropPeerCopy
  <2>1. TypeOK'
    BY <1>2, RotationAssumption DEF IInv, TypeOK, DropPeerCopy, Write, Put, Block
  <2>2. FileInv' /\ (phase' = "failed" => at' \in Forward)
    BY <1>2 DEF IInv, TypeOK, FileInv, SavedInv, ConInv, DropPeerCopy, Write, Put, Block
  <2>3. SavedInv'
    BY <1>2 DEF IInv, TypeOK, FileInv, SavedInv, DropPeerCopy, Write, Put, Block
  <2>4. ConInv'
    BY <1>2 DEF IInv, TypeOK, FileInv, ConInv, DropPeerCopy, Write, Put, Block
  <2>. QED  BY <2>1, <2>2, <2>3, <2>4 DEF IInv
<1>3. CASE DropDirs
  <2>1. TypeOK'
    BY <1>3, RotationAssumption DEF IInv, TypeOK, DropDirs, Check, Absent, Block, Both
  <2>2. FileInv' /\ (phase' = "failed" => at' \in Forward)
    BY <1>3 DEF IInv, TypeOK, FileInv, SavedInv, ConInv, DropDirs, Check, Absent, Block, Both
  <2>3. SavedInv'
    BY <1>3 DEF IInv, TypeOK, FileInv, SavedInv, DropDirs, Check, Absent, Block, Both
  <2>4. ConInv'
    BY <1>3 DEF IInv, TypeOK, FileInv, ConInv, DropDirs, Check, Absent, Block, Both
  <2>. QED  BY <2>1, <2>2, <2>3, <2>4 DEF IInv
<1>4. CASE Unmark
  <2>1. TypeOK'
    BY <1>4, RotationAssumption DEF IInv, TypeOK, Unmark, Check, Block
  <2>2. FileInv' /\ (phase' = "failed" => at' \in Forward)
    BY <1>4 DEF IInv, TypeOK, FileInv, SavedInv, ConInv, Unmark, Check, Block
  <2>3. SavedInv'
    BY <1>4 DEF IInv, TypeOK, FileInv, SavedInv, Unmark, Check, Block
  <2>4. ConInv'
    BY <1>4 DEF IInv, TypeOK, FileInv, ConInv, Unmark, Check, Block
  <2>. QED  BY <2>1, <2>2, <2>3, <2>4 DEF IInv
<1>. QED  BY <1>1, <1>2, <1>3, <1>4

\* After a failure services are started only over the old files, and a rollback begins from any block.
LEMMA FailingKeeps == ASSUME IInv, StartDb \/ StartPeer \/ Resume \/ RollBack PROVE IInv'
<1>1. CASE StartDb
  <2>1. TypeOK'
    BY <1>1, RotationAssumption DEF IInv, TypeOK, StartDb, Start, ManifestHolds, Started,
         Holds
  <2>2. FileInv' /\ (phase' = "failed" => at' \in Forward)
    BY <1>1 DEF IInv, TypeOK, FileInv, SavedInv, ConInv, StartDb, Start, ManifestHolds,
         Started, Holds
  <2>3. SavedInv'
    BY <1>1 DEF IInv, TypeOK, FileInv, SavedInv, StartDb, Start, ManifestHolds, Started,
         Holds
  <2>4. ConInv'
    BY <1>1 DEF IInv, TypeOK, FileInv, ConInv, StartDb, Start, ManifestHolds, Started, Holds
  <2>. QED  BY <2>1, <2>2, <2>3, <2>4 DEF IInv
<1>2. CASE StartPeer
  <2>1. TypeOK'
    BY <1>2, RotationAssumption DEF IInv, TypeOK, StartPeer, Start, ManifestHolds, Started,
         Holds
  <2>2. FileInv' /\ (phase' = "failed" => at' \in Forward)
    BY <1>2 DEF IInv, TypeOK, FileInv, SavedInv, ConInv, StartPeer, Start, ManifestHolds,
         Started, Holds
  <2>3. SavedInv'
    BY <1>2 DEF IInv, TypeOK, FileInv, SavedInv, StartPeer, Start, ManifestHolds, Started,
         Holds
  <2>4. ConInv'
    BY <1>2 DEF IInv, TypeOK, FileInv, ConInv, StartPeer, Start, ManifestHolds, Started,
         Holds
  <2>. QED  BY <2>1, <2>2, <2>3, <2>4 DEF IInv
<1>3. CASE Resume
  <2>1. TypeOK'
    BY <1>3, RotationAssumption DEF IInv, TypeOK, Resume
  <2>2. FileInv' /\ (phase' = "failed" => at' \in Forward)
    BY <1>3 DEF IInv, TypeOK, FileInv, SavedInv, ConInv, Resume
  <2>3. SavedInv'
    BY <1>3 DEF IInv, TypeOK, FileInv, SavedInv, Resume
  <2>4. ConInv'
    BY <1>3 DEF IInv, TypeOK, FileInv, ConInv, Resume
  <2>. QED  BY <2>1, <2>2, <2>3, <2>4 DEF IInv
<1>4. CASE RollBack
  <2>1. TypeOK'
    BY <1>4, RotationAssumption DEF IInv, TypeOK, RollBack, Replaced
  <2>2. FileInv' /\ (phase' = "failed" => at' \in Forward)
    BY <1>4 DEF IInv, TypeOK, FileInv, SavedInv, ConInv, RollBack, Replaced
  <2>3. SavedInv'
    BY <1>4 DEF IInv, TypeOK, FileInv, SavedInv, RollBack, Replaced
  <2>4. ConInv'
    BY <1>4 DEF IInv, TypeOK, FileInv, ConInv, RollBack, Replaced
  <2>. QED  BY <2>1, <2>2, <2>3, <2>4 DEF IInv
<1>. QED  BY <1>1, <1>2, <1>3, <1>4

\* The rollback stops both services and stages the old pair.
LEMMA HaltingKeeps == ASSUME IInv, HaltPeer \/ HaltDb \/ Restage PROVE IInv'
<1>1. CASE HaltPeer
  <2>1. TypeOK'
    BY <1>1, RotationAssumption DEF IInv, TypeOK, HaltPeer, Docker, Stopped, Block
  <2>2. FileInv' /\ (phase' = "failed" => at' \in Forward)
    BY <1>1 DEF IInv, TypeOK, FileInv, SavedInv, ConInv, HaltPeer, Docker, Stopped, Block
  <2>3. SavedInv'
    BY <1>1 DEF IInv, TypeOK, FileInv, SavedInv, HaltPeer, Docker, Stopped, Block
  <2>4. ConInv'
    BY <1>1 DEF IInv, TypeOK, FileInv, ConInv, HaltPeer, Docker, Stopped, Block
  <2>. QED  BY <2>1, <2>2, <2>3, <2>4 DEF IInv
<1>2. CASE HaltDb
  <2>1. TypeOK'
    BY <1>2, RotationAssumption DEF IInv, TypeOK, HaltDb, Docker, Stopped, Block
  <2>2. FileInv' /\ (phase' = "failed" => at' \in Forward)
    BY <1>2 DEF IInv, TypeOK, FileInv, SavedInv, ConInv, HaltDb, Docker, Stopped, Block
  <2>3. SavedInv'
    BY <1>2 DEF IInv, TypeOK, FileInv, SavedInv, HaltDb, Docker, Stopped, Block
  <2>4. ConInv'
    BY <1>2 DEF IInv, TypeOK, FileInv, ConInv, HaltDb, Docker, Stopped, Block
  <2>. QED  BY <2>1, <2>2, <2>3, <2>4 DEF IInv
<1>3. CASE Restage
  <2>1. TypeOK'
    BY <1>3, RotationAssumption DEF IInv, TypeOK, Restage, Install, BothExited, Holds,
         Write, Absent, Filled, Halves, Block, Both
  <2>2. FileInv' /\ (phase' = "failed" => at' \in Forward)
    BY <1>3 DEF IInv, TypeOK, FileInv, SavedInv, ConInv, Restage, Install, BothExited,
         Holds, Write, Absent, Filled, Halves, Block, Both
  <2>3. SavedInv'
    BY <1>3 DEF IInv, TypeOK, FileInv, SavedInv, Restage, Install, BothExited, Holds, Write,
         Absent, Filled, Halves, Block, Both
  <2>4. ConInv'
    BY <1>3 DEF IInv, TypeOK, FileInv, ConInv, Restage, Install, BothExited, Holds, Write,
         Absent, Filled, Halves, Block, Both
  <2>. QED  BY <2>1, <2>2, <2>3, <2>4 DEF IInv
<1>. QED  BY <1>1, <1>2, <1>3

\* The old files are put back while nothing runs.
LEMMA ReturningKeeps == ASSUME IInv, BackDb \/ BackPeer \/ VerifyBack \/ NodesBack PROVE IInv'
<1>1. CASE BackDb
  <2>1. TypeOK'
    BY <1>1, RotationAssumption DEF IInv, TypeOK, BackDb, Move, Write, BothExited, Moved,
         Block
  <2>2. FileInv' /\ (phase' = "failed" => at' \in Forward)
    BY <1>1 DEF IInv, TypeOK, FileInv, SavedInv, ConInv, BackDb, Move, Write, BothExited,
         Moved, Block
  <2>3. SavedInv'
    BY <1>1 DEF IInv, TypeOK, FileInv, SavedInv, BackDb, Move, Write, BothExited, Moved,
         Block
  <2>4. ConInv'
    BY <1>1 DEF IInv, TypeOK, FileInv, ConInv, BackDb, Move, Write, BothExited, Moved, Block
  <2>. QED  BY <2>1, <2>2, <2>3, <2>4 DEF IInv
<1>2. CASE BackPeer
  <2>1. TypeOK'
    BY <1>2, RotationAssumption DEF IInv, TypeOK, BackPeer, Move, Write, BothExited, Moved,
         Block
  <2>2. FileInv' /\ (phase' = "failed" => at' \in Forward)
    BY <1>2 DEF IInv, TypeOK, FileInv, SavedInv, ConInv, BackPeer, Move, Write, BothExited,
         Moved, Block
  <2>3. SavedInv'
    BY <1>2 DEF IInv, TypeOK, FileInv, SavedInv, BackPeer, Move, Write, BothExited, Moved,
         Block
  <2>4. ConInv'
    BY <1>2 DEF IInv, TypeOK, FileInv, ConInv, BackPeer, Move, Write, BothExited, Moved,
         Block
  <2>. QED  BY <2>1, <2>2, <2>3, <2>4 DEF IInv
<1>3. CASE VerifyBack
  <2>1. TypeOK'
    BY <1>3, RotationAssumption DEF IInv, TypeOK, VerifyBack, Check, Differ, Block, Pair
  <2>2. FileInv' /\ (phase' = "failed" => at' \in Forward)
    BY <1>3 DEF IInv, TypeOK, FileInv, SavedInv, ConInv, VerifyBack, Check, Differ, Block,
         Pair
  <2>3. SavedInv'
    BY <1>3 DEF IInv, TypeOK, FileInv, SavedInv, VerifyBack, Check, Differ, Block, Pair
  <2>4. ConInv'
    BY <1>3 DEF IInv, TypeOK, FileInv, ConInv, VerifyBack, Check, Differ, Block, Pair
  <2>. QED  BY <2>1, <2>2, <2>3, <2>4 DEF IInv
<1>4. CASE NodesBack
  <2>1. TypeOK'
    BY <1>4, RotationAssumption DEF IInv, TypeOK, NodesBack, Check, Pair, Block
  <2>2. FileInv' /\ (phase' = "failed" => at' \in Forward)
    BY <1>4 DEF IInv, TypeOK, FileInv, SavedInv, ConInv, NodesBack, Check, Pair, Block
  <2>3. SavedInv'
    BY <1>4 DEF IInv, TypeOK, FileInv, SavedInv, NodesBack, Check, Pair, Block
  <2>4. ConInv'
    BY <1>4 DEF IInv, TypeOK, FileInv, ConInv, NodesBack, Check, Pair, Block
  <2>. QED  BY <2>1, <2>2, <2>3, <2>4 DEF IInv
<1>. QED  BY <1>1, <1>2, <1>3, <1>4

\* Both services are recreated with the old password.
LEMMA RevivingKeeps == ASSUME IInv, ReviveDb \/ RevivePeer \/ CheckBack PROVE IInv'
<1>1. CASE ReviveDb
  <2>1. TypeOK'
    BY <1>1, RotationAssumption, NewContainers DEF IInv, TypeOK, FileInv, ReviveDb, Docker, Block
  <2>2. FileInv' /\ (phase' = "failed" => at' \in Forward)
    BY <1>1 DEF IInv, TypeOK, FileInv, SavedInv, ConInv, ReviveDb, Docker, Recreated,
         Unmade, Block
  <2>3. SavedInv'
    BY <1>1 DEF IInv, TypeOK, FileInv, SavedInv, ReviveDb, Docker, Recreated, Unmade, Block
  <2>4. ConInv'
    BY <1>1 DEF IInv, TypeOK, FileInv, ConInv, ReviveDb, Docker, Recreated, Unmade, Block
  <2>. QED  BY <2>1, <2>2, <2>3, <2>4 DEF IInv
<1>2. CASE RevivePeer
  <2>1. TypeOK'
    BY <1>2, RotationAssumption, NewContainers DEF IInv, TypeOK, FileInv, RevivePeer, Docker, Block
  <2>2. FileInv' /\ (phase' = "failed" => at' \in Forward)
    BY <1>2 DEF IInv, TypeOK, FileInv, SavedInv, ConInv, RevivePeer, Docker, Recreated,
         Unmade, Block
  <2>3. SavedInv'
    BY <1>2 DEF IInv, TypeOK, FileInv, SavedInv, RevivePeer, Docker, Recreated, Unmade,
         Block
  <2>4. ConInv'
    BY <1>2 DEF IInv, TypeOK, FileInv, ConInv, RevivePeer, Docker, Recreated, Unmade, Block
  <2>. QED  BY <2>1, <2>2, <2>3, <2>4 DEF IInv
<1>3. CASE CheckBack
  <2>1. TypeOK'
    BY <1>3, RotationAssumption DEF IInv, TypeOK, CheckBack, Runs
  <2>2. FileInv' /\ (phase' = "failed" => at' \in Forward)
    BY <1>3 DEF IInv, TypeOK, FileInv, SavedInv, ConInv, CheckBack, Runs
  <2>3. SavedInv'
    BY <1>3 DEF IInv, TypeOK, FileInv, SavedInv, CheckBack, Runs
  <2>4. ConInv'
    BY <1>3 DEF IInv, TypeOK, FileInv, ConInv, CheckBack, Runs
  <2>. QED  BY <2>1, <2>2, <2>3, <2>4 DEF IInv
<1>. QED  BY <1>1, <1>2, <1>3

\* A service may die at any moment before the acceptance.
LEMMA DyingKeeps == ASSUME IInv, NEW part \in Parts, Die(part) PROVE IInv'
<1>1. TypeOK'
  BY RotationAssumption DEF Die, Stopped, IInv, TypeOK
<1>2. FileInv' /\ SavedInv' /\ (phase' = "failed" => at' \in Forward)
  BY DEF Die, IInv, FileInv, SavedInv
<1>3. ConInv'
  BY DEF Die, Stopped, IInv, TypeOK, ConInv
<1>. QED  BY <1>1, <1>2, <1>3 DEF IInv

LEMMA StepInvariant == IInv /\ [Next]_vars => IInv'
<1>. SUFFICES ASSUME IInv, [Next]_vars PROVE IInv'
  OBVIOUS
<1>1. CASE UNCHANGED vars
  BY <1>1 DEF vars, IInv, TypeOK, FileInv, SavedInv, ConInv
<1>2. CASE GoForward
  BY <1>2, OpeningKeeps, StoppingKeeps, SavingKeeps, MakingKeeps, MovingKeeps, RenewingKeeps,
     JoiningKeeps, AcceptingKeeps DEF GoForward
<1>3. CASE GoBack
  BY <1>3, FailingKeeps, HaltingKeeps, ReturningKeeps, RevivingKeeps DEF GoBack
<1>4. CASE \E part \in Parts : Die(part)
  BY <1>4, DyingKeeps
<1>. QED  BY <1>1, <1>2, <1>3, <1>4 DEF Next, Operator

LEMMA Invariance == Spec => []IInv
BY InitInvariant, StepInvariant, PTL DEF Spec

\* The state of the rotation stays well typed, for any number of faults.
THEOREM TypeCorrect == Spec => []TypeOK
<1>1. IInv => TypeOK
  BY DEF IInv
<1>. QED  BY <1>1, Invariance, PTL

\* Seller Peer and CouchDB never run with two different passwords.
THEOREM NeverOnTwo == Spec => []PairServes
<1>1. IInv => PairServes
  BY DEF IInv, TypeOK, ConInv, PairServes
<1>. QED  BY <1>1, Invariance, PTL

\* After the preflight the active files differ only while neither service runs.
THEOREM MixedIsStopped == Spec => []MixedOnlyStopped
<1>1. IInv => MixedOnlyStopped
  BY DEF IInv, TypeOK, FileInv, ConInv, MixedOnlyStopped, Pair
<1>. QED  BY <1>1, Invariance, PTL

\* Until the acceptance both old files can be put back.
THEOREM CanGoBack == Spec => []RollbackReady
<1>1. IInv => RollbackReady
  BY DEF IInv, TypeOK, FileInv, SavedInv, RollbackReady, Replaced, Both, Holds
<1>. QED  BY <1>1, Invariance, PTL

\* When the old copies begin to go, files and containers have the new password.
THEOREM AcceptedIsRotated == Spec => []AcceptedMeansRotated
<1>1. IInv => AcceptedMeansRotated
  BY DEF IInv, TypeOK, FileInv, SavedInv, ConInv, AcceptedMeansRotated, Both
<1>. QED  BY <1>1, Invariance, PTL

-----------------------------------------------------------------------------
(* The rotation implements PairSwitch.                                     *)

Before == Early \cup Stopping \cup {"copy"} \cup Saving \cup {"generate"}

\* What a step may do to what the abstract switch sees: one container changes at a time, a
\* new pair is made by one block, and the old pair goes after the acceptance only.
Effect ==
    /\ \E part \in Parts : con'[part] = con[part]
    /\ at \notin Before => at' \notin Before
    /\ at \in Before /\ at' \notin Before => at = "generate" /\ con' = con
    /\ at \in Before => \/ file'["candidate"] = file["candidate"]
                        \/ at = "generate" /\ con' = con /\ file["candidate"]["peer"] = "none"
    /\ at \notin Done /\ at' \in Done =>
          UNCHANGED <<file, con>> /\ \A part \in Parts : ~Off(part) /\ con[part].env = "new"
    /\ at \in Done => /\ at' \in Done /\ con' = con
                      /\ \A place \in Places \ {"copy"} : file'[place] = file[place]
                      /\ \A part \in Parts : file'["copy"][part] \in {file["copy"][part], "none"}

LEMMA OpeningEffects == ASSUME IInv, Begin \/ Manifest \/ Preflight PROVE Effect
<1>1. CASE Begin
  BY <1>1 DEF IInv, TypeOK, FileInv, SavedInv, ConInv, Effect, Before, Begin, Check, Block
<1>2. CASE Manifest
  BY <1>2 DEF IInv, TypeOK, FileInv, SavedInv, ConInv, Effect, Before, Manifest, Install,
       Write, Absent, Filled, Halves, Block, Both
<1>3. CASE Preflight
  BY <1>3 DEF IInv, TypeOK, FileInv, SavedInv, ConInv, Effect, Before, Preflight, Check,
       Component, Block, Runs
<1>. QED  BY <1>1, <1>2, <1>3

LEMMA StoppingEffects == ASSUME IInv, StopPeer \/ StopDb PROVE Effect
<1>1. CASE StopPeer
  BY <1>1 DEF IInv, TypeOK, FileInv, SavedInv, ConInv, Effect, Before, StopPeer, Docker,
       Stopped, Block
<1>2. CASE StopDb
  BY <1>2 DEF IInv, TypeOK, FileInv, SavedInv, ConInv, Effect, Before, StopDb, Docker,
       Stopped, Block
<1>. QED  BY <1>1, <1>2

LEMMA SavingEffects == ASSUME IInv, Copy \/ ExportDb \/ ExportPeer \/ Validate PROVE Effect
<1>1. CASE Copy
  BY <1>1 DEF IInv, TypeOK, FileInv, SavedInv, ConInv, Effect, Before, Copy, Install,
       BothExited, Write, Absent, Filled, Halves, Block, Both
<1>2. CASE ExportDb
  BY <1>2 DEF IInv, TypeOK, FileInv, SavedInv, ConInv, Effect, Before, ExportDb, Export,
       Write, BothExited, Put, Block
<1>3. CASE ExportPeer
  BY <1>3 DEF IInv, TypeOK, FileInv, SavedInv, ConInv, Effect, Before, ExportPeer, Export,
       Write, BothExited, Put, Block
<1>4. CASE Validate
  BY <1>4 DEF IInv, TypeOK, FileInv, SavedInv, ConInv, Effect, Before, Validate, Write,
       Both, Filled, Halves, Block
<1>. QED  BY <1>1, <1>2, <1>3, <1>4

LEMMA MakingEffects == ASSUME IInv, Generate \/ VerifyCandidate \/ Stage PROVE Effect
<1>1. CASE Generate
  BY <1>1 DEF IInv, TypeOK, FileInv, SavedInv, ConInv, Effect, Before, Generate, Install,
       BothExited, Both, Write, Absent, Filled, Halves, Block
<1>2. CASE VerifyCandidate
  BY <1>2 DEF IInv, TypeOK, FileInv, SavedInv, ConInv, Effect, Before, VerifyCandidate,
       Check, Differ, Block, Pair
<1>3. CASE Stage
  BY <1>3 DEF IInv, TypeOK, FileInv, SavedInv, ConInv, Effect, Before, Stage, Install,
       BothExited, Write, Absent, Filled, Halves, Block, Both
<1>. QED  BY <1>1, <1>2, <1>3

LEMMA MovingEffects == ASSUME IInv, MoveDb \/ MovePeer \/ VerifyActive \/ VerifyNodes PROVE Effect
<1>1. CASE MoveDb
  BY <1>1 DEF IInv, TypeOK, FileInv, SavedInv, ConInv, Effect, Before, MoveDb, Move, Write,
       BothExited, Moved, Block
<1>2. CASE MovePeer
  BY <1>2 DEF IInv, TypeOK, FileInv, SavedInv, ConInv, Effect, Before, MovePeer, Move,
       Write, BothExited, Moved, Block
<1>3. CASE VerifyActive
  BY <1>3 DEF IInv, TypeOK, FileInv, SavedInv, ConInv, Effect, Before, VerifyActive, Check,
       Differ, Block, Pair
<1>4. CASE VerifyNodes
  BY <1>4 DEF IInv, TypeOK, FileInv, SavedInv, ConInv, Effect, Before, VerifyNodes, Check,
       Pair, Block
<1>. QED  BY <1>1, <1>2, <1>3, <1>4

LEMMA RenewingEffects == ASSUME IInv, RecreateDb \/ RuntimeDb \/ ProbeNew \/ ProbeOld PROVE Effect
<1>1. CASE RecreateDb
  BY <1>1 DEF IInv, TypeOK, FileInv, SavedInv, ConInv, Effect, Before, RecreateDb, Docker,
       Recreated, Unmade, Block
<1>2. CASE RuntimeDb
  BY <1>2 DEF IInv, TypeOK, FileInv, SavedInv, ConInv, Effect, Before, RuntimeDb, Check,
       Component, Block, Runs
<1>3. CASE ProbeNew
  BY <1>3 DEF IInv, TypeOK, FileInv, SavedInv, ConInv, Effect, Before, ProbeNew, Check,
       Runs, Block
<1>4. CASE ProbeOld
  BY <1>4 DEF IInv, TypeOK, FileInv, SavedInv, ConInv, Effect, Before, ProbeOld, Check,
       Block
<1>. QED  BY <1>1, <1>2, <1>3, <1>4

LEMMA JoiningEffects == ASSUME IInv, RecreatePeer \/ RuntimeBoth PROVE Effect
<1>1. CASE RecreatePeer
  BY <1>1 DEF IInv, TypeOK, FileInv, SavedInv, ConInv, Effect, Before, RecreatePeer, Docker,
       Recreated, Unmade, Block
<1>2. CASE RuntimeBoth
  BY <1>2 DEF IInv, TypeOK, FileInv, SavedInv, ConInv, Effect, Before, RuntimeBoth, Check,
       Component, Block, Runs
<1>. QED  BY <1>1, <1>2

LEMMA AcceptingEffects == ASSUME IInv, DropDbCopy \/ DropPeerCopy \/ DropDirs \/ Unmark PROVE Effect
<1>1. CASE DropDbCopy
  BY <1>1 DEF IInv, TypeOK, FileInv, SavedInv, ConInv, Effect, Before, DropDbCopy, Write,
       Put, Block
<1>2. CASE DropPeerCopy
  BY <1>2 DEF IInv, TypeOK, FileInv, SavedInv, ConInv, Effect, Before, DropPeerCopy, Write,
       Put, Block
<1>3. CASE DropDirs
  BY <1>3 DEF IInv, TypeOK, FileInv, SavedInv, ConInv, Effect, Before, DropDirs, Check,
       Absent, Block, Both
<1>4. CASE Unmark
  BY <1>4 DEF IInv, TypeOK, FileInv, SavedInv, ConInv, Effect, Before, Unmark, Check, Block
<1>. QED  BY <1>1, <1>2, <1>3, <1>4

LEMMA FailingEffects == ASSUME IInv, StartDb \/ StartPeer \/ Resume \/ RollBack PROVE Effect
<1>1. CASE StartDb
  BY <1>1 DEF IInv, TypeOK, FileInv, SavedInv, ConInv, Effect, Before, StartDb, Start,
       ManifestHolds, Started, Holds
<1>2. CASE StartPeer
  BY <1>2 DEF IInv, TypeOK, FileInv, SavedInv, ConInv, Effect, Before, StartPeer, Start,
       ManifestHolds, Started, Holds
<1>3. CASE Resume
  BY <1>3 DEF IInv, TypeOK, FileInv, SavedInv, ConInv, Effect, Before, Resume
<1>4. CASE RollBack
  BY <1>4 DEF IInv, TypeOK, FileInv, SavedInv, ConInv, Effect, Before, RollBack, Replaced
<1>. QED  BY <1>1, <1>2, <1>3, <1>4

LEMMA HaltingEffects == ASSUME IInv, HaltPeer \/ HaltDb \/ Restage PROVE Effect
<1>1. CASE HaltPeer
  BY <1>1 DEF IInv, TypeOK, FileInv, SavedInv, ConInv, Effect, Before, HaltPeer, Docker,
       Stopped, Block
<1>2. CASE HaltDb
  BY <1>2 DEF IInv, TypeOK, FileInv, SavedInv, ConInv, Effect, Before, HaltDb, Docker,
       Stopped, Block
<1>3. CASE Restage
  BY <1>3 DEF IInv, TypeOK, FileInv, SavedInv, ConInv, Effect, Before, Restage, Install,
       BothExited, Holds, Write, Absent, Filled, Halves, Block, Both
<1>. QED  BY <1>1, <1>2, <1>3

LEMMA ReturningEffects == ASSUME IInv, BackDb \/ BackPeer \/ VerifyBack \/ NodesBack PROVE Effect
<1>1. CASE BackDb
  BY <1>1 DEF IInv, TypeOK, FileInv, SavedInv, ConInv, Effect, Before, BackDb, Move, Write,
       BothExited, Moved, Block
<1>2. CASE BackPeer
  BY <1>2 DEF IInv, TypeOK, FileInv, SavedInv, ConInv, Effect, Before, BackPeer, Move,
       Write, BothExited, Moved, Block
<1>3. CASE VerifyBack
  BY <1>3 DEF IInv, TypeOK, FileInv, SavedInv, ConInv, Effect, Before, VerifyBack, Check,
       Differ, Block, Pair
<1>4. CASE NodesBack
  BY <1>4 DEF IInv, TypeOK, FileInv, SavedInv, ConInv, Effect, Before, NodesBack, Check,
       Pair, Block
<1>. QED  BY <1>1, <1>2, <1>3, <1>4

LEMMA RevivingEffects == ASSUME IInv, ReviveDb \/ RevivePeer \/ CheckBack PROVE Effect
<1>1. CASE ReviveDb
  BY <1>1 DEF IInv, TypeOK, FileInv, SavedInv, ConInv, Effect, Before, ReviveDb, Docker,
       Recreated, Unmade, Block
<1>2. CASE RevivePeer
  BY <1>2 DEF IInv, TypeOK, FileInv, SavedInv, ConInv, Effect, Before, RevivePeer, Docker,
       Recreated, Unmade, Block
<1>3. CASE CheckBack
  BY <1>3 DEF IInv, TypeOK, FileInv, SavedInv, ConInv, Effect, Before, CheckBack, Runs
<1>. QED  BY <1>1, <1>2, <1>3

LEMMA DyingEffect == ASSUME IInv, NEW part \in Parts, Die(part) PROVE Effect
BY DEF Die, Stopped, IInv, TypeOK, Effect, Before

LEMMA StepEffect == ASSUME IInv, Next PROVE Effect
<1>1. CASE GoForward
  BY <1>1, OpeningEffects, StoppingEffects, SavingEffects, MakingEffects, MovingEffects,
     RenewingEffects, JoiningEffects, AcceptingEffects DEF GoForward
<1>2. CASE GoBack
  BY <1>2, FailingEffects, HaltingEffects, ReturningEffects, RevivingEffects DEF GoBack
<1>3. CASE \E part \in Parts : Die(part)
  BY <1>3, DyingEffect
<1>. QED  BY <1>1, <1>2, <1>3 DEF Next, Operator

\* What the abstract switch sees of a state.
View ==
    /\ \A place \in Places, c \in Contents : file[place] = Both(c) <=> Has(place, c)
    /\ kept \subseteq {"old", "new"}
    /\ at \notin Done => "old" \in kept
    /\ at \notin Before => "new" \in kept
    /\ at \in Before => ("new" \in kept <=> file["candidate"] = Both("new"))
    /\ serving \in {"old", "new", "down"}
    /\ serving # "down" => /\ serving \in kept
                           /\ \A part \in Parts : ~Off(part) /\ con[part].env = serving
    /\ (\A part \in Parts : ~Off(part)) => serving = con["peer"].env

LEMMA Viewed == IInv => View
<1>. SUFFICES ASSUME IInv PROVE View
  OBVIOUS
<1>1. \A place \in Places, c \in Contents : file[place] = Both(c) <=> Has(place, c)
  BY DEF IInv, TypeOK, Both
<1>2. at \notin Done => "old" \in kept
  <2>1. CASE at \in Early \cup Unmoved \cup {"movePeer"}
    BY <2>1 DEF IInv, ConInv, Restorable, kept
  <2>2. CASE at \in Switching \cup Back
    BY <2>2, <1>1 DEF IInv, SavedInv, Restorable, kept
  <2>. QED  BY <2>1, <2>2 DEF IInv, TypeOK
<1>3. at \notin Before => "new" \in kept
  <2>1. at \notin Before => Has("candidate", "new")
    BY DEF IInv, TypeOK, SavedInv, Before
  <2>. QED  BY <1>1, <2>1 DEF Restorable, kept
<1>4. at \in Before => ("new" \in kept <=> file["candidate"] = Both("new"))
  <2>. SUFFICES ASSUME at \in Before PROVE Restorable("new") <=> file["candidate"] = Both("new")
    BY DEF kept
  <2>1. file["active"]["couchdb"] # "new" /\ file["copy"]["couchdb"] # "new"
    BY DEF IInv, FileInv, SavedInv, Before
  <2>2. \A part \in Parts : con[part].env # "new"
    BY DEF IInv, ConInv, Before
  <2>. QED  BY <1>1, <2>1, <2>2 DEF Restorable
<1>5. /\ serving \in {"old", "new", "down"}
      /\ serving # "down" => \A part \in Parts : ~Off(part) /\ con[part].env = serving
      /\ (\A part \in Parts : ~Off(part)) => serving = con["peer"].env
  <2>1. PairServes /\ \A part \in Parts : ~Off(part) => con[part].env \in {"old", "new"}
    BY DEF IInv, TypeOK, ConInv, PairServes
  <2>. QED  BY <2>1 DEF PairServes, serving
<1>6. serving # "down" => serving \in kept
  BY <1>5 DEF kept, Restorable
<1>. QED  BY <1>1, <1>2, <1>3, <1>4, <1>5, <1>6 DEF View, kept

LEMMA ViewedAfter == IInv' => View'
BY Viewed, PTL

\* Two sets of pairs with the same members are the same.
LEMMA SamePairs == ASSUME NEW S \in SUBSET {"old", "new"}, NEW T \in SUBSET {"old", "new"},
                          \A pair \in {"old", "new"} : pair \in S <=> pair \in T
                   PROVE  S = T
<1>1. ASSUME NEW x \in S PROVE x \in T
  <2>1. x \in {"old", "new"}
    BY <1>1
  <2>. QED  BY <1>1, <2>1
<1>2. ASSUME NEW x \in T PROVE x \in S
  <2>1. x \in {"old", "new"}
    BY <1>2
  <2>. QED  BY <1>2, <2>1
<1>. QED  BY <1>1, <1>2

\* The new pair is kept from the block that makes it on, and no other step changes what is kept.
LEMMA NewTogether ==
    ASSUME View, View', Effect, kept' # kept, at \notin Done, at' \notin Done
    PROVE  con' = con /\ kept' = kept \cup {"new"}
<1>1. "old" \in kept /\ "old" \in kept' /\ kept' \subseteq {"old", "new"}
  BY DEF View
<1>2. ("new" \in kept) # ("new" \in kept')
  BY <1>1, SamePairs DEF View
<1>3. at \in Before
  BY <1>2 DEF View, Effect
<1>4. "new" \in kept' => kept' = kept \cup {"new"}
  <2>. SUFFICES ASSUME "new" \in kept', NEW x PROVE x \in kept' <=> x \in kept \cup {"new"}
    OBVIOUS
  <2>1. x \in kept' => x \in {"old", "new"}
    BY <1>1
  <2>2. x \in kept => x \in {"old", "new"}
    BY DEF View
  <2>. QED  BY <1>1, <2>1, <2>2
<1>5. CASE at' \notin Before
  BY <1>3, <1>5, <1>4 DEF View, Effect
<1>6. CASE at' \in Before
  <2>1. file'["candidate"] # file["candidate"]
    BY <1>2, <1>3, <1>6 DEF View
  <2>2. con' = con /\ file["candidate"]["peer"] = "none"
    BY <1>3, <2>1 DEF Effect
  <2>3. "new" \notin kept
    <3>1. file["candidate"] = Both("new") => file["candidate"]["peer"] = "new"
      BY DEF Both
    <3>. QED  BY <1>3, <2>2, <3>1 DEF View
  <2>. QED  BY <1>2, <1>4, <2>2, <2>3
<1>. QED  BY <1>5, <1>6

\* Every block is a step of the switch or invisible to it.
LEMMA StepSwitch == ASSUME View, View', Effect
                    PROVE  Switch!Next \/ UNCHANGED <<serving, kept, trusted>>
<1>1. con' = con => serving' = serving
  BY DEF serving
<1>2. serving # "down" /\ serving' # "down" => serving' = serving
  BY DEF View, Effect
<1>3. CASE at \notin Done /\ at' \notin Done
  <2>1. trusted' = trusted
    BY <1>3 DEF trusted
  <2>2. CASE kept' = kept
    BY <1>2, <2>1, <2>2 DEF View, Switch!Next, Switch!Stop, Switch!Serve
  <2>3. CASE kept' # kept
    BY <1>1, <1>3, <2>1, <2>3, NewTogether DEF Switch!Next, Switch!Offer
  <2>. QED  BY <2>2, <2>3
<1>4. CASE at \notin Done /\ at' \in Done
  <2>1. kept' = kept /\ serving' = serving
    BY <1>1, <1>4 DEF Effect, kept, Restorable
  <2>2. serving = "new"
    BY <1>4 DEF Effect, View
  <2>3. trusted' = trusted \cup {serving}
    BY <1>4, <2>2 DEF trusted
  <2>. QED  BY <2>1, <2>2, <2>3 DEF Switch!Next, Switch!Trust
<1>5. CASE at \in Done
  <2>1. at' \in Done /\ con' = con /\ serving' = serving /\ trusted' = trusted /\ "new" \in trusted
    BY <1>1, <1>5 DEF Effect, trusted
  <2>2. "new" \in kept /\ "new" \in kept'
    BY <1>5, <2>1 DEF View, Before
  <2>3. Restorable("old")' => Restorable("old")
    <3>1. file'["active"] = file["active"] /\ file'["candidate"] = file["candidate"]
      BY <1>5 DEF Effect
    <3>2. file'["copy"] = Both("old") => file["copy"] = Both("old")
      BY <1>5 DEF Effect, View
    <3>. QED  BY <2>1, <3>1, <3>2 DEF Restorable
  <2>4. kept' = kept \/ kept' = {"new"}
    BY <2>2, <2>3 DEF kept
  <2>. QED  BY <2>1, <2>2, <2>4 DEF Switch!Next, Switch!Retire
<1>. QED  BY <1>3, <1>4, <1>5

\* Never from one password to the other without a stop, never up on a pair that is not
\* kept, and the old pair is kept until the Seller was seen up on the new one.
THEOREM Implements == Spec => ImplementsPairSwitch
<1>1. Init => Switch!Init
  <2>. SUFFICES ASSUME Init PROVE Switch!Init
    OBVIOUS
  <2>1. View /\ at \in Before /\ at \notin Done
    BY InitInvariant, Viewed DEF Init, Before
  <2>2. file["candidate"] # Both("new")
    BY DEF Init, Both
  <2>3. kept = {"old"}
    <3>1. "old" \in kept /\ "new" \notin kept
      BY <2>1, <2>2 DEF View
    <3>2. ASSUME NEW x \in kept PROVE x = "old"
      <4>1. x \in {"old", "new"}
        BY <2>1, <3>2 DEF View
      <4>. QED  BY <3>1, <3>2, <4>1
    <3>. QED  BY <3>1, <3>2
  <2>4. serving = "old" /\ trusted = {"old"}
    BY <2>1 DEF Init, serving, trusted
  <2>. QED  BY <2>3, <2>4 DEF Switch!Init
<1>2. IInv /\ IInv' /\ [Next]_vars => [Switch!Next]_<<serving, kept, trusted>>
  <2>1. ASSUME UNCHANGED vars PROVE UNCHANGED <<serving, kept, trusted>>
    BY <2>1 DEF vars, serving, kept, trusted, Restorable
  <2>2. ASSUME IInv, IInv', Next PROVE Switch!Next \/ UNCHANGED <<serving, kept, trusted>>
    BY <2>2, StepEffect, StepSwitch, Viewed, ViewedAfter
  <2>. QED  BY <2>1, <2>2
<1>. QED  BY <1>1, <1>2, InitInvariant, StepInvariant, PTL DEF Spec, ImplementsPairSwitch, Switch!Spec

\* At every moment of the rotation, whatever was interrupted and whatever died, a complete
\* pair of files or containers is left to bring the Seller up on, and as long as the new pair
\* was not accepted it is the old one: the removal of the old copies (lines 336 to 355 of
\* the runbook) included.
THEOREM AlwaysAPair == Spec => []Switch!NeverLost
<1>1. Switch!Init => Switch!NeverLost
  BY DEF Switch!Init, Switch!NeverLost
<1>2. Switch!NeverLost /\ [Switch!Next]_<<serving, kept, trusted>> => Switch!NeverLost'
  <2>. SUFFICES ASSUME Switch!NeverLost, [Switch!Next]_<<serving, kept, trusted>> PROVE Switch!NeverLost'
    OBVIOUS
  <2>. HIDE DEF serving, kept, trusted
  <2>. QED  BY DEF Switch!NeverLost, Switch!Next, Switch!Stop, Switch!Serve, Switch!Offer, Switch!Trust, Switch!Retire
<1>. QED  BY <1>1, <1>2, Implements, PTL DEF ImplementsPairSwitch, Switch!Spec

=============================================================================
