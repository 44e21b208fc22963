-------------------------- MODULE MspAssemblyProofs --------------------------
(***************************************************************************)
(* Proofs about MspAssembly for every number of runs, local MSPs,          *)
(* organizations and files, and for every set of roots.                    *)
(***************************************************************************)
EXTENDS MspAssembly, TLAPS

\* The order in which preflight, and verify, visit the places.
Rank(place) ==
    CASE place[1] = "local"  -> place[2]
      [] place[1] = "public" -> NLocals + 1
      [] place[1] = "org"    -> NLocals + 1 + place[2]
      [] place[1] = "probe"  -> NLocals + NOrgs + 2

VerifyRank(place) ==
    CASE place[1] = "public" -> 0
      [] place[1] = "local"  -> place[2]
      [] place[1] = "org"    -> NLocals + place[2]
      [] place[1] = "probe"  -> NLocals + NOrgs + 1

AtOrg    == {"mkdir", "temp"} \cup Staging
Owning   == {"temp", "stage", "rename"}
Claiming == Owning \cup {"write"}

\* The memory of a process fits its stage.
LocalOK(r) ==
    /\ r.stage \in {"open", "write"} => r.at \in Files
    /\ r.stage \in AtOrg => r.at[1] = "org"
    /\ r.stage = "stage" => r.staged < NFiles
    /\ r.stage = "rename" => r.staged = NFiles
    /\ r.stage \in Live \ {"inputs"} => r.want \in Roots

LocalInv == TypeOK /\ \A p \in Procs : LocalOK(run[p])

\* A visible MSP is whole and in its organization's directory.
Visible == \A o \in Orgs : msp[o] # NoMsp =>
    msp[o][1] \in Roots /\ msp[o][2] = NFiles /\ o \in made

\* A run that is creating something is the only one to create it.
Claims ==
    /\ \A p \in Procs :
          /\ run[p].stage = "write" => disk[run[p].at] = "torn"
          /\ run[p].stage \in Owning => run[p].at[2] \in made /\ msp[run[p].at[2]] = NoMsp
    /\ \A p, q \in Procs :
          run[p].stage \in Claiming /\ run[q].stage \in Claiming /\ run[p].at = run[q].at => p = q

SharedInv == LocalInv /\ Visible /\ Claims

-----------------------------------------------------------------------------
(* What an undisturbed run knows.                                          *)

\* The place is what the pinned inputs give.
Good(place) ==
    /\ place \in Files => disk[place] = "good"
    /\ place[1] = "org" => msp[place[2]] = Finished(pins)

\* The place holds something else, for good.
Blocks(place) ==
    \/ place \in Files /\ disk[place] = "foreign"
    \/ place[1] = "org" /\ msp[place[2]] \notin {NoMsp, Finished(pins)}

\* verify has confirmed the places it has left behind.
Verified(p) ==
    /\ run[p].stage \in Live \ {"inputs"} => run[p].want = pins
    /\ run[p].stage = "verify" =>
          \A place \in Places : VerifyRank(place) < VerifyRank(run[p].at) => Good(place)
    /\ run[p].stage = "passed" => Assembled

\* A run that began over differing output has the difference still ahead of it.
Refused(p) == run[p].began = "differing" =>
    /\ run[p].stage \notin Creating \cup {"passed", "build"}
    /\ run[p].stage = "inputs" => \E place \in Places : Blocks(place)
    /\ run[p].stage = "preflight" => \E place \in Places :
          /\ Blocks(place) /\ Rank(run[p].at) <= Rank(place)
          /\ place[1] = "org" /\ Rank(run[p].at) > NLocals + 1 => place[2] \in run[p].listed
    /\ run[p].stage = "verify" => \E place \in Places :
          Blocks(place) /\ VerifyRank(run[p].at) <= VerifyRank(place)

\* Output that was ready when a run began still is, and the run does not stop at it.
Agreed(p) == run[p].began = "ready" =>
    Assembled /\ ~StrayName /\ run[p].stage \notin Creating \cup {"failed"}

Undisturbed(p) == Verified(p) /\ Refused(p) /\ Agreed(p)

IInv == SharedInv /\ \A p \in Procs \ disturbed : Undisturbed(p)

-----------------------------------------------------------------------------
(* Places.                                                                 *)

LEMMA PlaceFacts ==
    /\ <<"local", 1>> \in Places /\ <<"public", 1>> \in Places /\ <<"probe", 1>> \in Places
    /\ \A o \in Orgs : <<"org", o>> \in Places
    /\ \A place \in Places : place[1] \in {"local", "public", "org", "probe"} /\ place[2] \in Nat
    /\ \A place \in Places : place[1] = "local" =>
          place[2] \in 1..NLocals /\ place = <<"local", place[2]>> /\ place \in Files
    /\ \A place \in Places : place[1] = "public" => place = <<"public", 1>> /\ place \notin Files
    /\ \A place \in Places : place[1] = "org" =>
          place[2] \in Orgs /\ place = <<"org", place[2]>> /\ place \notin Files
    /\ \A place \in Places : place[1] = "probe" => place = <<"probe", 1>> /\ place \in Files
    /\ Files \subseteq Places
    /\ \A f \in Files : f[1] \in {"local", "probe"}
BY SizeAssumption DEF Places, Files, Orgs

LEMMA AfterFacts ==
    ASSUME NEW place \in Places, place[1] # "probe"
    PROVE  /\ After(place) \in Places /\ Rank(After(place)) = Rank(place) + 1
           /\ AfterInVerify(place) \in Places
           /\ VerifyRank(AfterInVerify(place)) = VerifyRank(place) + 1
<1>1. CASE place[1] = "local"
  <2>1. place[2] \in 1..NLocals /\ place = <<"local", place[2]>>
    BY <1>1, PlaceFacts
  <2>2. place[2] < NLocals => <<"local", place[2] + 1>> \in Places
    BY <2>1, SizeAssumption DEF Places, Files
  <2>3. <<"org", 1>> \in Places
    BY SizeAssumption, PlaceFacts DEF Orgs
  <2>4. place = <<"local", NLocals>> <=> place[2] = NLocals
    BY <2>1
  <2>. QED  BY <2>1, <2>2, <2>3, <2>4, PlaceFacts, SizeAssumption
            DEF After, AfterInVerify, Rank, VerifyRank
<1>2. CASE place[1] = "public"
  <2>1. <<"org", 1>> \in Places
    BY SizeAssumption, PlaceFacts DEF Orgs
  <2>2. place = <<"public", 1>>
    BY <1>2, PlaceFacts
  <2>. QED  BY <2>1, <2>2, PlaceFacts, SizeAssumption DEF After, AfterInVerify, Rank, VerifyRank
<1>3. CASE place[1] = "org"
  <2>1. place[2] \in 1..NOrgs /\ place = <<"org", place[2]>>
    BY <1>3, PlaceFacts DEF Orgs
  <2>2. place[2] < NOrgs => <<"org", place[2] + 1>> \in Places
    BY <2>1, SizeAssumption, PlaceFacts DEF Orgs
  <2>3. place # <<"public", 1>> /\ place # <<"local", NLocals>>
    BY <2>1
  <2>. QED  BY <2>1, <2>2, <2>3, PlaceFacts, SizeAssumption
            DEF After, AfterInVerify, Rank, VerifyRank
<1>. QED  BY <1>1, <1>2, <1>3, PlaceFacts

LEMMA RankFacts ==
    /\ \A a \in Places : Rank(a) \in Nat /\ VerifyRank(a) \in Nat /\ Rank(a) >= 1
    /\ \A a, b \in Places : Rank(a) = Rank(b) => a = b
    /\ \A a, b \in Places : VerifyRank(a) = VerifyRank(b) => a = b
    /\ \A a \in Places : Rank(a) <= Rank(<<"probe", 1>>)
    /\ \A a \in Places : VerifyRank(a) <= VerifyRank(<<"probe", 1>>)
    /\ Rank(<<"local", 1>>) = 1 /\ Rank(<<"public", 1>>) = NLocals + 1
    /\ VerifyRank(<<"public", 1>>) = 0
    /\ \A a \in Places : a[1] = "org" => Rank(a) > NLocals + 1
    /\ \A a \in Places : a[1] = "local" => Rank(a) < NLocals + 1
<1>1. ASSUME NEW a \in Places
      PROVE  /\ a[1] = "local" => a[2] \in 1..NLocals /\ a = <<"local", a[2]>>
             /\ a[1] = "public" => a = <<"public", 1>>
             /\ a[1] = "org" => a[2] \in 1..NOrgs /\ a = <<"org", a[2]>>
             /\ a[1] = "probe" => a = <<"probe", 1>>
             /\ a[1] \in {"local", "public", "org", "probe"}
  BY PlaceFacts DEF Orgs
<1>2. ASSUME NEW a \in Places
      PROVE  /\ Rank(a) \in Nat /\ VerifyRank(a) \in Nat /\ Rank(a) >= 1
             /\ Rank(a) <= NLocals + NOrgs + 2 /\ VerifyRank(a) <= NLocals + NOrgs + 1
             /\ a[1] = "org" => Rank(a) > NLocals + 1
             /\ a[1] = "local" => Rank(a) < NLocals + 1
  BY <1>1, SizeAssumption DEF Rank, VerifyRank
<1>3. ASSUME NEW a \in Places, NEW b \in Places
      PROVE  /\ Rank(a) = Rank(b) => a = b
             /\ VerifyRank(a) = VerifyRank(b) => a = b
  <2>1. CASE a[1] = "local"
    BY <1>1, <2>1, SizeAssumption DEF Rank, VerifyRank
  <2>2. CASE a[1] = "public"
    BY <1>1, <2>2, SizeAssumption DEF Rank, VerifyRank
  <2>3. CASE a[1] = "org"
    BY <1>1, <2>3, SizeAssumption DEF Rank, VerifyRank
  <2>4. CASE a[1] = "probe"
    BY <1>1, <2>4, SizeAssumption DEF Rank, VerifyRank
  <2>. QED  BY <1>1, <2>1, <2>2, <2>3, <2>4
<1>4. /\ Rank(<<"local", 1>>) = 1 /\ Rank(<<"public", 1>>) = NLocals + 1
      /\ VerifyRank(<<"public", 1>>) = 0
      /\ Rank(<<"probe", 1>>) = NLocals + NOrgs + 2
      /\ VerifyRank(<<"probe", 1>>) = NLocals + NOrgs + 1
  BY DEF Rank, VerifyRank
<1>. QED  BY <1>2, <1>3, <1>4

-----------------------------------------------------------------------------
(* Type correctness, and the shape of a step.                              *)

Acts(p) == Step(p) \/ CallFails(p) \/ Kill(p) \/ \E act \in {"build", "verify"} : Start(p, act)

LEMMA NewFacts ==
    ASSUME NEW stage \in {"inputs", "idle", "passed", "failed", "killed"},
           NEW act \in {"build", "verify"},
           NEW began \in {"ready", "matching", "differing", "other"}
    PROVE  New(stage, act, began) \in Process /\ LocalOK(New(stage, act, began))
<1>1. New(stage, act, began) \in Process
  BY PlaceFacts, SizeAssumption DEF New, Process, Stages, Live, Creating, Staging
<1>. QED  BY <1>1 DEF New, LocalOK, AtOrg, Staging, Live, Creating

LEMMA FinishesShape ==
    ASSUME LocalInv, NEW p \in Procs, NEW stage \in {"passed", "failed", "killed"},
           Finishes(p, stage)
    PROVE  /\ run'[p] \in Process /\ LocalOK(run'[p])
           /\ run' = [run EXCEPT ![p] = run'[p]]
<1>1. run \in [Procs -> Process] /\ run[p] \in Process
  BY DEF LocalInv, TypeOK
<1>2. run[p].act \in {"build", "verify"} /\ run[p].began \in {"ready", "matching", "differing", "other"}
  BY <1>1 DEF Process
<1>. QED  BY <1>1, <1>2, NewFacts DEF Finishes

\* A process that moves to another stage or place with the rest of its memory unchanged.
LEMMA WalksShape ==
    ASSUME LocalInv, NEW p \in Procs, NEW stage \in Stages, NEW place \in Places,
           Walks(p, stage, place),
           stage \in Live \ {"inputs"} => run[p].want \in Roots,
           stage \notin {"open", "write", "stage", "rename"} \cup AtOrg
    PROVE  /\ run'[p] \in Process /\ LocalOK(run'[p])
           /\ run' = [run EXCEPT ![p] = run'[p]]
<1>1. run \in [Procs -> Process] /\ run[p] \in Process
  BY DEF LocalInv, TypeOK
<1>2. run'[p] = [run[p] EXCEPT !.stage = stage, !.at = place]
  BY <1>1 DEF Walks, Process
<1>3. run'[p] \in Process
  BY <1>1, <1>2 DEF Process
<1>4. LocalOK(run'[p])
  BY <1>1, <1>2 DEF LocalOK, Process
<1>5. run' = [run EXCEPT ![p] = run'[p]]
  BY <1>1, <1>2 DEF Walks, Process
<1>. QED  BY <1>3, <1>4, <1>5

LEMMA GoesShape ==
    ASSUME LocalInv, NEW p \in Procs, NEW stage \in Stages, Goes(p, stage),
           stage \in {"open", "write"} => run[p].at \in Files,
           stage \in AtOrg => run[p].at[1] = "org",
           stage \notin {"stage", "rename"},
           stage \in Live \ {"inputs"} => run[p].want \in Roots
    PROVE  /\ run'[p] \in Process /\ LocalOK(run'[p])
           /\ run' = [run EXCEPT ![p] = run'[p]]
<1>1. run \in [Procs -> Process] /\ run[p] \in Process
  BY DEF LocalInv, TypeOK
<1>2. run'[p] = [run[p] EXCEPT !.stage = stage]
  BY <1>1 DEF Goes, Process
<1>3. run'[p] \in Process
  BY <1>1, <1>2 DEF Process
<1>4. LocalOK(run'[p])
  BY <1>1, <1>2 DEF LocalOK, Process
<1>5. run' = [run EXCEPT ![p] = run'[p]]
  BY <1>1, <1>2 DEF Goes, Process
<1>. QED  BY <1>3, <1>4, <1>5

LEMMA BuiltShape ==
    ASSUME LocalInv, NEW p \in Procs, Built(p), run[p].want \in Roots
    PROVE  /\ run'[p] \in Process /\ LocalOK(run'[p])
           /\ run' = [run EXCEPT ![p] = run'[p]]
           /\ run'[p].stage \in {"build", "verify"}
           /\ run'[p].stage = "verify" => run'[p].at = <<"public", 1>>
           /\ run'[p].want = run[p].want /\ run'[p].began = run[p].began
<1>1. run \in [Procs -> Process] /\ run[p] \in Process /\ run[p].at \in Places
  BY DEF LocalInv, TypeOK, Process
<1>2. {"build", "verify"} \subseteq Stages
  BY DEF Stages, Live
<1>3. {"build", "verify"} \cap ({"open", "write", "stage", "rename"} \cup AtOrg) = {}
  BY DEF AtOrg, Staging
<1>4. CASE run[p].at[1] = "probe"
  <2>1. Walks(p, "verify", <<"public", 1>>)
    BY <1>4 DEF Built
  <2>2. run'[p].stage = "verify" /\ run'[p].at = <<"public", 1>>
        /\ run'[p].want = run[p].want /\ run'[p].began = run[p].began
    BY <1>1, <2>1 DEF Walks, Process
  <2>. QED  BY <1>2, <1>3, <2>1, <2>2, WalksShape, PlaceFacts
<1>5. CASE run[p].at[1] # "probe"
  <2>1. Walks(p, "build", After(run[p].at)) /\ After(run[p].at) \in Places
    BY <1>1, <1>5, AfterFacts DEF Built
  <2>2. run'[p].stage = "build" /\ run'[p].want = run[p].want /\ run'[p].began = run[p].began
    BY <1>1, <2>1 DEF Walks, Process
  <2>. QED  BY <1>2, <1>3, <2>1, <2>2, WalksShape
<1>. QED  BY <1>4, <1>5

LEMMA ActsShape ==
    ASSUME LocalInv, NEW p \in Procs, Acts(p)
    PROVE  /\ run'[p] \in Process /\ LocalOK(run'[p])
           /\ run' = [run EXCEPT ![p] = run'[p]]
<1>0. /\ run \in [Procs -> Process] /\ run[p] \in Process /\ LocalOK(run[p])
      /\ run[p].at \in Places /\ pins \in Roots \cup {Nothing} /\ made \subseteq Orgs
      /\ run[p].act \in {"build", "verify"}
  BY DEF LocalInv, TypeOK, Process
<1>1. /\ {"preflight", "build", "verify"} \cap ({"open", "write", "stage", "rename"} \cup AtOrg) = {}
      /\ {"preflight", "build", "verify", "open", "write", "mkdir", "temp", "stage", "rename",
          "clean"} \subseteq Stages
  BY DEF Stages, Live, Creating, AtOrg, Staging
<1>2. ASSUME NEW act \in {"build", "verify"}, Start(p, act)
      PROVE  run'[p] \in Process /\ LocalOK(run'[p]) /\ run' = [run EXCEPT ![p] = run'[p]]
  <2>1. PICK began \in {"ready", "matching", "differing", "other"} :
           run' = [run EXCEPT ![p] = New("inputs", act, began)]
    BY <1>2 DEF Start
  <2>. QED  BY <1>0, <2>1, NewFacts
<1>3. CASE ReadInputs(p)
  <2>1. CASE pins = Nothing
    BY <1>3, <2>1, FinishesShape DEF ReadInputs
  <2>2. CASE pins # Nothing
    <3> DEFINE st == IF run[p].act = "build" THEN "preflight" ELSE "verify"
               pl == IF run[p].act = "build" THEN <<"local", 1>> ELSE <<"public", 1>>
    <3>1. run'[p] = [run[p] EXCEPT !.want = pins, !.stage = st, !.at = pl]
      BY <1>0, <1>3, <2>2 DEF ReadInputs, Process
    <3>2. st \in Stages /\ pl \in Places /\ pins \in Roots
      BY <1>0, <1>1, <2>2, PlaceFacts
    <3>3. run'[p] \in Process
      BY <1>0, <3>1, <3>2 DEF Process
    <3>4. LocalOK(run'[p])
      BY <1>0, <1>1, <3>1, <3>2 DEF LocalOK, Process
    <3>5. run' = [run EXCEPT ![p] = run'[p]]
      BY <1>0, <1>3, <2>2, <3>1 DEF ReadInputs, Process
    <3>. QED  BY <3>3, <3>4, <3>5
  <2>. QED  BY <2>1, <2>2
<1>4. CASE Preflight(p)
  <2>0. run[p].want \in Roots
    BY <1>0, <1>4 DEF Preflight, LocalOK, Live
  <2>1. CASE ~Accepts(p)
    BY <1>4, <2>1, FinishesShape DEF Preflight
  <2>2. CASE Accepts(p) /\ run[p].at[1] = "probe"
    <3>1. Walks(p, "build", <<"local", 1>>)
      BY <1>4, <2>2 DEF Preflight
    <3>. QED  BY <1>1, <2>0, <3>1, WalksShape, PlaceFacts
  <2>3. CASE Accepts(p) /\ run[p].at[1] # "probe"
    <3> DEFINE ls == IF run[p].at[1] = "public" THEN made ELSE run[p].listed
    <3>1. run' = [run EXCEPT ![p].at = After(run[p].at), ![p].listed = ls]
      BY <1>4, <2>3 DEF Preflight
    <3>2. run'[p] = [run[p] EXCEPT !.at = After(run[p].at), !.listed = ls]
      BY <1>0, <3>1 DEF Process
    <3>3. After(run[p].at) \in Places /\ ls \subseteq Orgs
      BY <1>0, <2>3, AfterFacts DEF Process
    <3>4. run'[p] \in Process /\ run'[p].stage = "preflight" /\ run'[p].want = run[p].want
      BY <1>0, <1>4, <3>2, <3>3 DEF Process, Preflight
    <3>5. LocalOK(run'[p])
      BY <1>1, <2>0, <3>4 DEF LocalOK
    <3>6. run' = [run EXCEPT ![p] = run'[p]]
      BY <1>0, <3>1, <3>2 DEF Process
    <3>. QED  BY <3>4, <3>5, <3>6
  <2>. QED  BY <2>1, <2>2, <2>3
<1>5. CASE Exists(p)
  <2>0. run[p].want \in Roots
    BY <1>0, <1>5 DEF Exists, LocalOK, Live
  <2>1. CASE run[p].at[1] # "public" /\ Missing(run[p].at)
    <3>1. CASE run[p].at[1] = "org"
      <4>1. Goes(p, "mkdir")
        BY <1>5, <2>1, <3>1 DEF Exists
      <4>. QED  BY <1>0, <1>1, <2>0, <3>1, <4>1, GoesShape
    <3>2. CASE run[p].at[1] # "org"
      <4>1. Goes(p, "open") /\ "open" \notin AtOrg
        BY <1>5, <2>1, <3>2 DEF Exists, AtOrg, Staging
      <4>2. run[p].at \in Files
        BY <1>0, <2>1, <3>2, PlaceFacts
      <4>. QED  BY <1>0, <1>1, <2>0, <4>1, <4>2, GoesShape
    <3>. QED  BY <3>1, <3>2
  <2>2. CASE ~(run[p].at[1] # "public" /\ Missing(run[p].at))
    <3>1. Built(p)
      BY <1>5, <2>2 DEF Exists
    <3>. QED  BY <2>0, <3>1, BuiltShape
  <2>. QED  BY <2>1, <2>2
<1>6. CASE Open(p)
  <2>0. run[p].want \in Roots /\ run[p].at \in Files
    BY <1>0, <1>6 DEF Open, LocalOK, Live, Creating
  <2>1. CASE disk[run[p].at] = Nothing
    <3>1. Goes(p, "write") /\ "write" \notin AtOrg
      BY <1>6, <2>1 DEF Open, AtOrg, Staging
    <3>. QED  BY <1>0, <1>1, <2>0, <3>1, GoesShape
  <2>2. CASE disk[run[p].at] # Nothing
    BY <1>6, <2>2, FinishesShape DEF Open
  <2>. QED  BY <2>1, <2>2
<1>7. CASE Write(p) \/ RemoveTemp(p)
  <2>0. run[p].want \in Roots /\ Built(p)
    BY <1>0, <1>7 DEF Write, RemoveTemp, LocalOK, Live, Creating, Staging
  <2>. QED  BY <2>0, BuiltShape
<1>8. CASE MakeOrg(p)
  <2>0. run[p].want \in Roots /\ run[p].at[1] = "org"
    BY <1>0, <1>8 DEF MakeOrg, LocalOK, Live, Creating, AtOrg
  <2>1. CASE run[p].at[2] \notin made
    <3>1. Goes(p, "temp")
      BY <1>8, <2>1 DEF MakeOrg
    <3>. QED  BY <1>0, <1>1, <2>0, <3>1, GoesShape
  <2>2. CASE run[p].at[2] \in made
    BY <1>8, <2>2, FinishesShape DEF MakeOrg
  <2>. QED  BY <2>1, <2>2
<1>9. CASE MakeTemp(p)
  <2>0. run[p].want \in Roots /\ run[p].at[1] = "org"
    BY <1>0, <1>9 DEF MakeTemp, LocalOK, Live, Creating, AtOrg
  <2>1. run'[p] = [run[p] EXCEPT !.stage = "stage", !.staged = 0]
    BY <1>0, <1>9 DEF MakeTemp, Process
  <2>a. "stage" \in Stages /\ 0 \in 0..NFiles
    BY <1>1, SizeAssumption
  <2>2. run'[p] \in Process
    BY <1>0, <2>1, <2>a DEF Process
  <2>3. LocalOK(run'[p])
    BY <1>0, <2>0, <2>1, SizeAssumption DEF LocalOK, Process
  <2>4. run' = [run EXCEPT ![p] = run'[p]]
    BY <1>0, <1>9, <2>1 DEF MakeTemp, Process
  <2>. QED  BY <2>2, <2>3, <2>4
<1>10. CASE StageFile(p)
  <2> DEFINE st == IF run[p].staged + 1 < NFiles THEN "stage" ELSE "rename"
  <2>0. /\ run[p].want \in Roots /\ run[p].at[1] = "org"
        /\ run[p].staged < NFiles /\ run[p].staged \in 0..NFiles
    BY <1>0, <1>10 DEF StageFile, LocalOK, Live, Creating, Staging, AtOrg, Process
  <2>1. run'[p] = [run[p] EXCEPT !.stage = st, !.staged = run[p].staged + 1]
    BY <1>0, <1>10 DEF StageFile, Process
  <2>2. run[p].staged + 1 \in 0..NFiles /\ (st = "rename" => run[p].staged + 1 = NFiles)
    BY <2>0, SizeAssumption
  <2>a. st \in Stages
    BY <1>1
  <2>3. run'[p] \in Process
    <3> HIDE DEF st
    <3>. QED  BY <1>0, <2>1, <2>2, <2>a DEF Process
  <2>4. LocalOK(run'[p])
    BY <1>0, <2>0, <2>1, <2>2 DEF LocalOK, Process
  <2>5. run' = [run EXCEPT ![p] = run'[p]]
    BY <1>0, <1>10, <2>1 DEF StageFile, Process
  <2>. QED  BY <2>3, <2>4, <2>5
<1>11. CASE Rename(p)
  <2>0. run[p].want \in Roots /\ run[p].at[1] = "org" /\ Goes(p, "clean")
    BY <1>0, <1>11 DEF Rename, LocalOK, Live, Creating, Staging, AtOrg
  <2>. QED  BY <1>0, <1>1, <2>0, GoesShape
<1>12. CASE Verify(p)
  <2>0. run[p].want \in Roots
    BY <1>0, <1>12 DEF Verify, LocalOK, Live
  <2>1. CASE ~Confirms(p)
    BY <1>12, <2>1, FinishesShape DEF Verify
  <2>2. CASE Confirms(p) /\ run[p].at[1] = "probe"
    BY <1>12, <2>2, FinishesShape DEF Verify
  <2>3. CASE Confirms(p) /\ run[p].at[1] # "probe"
    <3>1. Walks(p, "verify", AfterInVerify(run[p].at))
      BY <1>12, <2>3 DEF Verify
    <3>. QED  BY <1>0, <1>1, <2>0, <2>3, <3>1, WalksShape, AfterFacts
  <2>. QED  BY <2>1, <2>2, <2>3
<1>13. CASE CallFails(p)
  BY <1>13, FinishesShape DEF CallFails
<1>14. CASE Kill(p)
  BY <1>14, FinishesShape DEF Kill
<1>. QED  BY <1>2, <1>3, <1>4, <1>5, <1>6, <1>7, <1>8, <1>9, <1>10, <1>11, <1>12, <1>13, <1>14
          DEF Acts, Step

LEMMA ActsOthers ==
    ASSUME LocalInv, NEW p \in Procs, Acts(p)
    PROVE  /\ run' \in [Procs -> Process] /\ \A q \in Procs : LocalOK(run'[q])
           /\ \A q \in Procs : q # p => run'[q] = run[q]
           /\ UNCHANGED <<pins, edits>>
<1>1. run \in [Procs -> Process] /\ \A q \in Procs : LocalOK(run[q])
  BY DEF LocalInv, TypeOK
<1>2. /\ run'[p] \in Process /\ LocalOK(run'[p])
      /\ run' = [run EXCEPT ![p] = run'[p]]
  BY ActsShape
<1>3. UNCHANGED <<pins, edits>>
  BY DEF Acts, Step, Start, ReadInputs, Preflight, Exists, Open, Write, MakeOrg, MakeTemp,
     StageFile, Rename, RemoveTemp, Verify, CallFails, Kill, Bounds, Output
<1>. QED  BY <1>1, <1>2, <1>3

LEMMA ActsLocal ==
    ASSUME LocalInv, NEW p \in Procs, Acts(p)
    PROVE  LocalInv'
<1>0. /\ TypeOK /\ run[p] \in Process /\ run[p].at \in Places /\ LocalOK(run[p])
      /\ faults \in Nat
  BY DEF LocalInv, TypeOK, Process
<1>1. /\ run' \in [Procs -> Process] /\ \A q \in Procs : LocalOK(run'[q])
      /\ UNCHANGED <<pins, edits>>
  BY ActsOthers
<1>2. faults' \in Nat /\ disturbed' \subseteq Procs
  BY <1>0 DEF TypeOK, Acts, Step, Start, ReadInputs, Preflight, Exists, Open, Write, MakeOrg,
     MakeTemp, StageFile, Rename, RemoveTemp, Verify, CallFails, Kill, Bounds, Output, Fault
<1>3. disk' \in [Files -> {Nothing, "good", "torn", "foreign"}]
  <2>1. CASE Open(p) \/ Write(p)
    <3>1. disk' = disk \/ \E c \in {"torn", "good"} : disk' = [disk EXCEPT ![run[p].at] = c]
      BY <2>1 DEF Open, Write
    <3>. QED  BY <1>0, <3>1 DEF TypeOK
  <2>2. CASE ~(Open(p) \/ Write(p))
    <3>1. disk' = disk
      BY <2>2 DEF Acts, Step, Start, ReadInputs, Preflight, Exists, MakeOrg, MakeTemp,
         StageFile, Rename, RemoveTemp, Verify, CallFails, Kill, Output
    <3>. QED  BY <1>0, <3>1 DEF TypeOK
  <2>. QED  BY <2>1, <2>2
<1>4. made' \subseteq Orgs
  <2>1. CASE MakeOrg(p)
    <3>1. run[p].at[2] \in Orgs /\ made' = made \cup {run[p].at[2]}
      BY <1>0, <2>1, PlaceFacts DEF MakeOrg, LocalOK, AtOrg
    <3>. QED  BY <1>0, <3>1 DEF TypeOK
  <2>2. CASE ~MakeOrg(p)
    <3>1. made' = made
      BY <2>2 DEF Acts, Step, Start, ReadInputs, Preflight, Exists, Open, Write, MakeTemp,
         StageFile, Rename, RemoveTemp, Verify, CallFails, Kill, Output
    <3>. QED  BY <1>0, <3>1 DEF TypeOK
  <2>. QED  BY <2>1, <2>2
<1>5. msp' \in [Orgs -> (Roots \cup {Nothing}) \X (0..NFiles)]
  <2>1. CASE Rename(p)
    <3>1. msp' = [msp EXCEPT ![run[p].at[2]] = <<run[p].want, run[p].staged>>]
      BY <2>1 DEF Rename
    <3>2. run[p].want \in Roots \cup {Nothing} /\ run[p].staged \in 0..NFiles
      BY <1>0 DEF Process
    <3>. QED  BY <1>0, <3>1, <3>2 DEF TypeOK
  <2>2. CASE ~Rename(p)
    <3>1. msp' = msp
      BY <2>2 DEF Acts, Step, Start, ReadInputs, Preflight, Exists, Open, Write, MakeOrg,
         MakeTemp, StageFile, RemoveTemp, Verify, CallFails, Kill, Output
    <3>. QED  BY <1>0, <3>1 DEF TypeOK
  <2>. QED  BY <2>1, <2>2
<1>6. debris' \in BOOLEAN
  <2>1. CASE CallFails(p) \/ Kill(p)
    BY <1>0, <2>1 DEF TypeOK, CallFails, Kill
  <2>2. CASE ~(CallFails(p) \/ Kill(p))
    <3>1. debris' = debris
      BY <2>2 DEF Acts, Step, Start, ReadInputs, Preflight, Exists, Open, Write, MakeOrg,
         MakeTemp, StageFile, Rename, RemoveTemp, Verify, Output
    <3>. QED  BY <1>0, <3>1 DEF TypeOK
  <2>. QED  BY <2>1, <2>2
<1>7. pins' \in Roots \cup {Nothing} /\ edits' \in Nat
  BY <1>0, <1>1 DEF TypeOK
<1>. QED  BY <1>1, <1>2, <1>3, <1>4, <1>5, <1>6, <1>7 DEF LocalInv, TypeOK

LEMMA EditOutputLocal ==
    ASSUME LocalInv, EditOutput
    PROVE  LocalInv'
<1>0. TypeOK /\ edits \in Nat /\ NFiles \in 0..NFiles /\ 0 \in 0..NFiles
  BY SizeAssumption DEF LocalInv, TypeOK
<1>1. /\ edits' = edits + 1 /\ disturbed' = Procs
      /\ UNCHANGED <<pins, run, faults>>
  BY DEF EditOutput, Edit
<1>2. CASE \E f \in Files, c \in {Nothing, "good", "foreign"} :
              /\ disk[f] # c /\ disk' = [disk EXCEPT ![f] = c]
              /\ UNCHANGED <<made, msp, debris>>
  BY <1>0, <1>1, <1>2 DEF LocalInv, TypeOK
<1>3. CASE /\ \E o \in made :
                \/ made' = made \ {o} /\ msp' = [msp EXCEPT ![o] = NoMsp]
                \/ /\ \E root \in Roots : msp' = [msp EXCEPT ![o] = Finished(root)]
                   /\ UNCHANGED made
           /\ UNCHANGED <<disk, debris>>
  BY <1>0, <1>1, <1>3 DEF LocalInv, TypeOK, NoMsp, Finished
<1>4. CASE debris /\ debris' = FALSE /\ UNCHANGED <<disk, made, msp>>
  <2>1. debris' \in BOOLEAN
    BY <1>4
  <2>2. UNCHANGED <<disk, made, msp>>
    BY <1>4
  <2>. QED  BY <1>0, <1>1, <2>1, <2>2 DEF LocalInv, TypeOK
<1>. QED  BY <1>2, <1>3, <1>4 DEF EditOutput

LEMMA ChangePinsLocal ==
    ASSUME LocalInv, ChangePins
    PROVE  LocalInv'
BY DEF ChangePins, Edit, Output, LocalInv, TypeOK

LEMMA InitLocal == Init => LocalInv
<1>. SUFFICES ASSUME Init PROVE LocalInv
  OBVIOUS
<1>1. New("idle", "build", "other") \in Process /\ LocalOK(New("idle", "build", "other"))
  BY NewFacts
<1>2. NoMsp \in (Roots \cup {Nothing}) \X (0..NFiles)
  BY SizeAssumption DEF NoMsp
<1>. QED  BY <1>1, <1>2 DEF Init, LocalInv, TypeOK

LEMMA StepLocal == LocalInv /\ [Next]_vars => LocalInv'
<1>. SUFFICES ASSUME LocalInv, [Next]_vars PROVE LocalInv'
  OBVIOUS
<1>1. CASE UNCHANGED vars
  BY <1>1 DEF vars, LocalInv, TypeOK
<1>2. ASSUME NEW p \in Procs, Acts(p) PROVE LocalInv'
  BY <1>2, ActsLocal
<1>. QED  BY <1>1, <1>2, EditOutputLocal, ChangePinsLocal DEF Next, Acts

\* The state of the assembly is well typed, whatever overlaps, fails or is edited.
THEOREM TypeCorrect == Spec => []TypeOK
<1>1. LocalInv => TypeOK
  BY DEF LocalInv
<1>. QED  BY <1>1, InitLocal, StepLocal, PTL DEF Spec

-----------------------------------------------------------------------------
(* What a step does to the output, and who may do it.                      *)

\* A step that changes no file and no MSP, and claims nothing new.
Quiet(p) ==
    /\ UNCHANGED <<disk, made, msp>>
    /\ run'[p].stage \in Claiming =>
          /\ run[p].stage \in Claiming /\ run'[p].at = run[p].at
          /\ run'[p].stage = "write" <=> run[p].stage = "write"

LEMMA FinishesQuiet ==
    ASSUME LocalInv, NEW p \in Procs, NEW stage \in {"passed", "failed", "killed"},
           Finishes(p, stage)
    PROVE  run'[p].stage \notin Claiming
BY DEF Finishes, New, LocalInv, TypeOK, Claiming, Owning

LEMMA BuiltQuiet ==
    ASSUME LocalInv, NEW p \in Procs, Built(p), run[p].want \in Roots
    PROVE  run'[p].stage \notin Claiming
BY BuiltShape DEF Claiming, Owning

LEMMA Effects ==
    ASSUME LocalInv, NEW p \in Procs, Acts(p)
    PROVE  \/ Quiet(p)
           \/ /\ Open(p) /\ disk[run[p].at] = Nothing
              /\ disk' = [disk EXCEPT ![run[p].at] = "torn"]
              /\ run[p].at \in Files /\ run'[p].stage = "write" /\ run'[p].at = run[p].at
           \/ /\ Write(p) /\ run[p].at \in Files /\ run'[p].stage \notin Claiming
           \/ /\ MakeOrg(p) /\ run[p].at[2] \notin made /\ run[p].at[1] = "org"
              /\ run'[p].stage = "temp" /\ run'[p].at = run[p].at
           \/ /\ Rename(p) /\ run'[p].stage \notin Claiming
              /\ run[p].at[1] = "org" /\ run[p].want \in Roots /\ run[p].staged = NFiles
<1>0. /\ run \in [Procs -> Process] /\ run[p] \in Process /\ LocalOK(run[p])
      /\ "torn" # Nothing /\ run[p].at \in Places
  BY RootsAssumption DEF LocalInv, TypeOK, Process
<1>1. ASSUME NEW act \in {"build", "verify"}, Start(p, act)
      PROVE  Quiet(p)
  BY <1>0, <1>1 DEF Start, New, Quiet, Output, Claiming, Owning
<1>2. CASE ReadInputs(p)
  BY <1>0, <1>2 DEF ReadInputs, Finishes, New, Quiet, Output, Claiming, Owning, Process
<1>3. CASE Preflight(p)
  BY <1>0, <1>3 DEF Preflight, Finishes, Walks, New, Quiet, Output, Claiming, Owning, Process
<1>4. CASE Exists(p)
  <2>0. run[p].want \in Roots /\ UNCHANGED <<disk, made, msp>>
    BY <1>0, <1>4 DEF Exists, LocalOK, Live, Output
  <2>1. CASE Built(p)
    BY <2>0, <2>1, BuiltQuiet DEF Quiet
  <2>2. CASE ~Built(p)
    <3>1. Goes(p, "mkdir") \/ Goes(p, "open")
      BY <1>4, <2>2 DEF Exists
    <3>. QED  BY <1>0, <2>0, <3>1 DEF Goes, Quiet, Claiming, Owning, Process
  <2>. QED  BY <2>1, <2>2
<1>5. CASE Open(p)
  <2>1. run[p].at \in Files
    BY <1>0, <1>5 DEF Open, LocalOK
  <2>2. CASE disk[run[p].at] = Nothing
    <3>1. Goes(p, "write") /\ disk' = [disk EXCEPT ![run[p].at] = "torn"]
      BY <1>5, <2>2 DEF Open
    <3>2. run'[p].stage = "write" /\ run'[p].at = run[p].at
      BY <1>0, <3>1 DEF Goes, Process
    <3>. QED  BY <1>5, <2>1, <2>2, <3>1, <3>2
  <2>3. CASE disk[run[p].at] # Nothing
    <3>1. Finishes(p, "failed") /\ UNCHANGED <<disk, made, msp>>
      BY <1>5, <2>3 DEF Open
    <3>. QED  BY <3>1, FinishesQuiet DEF Quiet
  <2>. QED  BY <2>2, <2>3
<1>6. CASE Write(p)
  <2>1. run[p].at \in Files /\ run[p].want \in Roots /\ Built(p)
    BY <1>0, <1>6 DEF Write, LocalOK, Live, Creating
  <2>. QED  BY <1>6, <2>1, BuiltQuiet
<1>7. CASE MakeOrg(p)
  <2>1. run[p].at[1] = "org"
    BY <1>0, <1>7 DEF MakeOrg, LocalOK, AtOrg
  <2>2. CASE run[p].at[2] \in made
    <3>1. Finishes(p, "failed") /\ UNCHANGED <<disk, made, msp>>
      BY <1>7, <2>2 DEF MakeOrg
    <3>. QED  BY <3>1, FinishesQuiet DEF Quiet
  <2>3. CASE run[p].at[2] \notin made
    <3>1. Goes(p, "temp")
      BY <1>7, <2>3 DEF MakeOrg
    <3>2. run'[p].stage = "temp" /\ run'[p].at = run[p].at
      BY <1>0, <3>1 DEF Goes, Process
    <3>. QED  BY <1>7, <2>1, <2>3, <3>2
  <2>. QED  BY <2>2, <2>3
<1>8. CASE MakeTemp(p)
  BY <1>0, <1>8 DEF MakeTemp, Quiet, Output, Claiming, Owning, Process
<1>9. CASE StageFile(p)
  BY <1>0, <1>9 DEF StageFile, Quiet, Output, Claiming, Owning, Process
<1>10. CASE Rename(p)
  <2>1. /\ run[p].at[1] = "org" /\ run[p].want \in Roots /\ run[p].staged = NFiles
        /\ Goes(p, "clean")
    BY <1>0, <1>10 DEF Rename, LocalOK, AtOrg, Live, Creating, Staging
  <2>2. run'[p].stage = "clean"
    BY <1>0, <2>1 DEF Goes, Process
  <2>. QED  BY <1>10, <2>1, <2>2 DEF Claiming, Owning
<1>11. CASE RemoveTemp(p)
  <2>1. run[p].want \in Roots /\ Built(p) /\ UNCHANGED <<disk, made, msp>>
    BY <1>0, <1>11 DEF RemoveTemp, LocalOK, Live, Creating, Staging, Output
  <2>. QED  BY <2>1, BuiltQuiet DEF Quiet
<1>12. CASE Verify(p)
  BY <1>0, <1>12 DEF Verify, Finishes, Walks, New, Quiet, Output, Claiming, Owning, Process
<1>13. CASE CallFails(p) \/ Kill(p)
  BY <1>13, FinishesQuiet DEF CallFails, Kill, Quiet
<1>. QED  BY <1>1, <1>2, <1>3, <1>4, <1>5, <1>6, <1>7, <1>8, <1>9, <1>10, <1>11, <1>12, <1>13
          DEF Acts, Step

-----------------------------------------------------------------------------
(* What is visible is whole, and what is being made is claimed.            *)

LEMMA ActsVisible ==
    ASSUME SharedInv, NEW p \in Procs, Acts(p)
    PROVE  Visible'
<1>0. LocalInv /\ Visible /\ Claims /\ msp \in [Orgs -> (Roots \cup {Nothing}) \X (0..NFiles)]
  BY DEF SharedInv, LocalInv, TypeOK
<1>1. CASE UNCHANGED msp /\ made \subseteq made'
  BY <1>0, <1>1 DEF Visible
<1>2. CASE Rename(p)
  <2>1. /\ msp' = [msp EXCEPT ![run[p].at[2]] = <<run[p].want, NFiles>>] /\ made' = made
        /\ run[p].want \in Roots /\ run[p].at[2] \in made
    BY <1>0, <1>2 DEF Rename, LocalInv, LocalOK, Claims, Owning, Live, Creating, Staging
  <2>. QED  BY <1>0, <2>1 DEF Visible
<1>3. CASE Quiet(p) \/ Open(p) \/ Write(p) \/ MakeOrg(p)
  BY <1>3, <1>1 DEF Quiet, Open, Write, MakeOrg
<1>. QED  BY <1>0, <1>2, <1>3, Effects

LEMMA ActsClaims ==
    ASSUME SharedInv, NEW p \in Procs, Acts(p)
    PROVE  Claims'
<1>0. LocalInv /\ Visible /\ Claims /\ TypeOK
  BY DEF SharedInv, LocalInv
<1>1. \A q \in Procs : q # p => run'[q] = run[q]
  BY <1>0, ActsOthers
<1>2. \A q \in Procs :
         /\ run[q].stage = "write" => run[q].at \in Files
         /\ run[q].stage \in Owning =>
               run[q].at[1] = "org" /\ run[q].at[2] \in Orgs /\ run[q].at = <<"org", run[q].at[2]>>
  <2>1. \A q \in Procs : LocalOK(run[q]) /\ run[q].at \in Places
    BY <1>0 DEF LocalInv, TypeOK, Process
  <2>. QED  BY <2>1, PlaceFacts DEF LocalOK, Owning, AtOrg, Staging
<1>3. Nothing # "torn" /\ "org" \notin {"local", "probe"}
  BY RootsAssumption
<1>4. CASE Quiet(p)
  BY <1>0, <1>1, <1>4 DEF Quiet, Claims, Claiming, Owning
<1>5. CASE /\ Open(p) /\ disk[run[p].at] = Nothing
           /\ disk' = [disk EXCEPT ![run[p].at] = "torn"]
           /\ run[p].at \in Files /\ run'[p].stage = "write" /\ run'[p].at = run[p].at
  <2>1. UNCHANGED <<made, msp>>
    BY <1>5 DEF Open
  <2>2. \A q \in Procs : run[q].stage \in Claiming => run[q].at # run[p].at
    BY <1>0, <1>2, <1>3, <1>5, PlaceFacts DEF Claims, Claiming
  <2>3. disk'[run[p].at] = "torn" /\ \A f \in Files : f # run[p].at => disk'[f] = disk[f]
    BY <1>0, <1>5 DEF TypeOK
  <2>4. \A q \in Procs :
           /\ run'[q].stage = "write" => disk'[run'[q].at] = "torn"
           /\ run'[q].stage \in Owning => run'[q].at[2] \in made' /\ msp'[run'[q].at[2]] = NoMsp
    BY <1>0, <1>1, <1>2, <1>5, <2>1, <2>3 DEF Claims, Owning
  <2>5. \A q, r \in Procs : run'[q].stage \in Claiming /\ run'[r].stage \in Claiming
                               /\ run'[q].at = run'[r].at => q = r
    BY <1>0, <1>1, <1>5, <2>2 DEF Claims
  <2>. QED  BY <2>4, <2>5 DEF Claims
<1>6. CASE Write(p) /\ run[p].at \in Files /\ run'[p].stage \notin Claiming
  <2>1. /\ UNCHANGED <<made, msp>> /\ run[p].stage \in Claiming
        /\ disk' = [disk EXCEPT ![run[p].at] = "good"]
    BY <1>6 DEF Write, Claiming
  <2>2. \A q \in Procs : q # p /\ run[q].stage \in Claiming => run[q].at # run[p].at
    BY <1>0, <2>1 DEF Claims
  <2>3. \A f \in Files : f # run[p].at => disk'[f] = disk[f]
    BY <1>0, <2>1 DEF TypeOK
  <2>. QED  BY <1>0, <1>1, <1>2, <1>6, <2>1, <2>2, <2>3 DEF Claims, Claiming
<1>7. CASE /\ MakeOrg(p) /\ run[p].at[2] \notin made /\ run[p].at[1] = "org"
           /\ run'[p].stage = "temp" /\ run'[p].at = run[p].at
  <2> DEFINE o == run[p].at[2]
  <2>1. made' = made \cup {o} /\ UNCHANGED <<disk, msp>>
    BY <1>7 DEF MakeOrg
  <2>2. o \in Orgs /\ msp[o] = NoMsp
    <3>1. run[p].at \in Places
      BY <1>0 DEF TypeOK, Process
    <3>. QED  BY <1>0, <1>7, <3>1, PlaceFacts DEF Visible
  <2>3. \A q \in Procs : run[q].stage \in Claiming => run[q].at # run[p].at
    BY <1>0, <1>2, <1>3, <1>7, PlaceFacts DEF Claims, Claiming
  <2>4. \A q \in Procs :
           /\ run'[q].stage = "write" => disk'[run'[q].at] = "torn"
           /\ run'[q].stage \in Owning => run'[q].at[2] \in made' /\ msp'[run'[q].at[2]] = NoMsp
    BY <1>0, <1>1, <1>7, <2>1, <2>2 DEF Claims
  <2>5. \A q, r \in Procs : run'[q].stage \in Claiming /\ run'[r].stage \in Claiming
                               /\ run'[q].at = run'[r].at => q = r
    BY <1>0, <1>1, <1>7, <2>3 DEF Claims
  <2>. QED  BY <2>4, <2>5 DEF Claims
<1>8. CASE Rename(p) /\ run'[p].stage \notin Claiming /\ run[p].at[1] = "org"
  <2> DEFINE o == run[p].at[2]
  <2>1. /\ UNCHANGED <<disk, made>> /\ run[p].stage \in Owning
        /\ msp' = [msp EXCEPT ![o] = <<run[p].want, run[p].staged>>]
    BY <1>8 DEF Rename, Owning
  <2>2. \A q \in Procs : q # p /\ run[q].stage \in Owning => run[q].at[2] # o
    BY <1>0, <1>2, <2>1 DEF Claims, Claiming
  <2>3. \A x \in Orgs : x # o => msp'[x] = msp[x]
    BY <1>0, <2>1 DEF TypeOK
  <2>. QED  BY <1>0, <1>1, <1>2, <1>8, <2>1, <2>2, <2>3 DEF Claims, Claiming
<1>. QED  BY <1>0, <1>4, <1>5, <1>6, <1>7, <1>8, Effects

LEMMA EditOutputShared ==
    ASSUME SharedInv, EditOutput
    PROVE  (Visible /\ Claims)'
<1>0. Visible /\ Claims /\ TypeOK
  BY DEF SharedInv, LocalInv
<1>1. \A p \in Procs : run'[p].stage \notin Claiming
  BY DEF EditOutput, Claiming, Owning, Live, Creating, Staging
<1>2. Claims'
  BY <1>1 DEF Claims, Claiming
<1>3. Visible'
  <2>1. CASE UNCHANGED <<made, msp>>
    BY <1>0, <2>1 DEF Visible
  <2>2. CASE \E o \in made : made' = made \ {o} /\ msp' = [msp EXCEPT ![o] = NoMsp]
    BY <1>0, <2>2 DEF Visible, TypeOK
  <2>3. CASE \E o \in made, root \in Roots :
                msp' = [msp EXCEPT ![o] = Finished(root)] /\ UNCHANGED made
    BY <1>0, <2>3 DEF Visible, TypeOK, Finished
  <2>. QED  BY <2>1, <2>2, <2>3 DEF EditOutput
<1>. QED  BY <1>2, <1>3

LEMMA InitShared == Init => SharedInv
<1>. SUFFICES ASSUME Init PROVE SharedInv
  OBVIOUS
<1>1. \A p \in Procs : run[p].stage \notin Claiming
  BY DEF Init, New, Claiming, Owning
<1>2. Claims
  BY <1>1 DEF Claims, Claiming
<1>3. Visible
  BY DEF Init, Visible
<1>. QED  BY <1>2, <1>3, InitLocal DEF SharedInv

LEMMA StepShared == SharedInv /\ [Next]_vars => SharedInv'
<1>. SUFFICES ASSUME SharedInv, [Next]_vars PROVE SharedInv'
  OBVIOUS
<1>0. LocalInv'
  BY StepLocal DEF SharedInv
<1>1. CASE UNCHANGED vars
  BY <1>0, <1>1 DEF vars, SharedInv, Visible, Claims
<1>2. ASSUME NEW p \in Procs, Acts(p) PROVE SharedInv'
  BY <1>0, <1>2, ActsVisible, ActsClaims DEF SharedInv
<1>3. CASE EditOutput
  BY <1>0, <1>3, EditOutputShared DEF SharedInv
<1>4. CASE ChangePins
  BY <1>0, <1>4 DEF ChangePins, Output, SharedInv, Visible, Claims
<1>. QED  BY <1>1, <1>2, <1>3, <1>4 DEF Next, Acts

\* A public MSP under its final name has all its files, at every moment of every
\* overlap of builds, kills, errors and edits.
THEOREM PublicIsComplete == Spec => []PublicComplete
<1>1. SharedInv => PublicComplete
  <2>. SUFFICES ASSUME SharedInv, NEW o \in Orgs, msp[o] # NoMsp
                PROVE  msp[o] = Finished(msp[o][1])
    BY DEF PublicComplete
  <2>1. msp[o] \in (Roots \cup {Nothing}) \X (0..NFiles) /\ msp[o][2] = NFiles
    BY DEF SharedInv, LocalInv, TypeOK, Visible
  <2>. QED  BY <2>1 DEF Finished
<1>. QED  BY <1>1, InitShared, StepShared, PTL DEF Spec

-----------------------------------------------------------------------------
(* Builds implement WriteOnce.                                             *)

\* The register of a file and of a public MSP, read off the disk.
ReadOff ==
    /\ reg \in [Registers -> Values \cup {Nothing}]
    /\ \A f \in Files : /\ disk[f] = "torn" => reg[f] = Nothing
                        /\ disk[f] # "torn" => reg[f] = disk[f]
    /\ \A o \in Orgs : reg[<<"org", o>>] = msp[o][1]

LEMMA RegisterFacts == SharedInv => ReadOff
<1>. SUFFICES ASSUME SharedInv PROVE ReadOff
  OBVIOUS
<1>0. /\ disk \in [Files -> {Nothing, "good", "torn", "foreign"}]
      /\ msp \in [Orgs -> (Roots \cup {Nothing}) \X (0..NFiles)] /\ Visible
  BY DEF SharedInv, LocalInv, TypeOK
<1>1. ASSUME NEW f \in Files
      PROVE  /\ f \in Registers /\ reg[f] \in Values \cup {Nothing}
             /\ disk[f] = "torn" => reg[f] = Nothing
             /\ disk[f] # "torn" => reg[f] = disk[f]
  <2>1. f[1] # "org"
    BY PlaceFacts
  <2>. QED  BY <1>0, <2>1 DEF reg, Registers, Values
<1>2. ASSUME NEW o \in Orgs
      PROVE  reg[<<"org", o>>] = msp[o][1] /\ msp[o][1] \in Values \cup {Nothing}
  <2>1. <<"org", o>> \notin Files /\ <<"org", o>> \in Registers
    BY PlaceFacts DEF Registers
  <2>2. msp[o] = NoMsp \/ msp[o][2] = NFiles
    BY <1>0 DEF Visible
  <2>3. NFiles # 0 /\ msp[o][1] \in Roots \cup {Nothing}
    BY <1>0, SizeAssumption
  <2>4. reg[<<"org", o>>] = IF msp[o][2] = NFiles THEN msp[o][1] ELSE Nothing
    BY <2>1 DEF reg
  <2>. QED  BY <2>2, <2>3, <2>4 DEF NoMsp, Values
<1>3. \A x \in Registers : x \in Files \/ \E o \in Orgs : x = <<"org", o>>
  BY DEF Registers
<1>4. reg = [x \in Registers |-> reg[x]]
  BY DEF reg
<1>. QED  BY <1>1, <1>2, <1>3, <1>4 DEF ReadOff

\* An operator action revises; anything else is a put or is not seen.
LEMMA ActsOnce ==
    ASSUME SharedInv, NEW p \in Procs, Acts(p), ReadOff'
    PROVE  Once!Next \/ UNCHANGED <<reg, edits>>
<1>0. LocalInv /\ TypeOK /\ Claims /\ UNCHANGED edits
  BY ActsOthers DEF SharedInv, LocalInv
<1>1. /\ reg \in [Registers -> Values \cup {Nothing}] /\ reg' \in [Registers -> Values \cup {Nothing}]
      /\ \A f \in Files : /\ f \in Registers
                          /\ disk[f] = "torn" => reg[f] = Nothing
                          /\ disk[f] # "torn" => reg[f] = disk[f]
                          /\ disk'[f] = "torn" => reg'[f] = Nothing
                          /\ disk'[f] # "torn" => reg'[f] = disk'[f]
      /\ \A o \in Orgs : reg[<<"org", o>>] = msp[o][1] /\ reg'[<<"org", o>>] = msp'[o][1]
  BY RegisterFacts DEF ReadOff, Registers
<1>2. \A x \in Registers : x \in Files \/ \E o \in Orgs : x = <<"org", o>>
  BY DEF Registers
<1>3. CASE UNCHANGED <<disk, msp>>
  BY <1>0, <1>3 DEF reg
<1>4. CASE /\ Open(p) /\ disk[run[p].at] = Nothing
           /\ disk' = [disk EXCEPT ![run[p].at] = "torn"] /\ run[p].at \in Files
  <2>1. UNCHANGED msp
    BY <1>4 DEF Open
  <2>2. \A f \in Files : reg'[f] = reg[f]
    BY <1>0, <1>1, <1>4 DEF TypeOK
  <2>3. \A x \in Registers : reg'[x] = reg[x]
    BY <1>1, <1>2, <2>1, <2>2
  <2>4. reg' = reg
    BY <1>1, <2>3
  <2>. QED  BY <1>0, <2>4
<1>5. CASE Write(p) /\ run[p].at \in Files
  <2> DEFINE f == run[p].at
  <2>1. disk' = [disk EXCEPT ![f] = "good"] /\ UNCHANGED msp /\ disk[f] = "torn"
    BY <1>0, <1>5 DEF Write, Claims
  <2>2. reg[f] = Nothing /\ reg'[f] = "good"
    BY <1>0, <1>1, <1>5, <2>1 DEF TypeOK
  <2>3. \A x \in Registers : x # f => reg'[x] = reg[x]
    BY <1>0, <1>1, <1>2, <2>1 DEF TypeOK
  <2>4. reg' = [reg EXCEPT ![f] = "good"]
    BY <1>1, <1>5, <2>2, <2>3
  <2>. QED  BY <1>0, <1>1, <1>5, <2>2, <2>4 DEF Once!Next, Once!Put, Values
<1>6. CASE Rename(p) /\ run[p].at[1] = "org" /\ run[p].want \in Roots
  <2> DEFINE o == run[p].at[2]
             r == <<"org", o>>
  <2>1. /\ msp' = [msp EXCEPT ![o] = <<run[p].want, run[p].staged>>] /\ UNCHANGED disk
        /\ msp[o] = NoMsp
    BY <1>0, <1>6 DEF Rename, Claims, Owning
  <2>2. o \in Orgs /\ r \in Registers /\ r \notin Files
    <3>1. run[p].at \in Places
      BY <1>0 DEF TypeOK, Process
    <3>. QED  BY <1>6, <3>1, PlaceFacts DEF Registers
  <2>3. reg[r] = Nothing /\ reg'[r] = run[p].want
    BY <1>0, <1>1, <2>1, <2>2 DEF TypeOK, NoMsp
  <2>4. \A x \in Registers : x # r => reg'[x] = reg[x]
    BY <1>0, <1>1, <1>2, <2>1 DEF TypeOK
  <2>5. reg' = [reg EXCEPT ![r] = run[p].want]
    BY <1>1, <2>2, <2>3, <2>4
  <2>. QED  BY <1>0, <1>6, <2>2, <2>3, <2>5 DEF Once!Next, Once!Put, Values
<1>7. CASE Quiet(p) \/ MakeOrg(p)
  BY <1>3, <1>7 DEF Quiet, MakeOrg
<1>. QED  BY <1>0, <1>4, <1>5, <1>6, <1>7, Effects

\* Every build, verification, kill and failed call is a step of WriteOnce or invisible to
\* it: finished output is replaced by nobody but the operator.
THEOREM Implements == Spec => ImplementsWriteOnce
<1>1. Init => Once!Init
  <2>. SUFFICES ASSUME Init PROVE Once!Init
    OBVIOUS
  <2>1. reg \in [Registers -> Values \cup {Nothing}]
    BY InitShared, RegisterFacts DEF ReadOff
  <2>. QED  BY <2>1 DEF Init, Once!Init
<1>2. SharedInv /\ ReadOff' /\ [Next]_vars => [Once!Next]_<<reg, edits>>
  <2>. SUFFICES ASSUME SharedInv, ReadOff', [Next]_vars
                PROVE  Once!Next \/ UNCHANGED <<reg, edits>>
    OBVIOUS
  <2>1. CASE UNCHANGED vars
    BY <2>1 DEF vars, reg
  <2>2. ASSUME NEW p \in Procs, Acts(p) PROVE Once!Next \/ UNCHANGED <<reg, edits>>
    BY <2>2, ActsOnce
  <2>3. CASE EditOutput \/ ChangePins
    <3>1. edits' = edits + 1
      BY <2>3 DEF EditOutput, ChangePins, Edit
    <3>2. reg' \in [Registers -> Values \cup {Nothing}]
      BY DEF ReadOff
    <3>. QED  BY <3>1, <3>2 DEF Once!Next, Once!Revise
  <2>. QED  BY <2>1, <2>2, <2>3 DEF Next, Acts
<1>. QED  BY <1>1, <1>2, InitShared, StepShared, RegisterFacts, PTL DEF Spec, ImplementsWriteOnce, Once!Spec

\* No step of any run changes a finished file or a visible public MSP, and none removes one:
\* overlapping builds, the ones that fail and the ones that are killed alike.
THEOREM FinishedStays == Spec => Once!PutStays
<1> DEFINE Stays == edits' = edits => \A r \in Registers : reg[r] # Nothing => reg'[r] = reg[r]
<1>1. SharedInv /\ [Once!Next]_<<reg, edits>> => [Stays]_<<reg, edits>>
  <2>. SUFFICES ASSUME SharedInv, Once!Next PROVE Stays
    OBVIOUS
  <2>1. reg \in [Registers -> Values \cup {Nothing}] /\ edits \in Nat
    BY RegisterFacts DEF ReadOff, SharedInv, LocalInv, TypeOK
  <2>2. CASE Once!Revise
    <3>1. edits' = edits + 1 /\ edits' # edits
      BY <2>1, <2>2 DEF Once!Revise
    <3>. QED  BY <3>1
  <2>3. ASSUME NEW r \in Registers, NEW v \in Values, Once!Put(r, v) PROVE Stays
    <3>. HIDE DEF reg
    <3>. QED  BY <2>1, <2>3 DEF Once!Put
  <2>. QED  BY <2>2, <2>3 DEF Once!Next
<1>. QED  BY <1>1, Implements, InitShared, StepShared, PTL DEF Spec, ImplementsWriteOnce, Once!Spec, Once!PutStays

-----------------------------------------------------------------------------
(* Nothing that is finished, and nothing that blocks, changes under a run. *)

LEMMA Grows ==
    ASSUME SharedInv, NEW p \in Procs, Acts(p)
    PROVE  /\ pins' = pins
           /\ \A f \in Files : disk[f] \in {"good", "foreign"} => disk'[f] = disk[f]
           /\ \A o \in Orgs : msp[o] # NoMsp => msp'[o] = msp[o]
<1>0. LocalInv /\ TypeOK /\ Claims /\ pins' = pins
  BY ActsOthers DEF SharedInv, LocalInv
<1>1. CASE Quiet(p) \/ MakeOrg(p)
  BY <1>0, <1>1 DEF Quiet, MakeOrg
<1>2. CASE Open(p) /\ disk[run[p].at] = Nothing /\ disk' = [disk EXCEPT ![run[p].at] = "torn"]
  BY <1>0, <1>2, RootsAssumption DEF Open, TypeOK
<1>3. CASE Write(p)
  BY <1>0, <1>3 DEF Write, Claims, TypeOK
<1>4. CASE Rename(p) /\ run[p].at[1] = "org"
  BY <1>0, <1>4 DEF Rename, Claims, Owning, TypeOK
<1>. QED  BY <1>0, <1>1, <1>2, <1>3, <1>4, Effects

LEMMA NotEmpty == \A root : Finished(root) # NoMsp
BY SizeAssumption DEF Finished, NoMsp

LEMMA PlacesKept ==
    ASSUME SharedInv, NEW p \in Procs, Acts(p)
    PROVE  \A place \in Places : (Good(place) => Good(place)') /\ (Blocks(place) => Blocks(place)')
<1>. SUFFICES ASSUME NEW place \in Places
              PROVE  (Good(place) => Good(place)') /\ (Blocks(place) => Blocks(place)')
  OBVIOUS
<1>1. place[1] = "org" => place[2] \in Orgs
  BY PlaceFacts
<1>. QED  BY <1>1, Grows, NotEmpty DEF Good, Blocks, Finished

LEMMA AssembledPlaces == Assembled <=> (pins # Nothing /\ \A place \in Places : Good(place))
<1>1. \A place \in Places : (place \in Files /\ place[1] # "org") \/ place[1] = "public"
                            \/ (place \notin Files /\ place[1] = "org" /\ place[2] \in Orgs)
  BY PlaceFacts
<1>2. \A f \in Files : f \in Places /\ f[1] # "org"
  BY PlaceFacts
<1>3. \A o \in Orgs : <<"org", o>> \in Places /\ <<"org", o>> \notin Files
  BY PlaceFacts
<1>4. \A place \in Places : place[1] = "public" => place \notin Files
  BY PlaceFacts
<1>5. ASSUME Assembled PROVE \A place \in Places : Good(place)
  BY <1>1, <1>4, <1>5 DEF Assembled, Good
<1>6. ASSUME pins # Nothing, \A place \in Places : Good(place) PROVE Assembled
  <2>1. \A f \in Files : disk[f] = "good"
    BY <1>2, <1>6 DEF Good
  <2>2. \A o \in Orgs : msp[o] = Finished(pins)
    BY <1>3, <1>6 DEF Good
  <2>. QED  BY <1>6, <2>1, <2>2 DEF Assembled
<1>. QED  BY <1>5, <1>6 DEF Assembled

LEMMA AssembledKept ==
    ASSUME SharedInv, NEW p \in Procs, Acts(p), Assembled
    PROVE  Assembled'
<1>1. pins # Nothing /\ pins' = pins
  BY Grows DEF Assembled
<1>2. \A f \in Files : disk'[f] = "good"
  BY Grows DEF Assembled
<1>3. \A o \in Orgs : msp'[o] = Finished(pins')
  BY <1>1, Grows, NotEmpty DEF Assembled
<1>. QED  BY <1>1, <1>2, <1>3 DEF Assembled

\* A run only stages into an organization that has no MSP yet: over assembled output, never.
LEMMA StagingComesFrom ==
    ASSUME LocalInv, NEW p \in Procs, Acts(p)
    PROVE  /\ run'[p].stage \in Staging => run[p].stage \in Staging \cup {"temp"}
           /\ ~debris /\ run[p].stage \notin Staging => ~debris'
<1>0. run \in [Procs -> Process] /\ run[p] \in Process /\ LocalOK(run[p])
  BY DEF LocalInv, TypeOK
<1>1. ASSUME NEW act \in {"build", "verify"}, Start(p, act)
      PROVE  run'[p].stage \notin Staging /\ debris' = debris
  BY <1>0, <1>1 DEF Start, New, Output, Staging
<1>2. CASE ReadInputs(p) \/ Preflight(p) \/ Verify(p)
  BY <1>0, <1>2 DEF ReadInputs, Preflight, Verify, Finishes, Walks, New, Output, Staging, Process
<1>3. CASE Exists(p)
  <2>0. run[p].want \in Roots /\ debris' = debris
    BY <1>0, <1>3 DEF Exists, LocalOK, Live, Output
  <2>1. Built(p) \/ Goes(p, "mkdir") \/ Goes(p, "open")
    BY <1>3 DEF Exists
  <2>2. Goes(p, "mkdir") \/ Goes(p, "open") => run'[p].stage \notin Staging
    BY <1>0 DEF Goes, Process, Staging
  <2>. QED  BY <2>0, <2>1, <2>2, BuiltShape DEF Staging
<1>4. CASE Open(p)
  BY <1>0, <1>4 DEF Open, Goes, Finishes, New, Staging, Process
<1>5. CASE Write(p)
  <2>1. run[p].want \in Roots /\ Built(p) /\ debris' = debris
    BY <1>0, <1>5 DEF Write, LocalOK, Live, Creating
  <2>. QED  BY <2>1, BuiltShape DEF Staging
<1>6. CASE MakeOrg(p)
  BY <1>0, <1>6 DEF MakeOrg, Goes, Finishes, New, Staging, Process
<1>7. CASE MakeTemp(p)
  BY <1>7 DEF MakeTemp, Output
<1>8. CASE StageFile(p) \/ Rename(p) \/ RemoveTemp(p)
  BY <1>8 DEF StageFile, Rename, RemoveTemp, Output, Staging
<1>9. CASE CallFails(p) \/ Kill(p)
  <2>1. run'[p].stage \notin Staging
    BY <1>0, <1>9 DEF CallFails, Kill, Finishes, New, Staging
  <2>2. ASSUME ~debris, run[p].stage \notin Staging PROVE ~debris'
    <3>1. run[p].stage # "clean"
      BY <2>2 DEF Staging
    <3>2. debris' = (debris \/ run[p].stage = "clean") \/ debris' = (debris \/ run[p].stage \in Staging)
      BY <1>9 DEF CallFails, Kill
    <3>. QED  BY <2>2, <3>1, <3>2, Zenon
  <2>. QED  BY <2>1, <2>2
<1>. QED  BY <1>1, <1>2, <1>3, <1>4, <1>5, <1>6, <1>7, <1>8, <1>9 DEF Acts, Step

LEMMA ReadyKept ==
    ASSUME SharedInv, NEW p \in Procs, Acts(p), Assembled, ~StrayName
    PROVE  Assembled' /\ ~StrayName'
<1>0. LocalInv /\ Claims
  BY DEF SharedInv
<1>1. run[p].stage # "temp"
  <2>. SUFFICES ASSUME run[p].stage = "temp" PROVE FALSE
    OBVIOUS
  <2>1. run[p].at[1] = "org" /\ run[p].at \in Places /\ msp[run[p].at[2]] = NoMsp
    BY <1>0 DEF LocalInv, TypeOK, Process, LocalOK, AtOrg, Claims, Owning
  <2>. QED  BY <2>1, PlaceFacts, NotEmpty DEF Assembled
<1>2. run[p].stage \notin Staging /\ ~debris
  BY DEF StrayName
<1>3. run'[p].stage \notin Staging
  BY <1>0, <1>1, <1>2, StagingComesFrom
<1>4. ~debris'
  BY <1>0, <1>2, StagingComesFrom
<1>5. \A q \in Procs : run'[q].stage \notin Staging
  BY <1>0, <1>3, ActsOthers DEF StrayName
<1>. QED  BY <1>4, <1>5, AssembledKept DEF StrayName

-----------------------------------------------------------------------------
(* A run keeps what it knows while another one acts.                       *)

LEMMA OthersAct ==
    ASSUME SharedInv, NEW q \in Procs, Acts(q),
           NEW p \in Procs, p # q, Undisturbed(p)
    PROVE  Undisturbed(p)'
<1>1. run'[p] = run[p] /\ pins' = pins
  BY ActsOthers DEF SharedInv
<1>2. \A place \in Places : (Good(place) => Good(place)') /\ (Blocks(place) => Blocks(place)')
  BY PlacesKept
<1>3. Verified(p)'
  BY <1>1, <1>2, AssembledKept DEF Undisturbed, Verified
<1>4. Refused(p)'
  <2>. SUFFICES ASSUME run[p].began = "differing" PROVE Refused(p)'
    BY <1>1 DEF Refused
  <2>1. run[p].stage \notin Creating \cup {"passed", "build"}
    BY DEF Undisturbed, Refused
  <2>2. run[p].stage = "inputs" => \E place \in Places : Blocks(place)'
    BY <1>2 DEF Undisturbed, Refused
  <2>3. run[p].stage = "preflight" => \E place \in Places :
           /\ Blocks(place)' /\ Rank(run[p].at) <= Rank(place)
           /\ (place[1] = "org" /\ Rank(run[p].at) > NLocals + 1) => place[2] \in run[p].listed
    BY <1>2 DEF Undisturbed, Refused
  <2>4. run[p].stage = "verify" => \E place \in Places :
           Blocks(place)' /\ VerifyRank(run[p].at) <= VerifyRank(place)
    BY <1>2 DEF Undisturbed, Refused
  <2>. QED  BY <1>1, <2>1, <2>2, <2>3, <2>4 DEF Refused
<1>5. Agreed(p)'
  BY <1>1, ReadyKept DEF Undisturbed, Agreed
<1>. QED  BY <1>3, <1>4, <1>5 DEF Undisturbed

-----------------------------------------------------------------------------
(* A run learns by its own steps.                                          *)

\* A run that starts takes down what the output is.
LEMMA StartUndisturbed ==
    ASSUME SharedInv, NEW p \in Procs, NEW act \in {"build", "verify"}, Start(p, act)
    PROVE  Undisturbed(p)'
<1>0. run \in [Procs -> Process] /\ UNCHANGED <<disk, made, msp, debris, pins>>
  BY DEF Start, Output, SharedInv, LocalInv, TypeOK
<1>1. PICK began \in {"ready", "matching", "differing", "other"} :
         /\ run' = [run EXCEPT ![p] = New("inputs", act, began)]
         /\ began = "ready" => Assembled /\ ~StrayName
         /\ began = "differing" => Differs
  BY DEF Start
<1>2. run'[p].stage = "inputs" /\ run'[p].began = began
  BY <1>0, <1>1 DEF New
<1>3. Verified(p)'
  BY <1>2 DEF Verified
<1>4. Differs => \E place \in Places : Blocks(place)
  <2>1. \A f \in Files : f \in Places
    BY PlaceFacts
  <2>2. \A o \in Orgs : <<"org", o>> \in Places
    BY PlaceFacts
  <2>. QED  BY <2>1, <2>2 DEF Differs, Blocks
<1>5. Refused(p)'
  <2>1. (\E place \in Places : Blocks(place)) => \E place \in Places : Blocks(place)'
    BY <1>0 DEF Blocks, Finished
  <2>. QED  BY <1>1, <1>2, <1>4, <2>1 DEF Refused, Creating, Staging
<1>6. Agreed(p)'
  <2>1. Acts(p)
    BY DEF Acts
  <2>2. began = "ready" => Assembled' /\ ~StrayName'
    BY <1>1, <2>1, ReadyKept
  <2>. QED  BY <1>2, <2>2 DEF Agreed, Creating, Staging
<1>. QED  BY <1>3, <1>5, <1>6 DEF Undisturbed

LEMMA InputsUndisturbed ==
    ASSUME SharedInv, NEW p \in Procs, Undisturbed(p), ReadInputs(p)
    PROVE  Undisturbed(p)'
<1>0. /\ run \in [Procs -> Process] /\ run[p] \in Process /\ run[p].stage = "inputs"
      /\ pins \in Roots \cup {Nothing} /\ pins' = pins /\ Acts(p)
  BY DEF ReadInputs, Bounds, SharedInv, LocalInv, TypeOK, Acts, Step
<1>1. \A place \in Places : Blocks(place) => Blocks(place)'
  BY <1>0, PlacesKept
<1>2. run[p].began = "ready" => Assembled' /\ ~StrayName' /\ pins # Nothing
  BY <1>0, ReadyKept DEF Undisturbed, Agreed, Assembled
<1>3. CASE pins = Nothing
  <2>1. run'[p].stage = "failed" /\ run'[p].began = run[p].began
    BY <1>0, <1>3 DEF ReadInputs, Finishes, New
  <2>. QED  BY <1>2, <1>3, <2>1
            DEF Undisturbed, Verified, Refused, Agreed, Live, Creating, Staging
<1>4. CASE pins # Nothing
  <2>1. /\ run'[p].began = run[p].began /\ run'[p].want = pins'
        /\ \/ run'[p].stage = "preflight" /\ run'[p].at = <<"local", 1>>
           \/ run'[p].stage = "verify" /\ run'[p].at = <<"public", 1>>
    BY <1>0, <1>4 DEF ReadInputs, Process
  <2>2. /\ Rank(<<"local", 1>>) = 1 /\ VerifyRank(<<"public", 1>>) = 0 /\ NLocals \in Nat
        /\ \A place \in Places : /\ Rank(place) \in Nat /\ Rank(place) >= 1
                                 /\ VerifyRank(place) \in Nat
    BY RankFacts, SizeAssumption
  <2>3. Verified(p)'
    BY <2>1, <2>2 DEF Verified
  <2>4. Refused(p)'
    <3>. SUFFICES ASSUME run[p].began = "differing" PROVE Refused(p)'
      BY <2>1 DEF Refused
    <3>1. PICK place \in Places : Blocks(place)'
      BY <1>0, <1>1 DEF Undisturbed, Refused
    <3>2. run'[p].stage \notin Creating \cup {"passed", "build", "inputs"}
      BY <2>1 DEF Creating, Staging
    <3>3. run'[p].stage = "preflight" =>
             /\ Rank(run'[p].at) <= Rank(place) /\ ~(Rank(run'[p].at) > NLocals + 1)
      BY <2>1, <2>2
    <3>4. run'[p].stage = "verify" => VerifyRank(run'[p].at) <= VerifyRank(place)
      BY <2>1, <2>2
    <3>. QED  BY <3>1, <3>2, <3>3, <3>4 DEF Refused
  <2>5. Agreed(p)'
    BY <1>2, <2>1 DEF Agreed, Creating, Staging
  <2>. QED  BY <2>3, <2>4, <2>5 DEF Undisturbed
<1>. QED  BY <1>3, <1>4

\* A difference is at the run's place or behind it in preflight's order: preflight
\* stops at it or leaves it ahead.
LEMMA PreflightUndisturbed ==
    ASSUME SharedInv, NEW p \in Procs, Undisturbed(p), Preflight(p)
    PROVE  Undisturbed(p)'
<1> DEFINE at == run[p].at
<1>0. /\ run \in [Procs -> Process] /\ run[p] \in Process /\ run[p].stage = "preflight"
      /\ at \in Places /\ run[p].want = pins /\ pins' = pins /\ Acts(p) /\ Visible
      /\ UNCHANGED <<disk, made, msp>>
  BY DEF Preflight, Bounds, Output, SharedInv, LocalInv, TypeOK, Acts, Step, Process,
     Undisturbed, Verified, Live
<1>1. \A place \in Places : Blocks(place) => Blocks(place)'
  BY <1>0, PlacesKept
<1>2. run[p].began = "ready" => Assembled' /\ ~StrayName' /\ Accepts(p)
  <2>. SUFFICES ASSUME run[p].began = "ready" PROVE Assembled' /\ ~StrayName' /\ Accepts(p)
    OBVIOUS
  <2>1. Assembled /\ ~StrayName
    BY DEF Undisturbed, Agreed
  <2>2. at[1] = "org" => at[2] \in Orgs
    BY <1>0, PlaceFacts
  <2>3. Accepts(p)
    BY <1>0, <2>1, <2>2 DEF Accepts, Assembled
  <2>. QED  BY <1>0, <2>1, <2>3, ReadyKept
<1>3. Accepts(p) => ~(Blocks(at) /\ (at[1] = "org" => at[2] \in run[p].listed))
  BY <1>0, RootsAssumption, PlaceFacts DEF Accepts, Blocks
<1>4. CASE ~Accepts(p) /\ Finishes(p, "failed")
  <2>1. run'[p].stage = "failed" /\ run'[p].began = run[p].began
    BY <1>0, <1>4 DEF Finishes, New
  <2>. QED  BY <1>2, <1>4, <2>1
            DEF Undisturbed, Verified, Refused, Agreed, Live, Creating, Staging
<1>5. CASE Accepts(p) /\ at[1] = "probe" /\ Walks(p, "build", <<"local", 1>>)
  <2>1. /\ run'[p].stage = "build" /\ run'[p].began = run[p].began /\ run'[p].want = run[p].want
    BY <1>0, <1>5 DEF Walks, Process
  <2>2. run[p].began # "differing"
    <3>. SUFFICES ASSUME run[p].began = "differing" PROVE FALSE
      OBVIOUS
    <3>1. PICK place \in Places : Blocks(place) /\ Rank(at) <= Rank(place)
      BY <1>0 DEF Undisturbed, Refused
    <3>2. at = <<"probe", 1>>
      BY <1>0, <1>5, PlaceFacts
    <3>3. Rank(place) <= Rank(at) /\ Rank(place) \in Nat /\ Rank(at) \in Nat
      BY <1>0, <3>2, RankFacts
    <3>4. place = at
      BY <1>0, <3>1, <3>3, RankFacts
    <3>. QED  BY <1>3, <1>5, <3>1, <3>4
  <2>3. Verified(p)'
    BY <1>0, <2>1 DEF Verified
  <2>. QED  BY <1>2, <2>1, <2>2, <2>3 DEF Undisturbed, Refused, Agreed, Creating, Staging
<1>6. CASE /\ Accepts(p) /\ at[1] # "probe"
           /\ run' = [run EXCEPT
                ![p].at = After(at), ![p].listed = IF at[1] = "public" THEN made ELSE run[p].listed]
  <2> DEFINE ls == IF at[1] = "public" THEN made ELSE run[p].listed
  <2>1. /\ run'[p].stage = "preflight" /\ run'[p].began = run[p].began
        /\ run'[p].want = run[p].want /\ run'[p].at = After(at) /\ run'[p].listed = ls
    BY <1>0, <1>6 DEF Process
  <2>2. Verified(p)'
    BY <1>0, <2>1 DEF Verified
  <2>3. Agreed(p)'
    BY <1>2, <2>1 DEF Agreed, Creating, Staging
  <2>4. Refused(p)'
    <3>. SUFFICES ASSUME run[p].began = "differing" PROVE Refused(p)'
      BY <2>1 DEF Refused
    <3>1. PICK place \in Places :
             /\ Blocks(place) /\ Rank(at) <= Rank(place)
             /\ (place[1] = "org" /\ Rank(at) > NLocals + 1) => place[2] \in run[p].listed
      BY <1>0 DEF Undisturbed, Refused
    <3>2. place # at
      <4>1. at[1] = "org" => Rank(at) > NLocals + 1
        BY <1>0, RankFacts
      <4>. QED  BY <1>3, <1>6, <3>1, <4>1
    <3>3. /\ Rank(After(at)) = Rank(at) + 1 /\ Rank(at) \in Nat /\ Rank(place) \in Nat
          /\ Rank(place) # Rank(at) /\ NLocals \in Nat
      BY <1>0, <1>6, <3>2, AfterFacts, RankFacts, SizeAssumption
    <3>4. Rank(run'[p].at) <= Rank(place)
      BY <2>1, <3>1, <3>3
    <3>5. (place[1] = "org" /\ Rank(run'[p].at) > NLocals + 1) => place[2] \in run'[p].listed
      <4>. SUFFICES ASSUME place[1] = "org", Rank(After(at)) > NLocals + 1
                    PROVE  place[2] \in ls
        BY <2>1
      <4>1. CASE at[1] = "public"
        <5>1. place[2] \in Orgs /\ msp[place[2]] # NoMsp
          BY <3>1, PlaceFacts DEF Blocks
        <5>. QED  BY <1>0, <4>1, <5>1 DEF Visible
      <4>2. CASE at[1] # "public"
        <5>1. at[1] # "local"
          BY <1>0, <3>3, RankFacts
        <5>2. at[1] = "org"
          BY <1>0, <1>6, <4>2, <5>1, PlaceFacts
        <5>. QED  BY <1>0, <3>1, <4>2, <5>2, RankFacts
      <4>. QED  BY <4>1, <4>2
    <3>6. run'[p].stage \notin Creating \cup {"passed", "build", "inputs", "verify"}
      BY <2>1 DEF Creating, Staging
    <3>. QED  BY <1>1, <3>1, <3>4, <3>5, <3>6 DEF Refused
  <2>. QED  BY <2>2, <2>3, <2>4 DEF Undisturbed
<1>. QED  BY <1>4, <1>5, <1>6 DEF Preflight

\* A run that creates, or ends its build, began over neither differing nor ready output.
LEMMA BuildsUndisturbed ==
    ASSUME SharedInv, NEW p \in Procs, Undisturbed(p), Acts(p),
           run[p].began \notin {"differing", "ready"},
           run'[p].began = run[p].began,
           run'[p].stage \in Live \ {"inputs"} =>
              run[p].stage \in Live \ {"inputs"} /\ run'[p].want = run[p].want,
           run'[p].stage = "verify" => run'[p].at = <<"public", 1>>,
           run'[p].stage # "passed"
    PROVE  Undisturbed(p)'
<1>1. pins' = pins
  BY Grows
<1>2. VerifyRank(<<"public", 1>>) = 0 /\ \A place \in Places : VerifyRank(place) \in Nat
  BY RankFacts
<1>. QED  BY <1>1, <1>2 DEF Undisturbed, Verified, Refused, Agreed

LEMMA CreatesUndisturbed ==
    ASSUME SharedInv, NEW p \in Procs, Undisturbed(p),
           Open(p) \/ Write(p) \/ MakeOrg(p) \/ MakeTemp(p) \/ StageFile(p) \/ Rename(p) \/ RemoveTemp(p)
    PROVE  Undisturbed(p)'
<1>0. /\ run \in [Procs -> Process] /\ run[p] \in Process /\ run[p].stage \in Creating
      /\ LocalInv /\ LocalOK(run[p]) /\ Acts(p)
  BY DEF SharedInv, LocalInv, TypeOK, Acts, Step, Creating, Staging, Open, Write, MakeOrg,
     MakeTemp, StageFile, Rename, RemoveTemp
<1>1. run[p].stage \in Live \ {"inputs"} /\ run[p].want \in Roots
  BY <1>0 DEF LocalOK, Live, Creating, Staging
<1>2. run[p].began \notin {"differing", "ready"}
  BY <1>0 DEF Undisturbed, Refused, Agreed
<1>3. CASE Built(p)
  <2>1. run'[p].began = run[p].began /\ run'[p].want = run[p].want
        /\ run'[p].stage \in {"build", "verify"}
        /\ (run'[p].stage = "verify" => run'[p].at = <<"public", 1>>)
    BY <1>0, <1>1, <1>3, BuiltShape
  <2>. QED  BY <1>0, <1>1, <1>2, <2>1, BuildsUndisturbed
<1>4. CASE Finishes(p, "failed")
  <2>1. run'[p].stage = "failed" /\ run'[p].began = run[p].began
    BY <1>0, <1>4 DEF Finishes, New
  <2>2. "failed" \notin Live
    BY DEF Live, Creating, Staging
  <2>. QED  BY <1>0, <1>2, <2>1, <2>2, BuildsUndisturbed
<1>5. CASE Goes(p, "write") \/ Goes(p, "temp") \/ Goes(p, "clean") \/ MakeTemp(p) \/ StageFile(p)
  <2>1. run'[p].began = run[p].began /\ run'[p].want = run[p].want
        /\ run'[p].stage \notin {"verify", "passed"}
    BY <1>0, <1>5 DEF Goes, MakeTemp, StageFile, Process
  <2>. QED  BY <1>0, <1>1, <1>2, <2>1, BuildsUndisturbed
<1>. QED  BY <1>3, <1>4, <1>5 DEF Open, Write, MakeOrg, Rename, RemoveTemp

\* Over ready output nothing is missing: the walk creates nothing.
LEMMA ExistsUndisturbed ==
    ASSUME SharedInv, NEW p \in Procs, Undisturbed(p), Exists(p)
    PROVE  Undisturbed(p)'
<1>0. /\ run \in [Procs -> Process] /\ run[p] \in Process /\ run[p].stage = "build"
      /\ LocalInv /\ LocalOK(run[p]) /\ Acts(p) /\ Visible /\ run[p].at \in Places
  BY DEF SharedInv, LocalInv, TypeOK, Process, Acts, Step, Exists
<1>1. run[p].stage \in Live \ {"inputs"} /\ run[p].want \in Roots
  BY <1>0 DEF LocalOK, Live
<1>2. run[p].began # "differing"
  BY <1>0 DEF Undisturbed, Refused
<1>3. CASE Built(p)
  <2>1. /\ run'[p].began = run[p].began /\ run'[p].want = run[p].want
        /\ run'[p].stage \in {"build", "verify"}
        /\ run'[p].stage = "verify" => run'[p].at = <<"public", 1>>
    BY <1>0, <1>1, <1>3, BuiltShape
  <2>2. CASE run[p].began = "ready"
    <3>1. Assembled' /\ ~StrayName'
      BY <1>0, <2>2, ReadyKept DEF Undisturbed, Agreed
    <3>2. VerifyRank(<<"public", 1>>) = 0 /\ \A place \in Places : VerifyRank(place) \in Nat
      BY RankFacts
    <3>3. pins' = pins /\ run[p].want = pins
      BY <1>0, <1>1, Grows DEF Undisturbed, Verified
    <3>4. Verified(p)'
      BY <2>1, <3>2, <3>3 DEF Verified
    <3>. QED  BY <1>2, <2>1, <3>1, <3>4 DEF Undisturbed, Refused, Agreed, Creating, Staging
  <2>3. CASE run[p].began # "ready"
    BY <1>0, <1>1, <1>2, <2>1, <2>3, BuildsUndisturbed
  <2>. QED  BY <2>2, <2>3
<1>4. CASE Missing(run[p].at) /\ run[p].at[1] # "public" /\ (Goes(p, "mkdir") \/ Goes(p, "open"))
  <2>1. /\ run'[p].began = run[p].began /\ run'[p].want = run[p].want
        /\ run'[p].stage \in {"mkdir", "open"}
    BY <1>0, <1>4 DEF Goes, Process
  <2>2. run[p].began # "ready"
    <3>. SUFFICES ASSUME run[p].began = "ready" PROVE FALSE
      OBVIOUS
    <3>1. Assembled
      BY DEF Undisturbed, Agreed
    <3>2. Nothing # "good" /\ \A o \in Orgs : o \in made
      BY <1>0, <3>1, RootsAssumption, NotEmpty DEF Assembled, Visible
    <3>3. run[p].at \in Files \/ (run[p].at[1] = "org" /\ run[p].at[2] \in Orgs)
      BY <1>0, <1>4, PlaceFacts
    <3>. QED  BY <1>4, <3>1, <3>2, <3>3 DEF Missing, Assembled
  <2>. QED  BY <1>0, <1>1, <1>2, <2>1, <2>2, BuildsUndisturbed
<1>. QED  BY <1>3, <1>4 DEF Exists

\* What verify has passed stays as it found it, so that at the end all of it holds at once.
LEMMA VerifyUndisturbed ==
    ASSUME SharedInv, NEW p \in Procs, Undisturbed(p), Verify(p)
    PROVE  Undisturbed(p)'
<1> DEFINE at == run[p].at
<1>0. /\ run \in [Procs -> Process] /\ run[p] \in Process /\ run[p].stage = "verify"
      /\ at \in Places /\ run[p].want = pins /\ run[p].want \in Roots /\ pins' = pins
      /\ Acts(p) /\ Visible /\ pins # Nothing /\ made \subseteq Orgs
  BY RootsAssumption DEF Verify, Bounds, SharedInv, LocalInv, LocalOK, TypeOK, Acts, Step, Process,
     Undisturbed, Verified, Live
<1>1. \A place \in Places : (Good(place) => Good(place)') /\ (Blocks(place) => Blocks(place)')
  BY <1>0, PlacesKept
<1>2. run[p].began = "ready" => Assembled' /\ ~StrayName' /\ Confirms(p)
  <2>. SUFFICES ASSUME run[p].began = "ready" PROVE Assembled' /\ ~StrayName' /\ Confirms(p)
    OBVIOUS
  <2>1. Assembled /\ ~StrayName
    BY DEF Undisturbed, Agreed
  <2>2. at[1] = "org" => at[2] \in Orgs
    BY <1>0, PlaceFacts
  <2>3. made = Orgs
    BY <1>0, <2>1, NotEmpty DEF Assembled, Visible
  <2>4. Confirms(p)
    BY <1>0, <2>1, <2>2, <2>3 DEF Confirms, Assembled
  <2>. QED  BY <1>0, <2>1, <2>4, ReadyKept
<1>3. Confirms(p) => Good(at) /\ ~Blocks(at)
  BY <1>0, PlaceFacts DEF Confirms, Good, Blocks
<1>4. /\ \A a, b \in Places : VerifyRank(a) = VerifyRank(b) => a = b
      /\ \A a \in Places : VerifyRank(a) \in Nat
  BY RankFacts
<1>5. CASE ~Confirms(p) /\ Finishes(p, "failed")
  <2>1. run'[p].stage = "failed" /\ run'[p].began = run[p].began
    BY <1>0, <1>5 DEF Finishes, New
  <2>. QED  BY <1>2, <1>5, <2>1
            DEF Undisturbed, Verified, Refused, Agreed, Live, Creating, Staging
<1>6. CASE Confirms(p) /\ at[1] = "probe" /\ Finishes(p, "passed")
  <2>1. run'[p].stage = "passed" /\ run'[p].began = run[p].began
    BY <1>0, <1>6 DEF Finishes, New
  <2>2. at = <<"probe", 1>>
    BY <1>0, <1>6, PlaceFacts
  <2>3. \A place \in Places : place # at => VerifyRank(place) < VerifyRank(at)
    <3>1. \A place \in Places : VerifyRank(place) <= VerifyRank(at)
      BY <2>2, RankFacts
    <3>. QED  BY <1>0, <1>4, <3>1
  <2>4. \A place \in Places : Good(place)
    BY <1>0, <1>3, <1>6, <2>3 DEF Undisturbed, Verified
  <2>5. Assembled'
    BY <1>0, <2>4, AssembledPlaces, AssembledKept
  <2>6. Verified(p)'
    BY <2>1, <2>5 DEF Verified, Live, Creating, Staging
  <2>7. run[p].began # "differing"
    <3>. SUFFICES ASSUME run[p].began = "differing" PROVE FALSE
      OBVIOUS
    <3>1. PICK place \in Places : Blocks(place) /\ VerifyRank(at) <= VerifyRank(place)
      BY <1>0 DEF Undisturbed, Refused
    <3>2. place = at
      BY <1>0, <1>4, <2>3, <3>1
    <3>. QED  BY <1>3, <1>6, <3>1, <3>2
  <2>. QED  BY <1>2, <2>1, <2>6, <2>7 DEF Undisturbed, Refused, Agreed, Creating, Staging
<1>7. CASE Confirms(p) /\ at[1] # "probe" /\ Walks(p, "verify", AfterInVerify(at))
  <2>1. /\ run'[p].stage = "verify" /\ run'[p].began = run[p].began
        /\ run'[p].want = run[p].want /\ run'[p].at = AfterInVerify(at)
    BY <1>0, <1>7 DEF Walks, Process
  <2>2. VerifyRank(AfterInVerify(at)) = VerifyRank(at) + 1
    BY <1>0, <1>7, AfterFacts
  <2>3. \A place \in Places :
           VerifyRank(place) < VerifyRank(AfterInVerify(at)) => place = at \/ VerifyRank(place) < VerifyRank(at)
    BY <1>0, <1>4, <2>2
  <2>4. \A place \in Places : VerifyRank(place) < VerifyRank(run'[p].at) => Good(place)'
    BY <1>0, <1>1, <1>3, <1>7, <2>1, <2>3 DEF Undisturbed, Verified
  <2>5. Verified(p)'
    BY <1>0, <2>1, <2>4 DEF Verified
  <2>6. Refused(p)'
    <3>. SUFFICES ASSUME run[p].began = "differing" PROVE Refused(p)'
      BY <2>1 DEF Refused
    <3>1. PICK place \in Places : Blocks(place) /\ VerifyRank(at) <= VerifyRank(place)
      BY <1>0 DEF Undisturbed, Refused
    <3>2. place # at
      BY <1>3, <1>7, <3>1
    <3>3. VerifyRank(run'[p].at) <= VerifyRank(place)
      BY <1>0, <1>4, <2>1, <2>2, <3>1, <3>2
    <3>. QED  BY <1>1, <2>1, <3>1, <3>3 DEF Refused, Creating, Staging
  <2>7. Agreed(p)'
    BY <1>2, <2>1 DEF Agreed, Creating, Staging
  <2>. QED  BY <2>5, <2>6, <2>7 DEF Undisturbed
<1>. QED  BY <1>5, <1>6, <1>7 DEF Verify

LEMMA KillUndisturbed ==
    ASSUME SharedInv, NEW p \in Procs, Undisturbed(p), Kill(p)
    PROVE  Undisturbed(p)'
<1>0. run \in [Procs -> Process] /\ Acts(p)
  BY DEF SharedInv, LocalInv, TypeOK, Acts
<1>1. run'[p].stage = "killed" /\ run'[p].began = run[p].began
  BY <1>0 DEF Kill, Finishes, New
<1>2. run[p].began = "ready" => Assembled' /\ ~StrayName'
  BY <1>0, ReadyKept DEF Undisturbed, Agreed
<1>. QED  BY <1>1, <1>2 DEF Undisturbed, Verified, Refused, Agreed, Live, Creating, Staging

-----------------------------------------------------------------------------
(* The invariant, and what follows.                                        *)

LEMMA InitInvariant == Init => IInv
<1>. SUFFICES ASSUME Init PROVE IInv
  OBVIOUS
<1>1. \A p \in Procs : run[p].stage = "idle" /\ run[p].began = "other"
  BY DEF Init, New
<1>2. \A p \in Procs : Undisturbed(p)
  BY <1>1 DEF Undisturbed, Verified, Refused, Agreed, Live, Creating, Staging
<1>. QED  BY <1>2, InitShared DEF IInv

LEMMA StepInvariant == IInv /\ [Next]_vars => IInv'
<1>. SUFFICES ASSUME IInv, [Next]_vars PROVE IInv'
  OBVIOUS
<1>0. SharedInv /\ SharedInv'
  BY StepShared DEF IInv
<1>1. CASE UNCHANGED vars
  <2>1. \A p \in Procs : Undisturbed(p) => Undisturbed(p)'
    BY <1>1 DEF vars, Undisturbed, Verified, Refused, Agreed, Good, Blocks, Assembled, StrayName
  <2>. QED  BY <1>0, <1>1, <2>1 DEF IInv, vars
<1>2. ASSUME NEW q \in Procs, Acts(q), NEW p \in Procs \ disturbed' PROVE Undisturbed(p)'
  <2>1. CASE p # q
    <3>1. p \notin disturbed
      BY <1>2, <2>1 DEF Acts, Step, Start, ReadInputs, Preflight, Exists, Open, Write, MakeOrg,
         MakeTemp, StageFile, Rename, RemoveTemp, Verify, CallFails, Kill, Bounds
    <3>. QED  BY <1>0, <1>2, <2>1, <3>1, OthersAct DEF IInv
  <2>2. CASE \E act \in {"build", "verify"} : Start(p, act)
    BY <1>0, <2>2, StartUndisturbed
  <2>3. CASE p = q /\ (Step(q) \/ CallFails(q) \/ Kill(q))
    <3>1. p \notin disturbed /\ ~CallFails(q)
      BY <1>2, <2>3 DEF Step, ReadInputs, Preflight, Exists, Open, Write, MakeOrg,
         MakeTemp, StageFile, Rename, RemoveTemp, Verify, CallFails, Kill, Bounds
    <3>2. Undisturbed(p)
      BY <3>1 DEF IInv
    <3>. QED  BY <1>0, <2>3, <3>1, <3>2, InputsUndisturbed, PreflightUndisturbed, ExistsUndisturbed,
                 CreatesUndisturbed, VerifyUndisturbed, KillUndisturbed DEF Step
  <2>. QED  BY <1>2, <2>1, <2>2, <2>3 DEF Acts
<1>3. CASE EditOutput \/ ChangePins
  BY <1>0, <1>3 DEF EditOutput, ChangePins, Edit, IInv
<1>4. CASE \E q \in Procs : Acts(q)
  BY <1>0, <1>2, <1>4 DEF IInv
<1>. QED  BY <1>1, <1>3, <1>4 DEF Next, Acts

LEMMA Invariance == Spec => []IInv
BY InitInvariant, StepInvariant, PTL DEF Spec

\* PASS means that all of the output is what the pinned inputs give, at one moment, and
\* it stays so until somebody edits the output or the inputs.
THEOREM PassIsTrue == Spec => []PassMeansAssembled
<1>1. IInv => PassMeansAssembled
  BY DEF IInv, PassMeansAssembled, Standing, Undisturbed, Verified
<1>. QED  BY <1>1, Invariance, PTL

\* A run that begins over differing output neither creates anything nor passes.
THEOREM RefusesBeforeWriting == Spec => []FailsClosed
<1>1. IInv => FailsClosed
  BY DEF IInv, FailsClosed, Undisturbed, Refused
<1>. QED  BY <1>1, Invariance, PTL

\* A run that begins over finished output creates nothing and does not fail.
THEOREM RepeatIsIdempotent == Spec => []RerunAgrees
<1>1. IInv => RerunAgrees
  BY DEF IInv, RerunAgrees, Undisturbed, Agreed
<1>. QED  BY <1>1, Invariance, PTL


-----------------------------------------------------------------------------
(* A build that is alone and is not interrupted completes what matches.    *)

\* Nothing is half made, except what the run is at; what it is about to make is missing; and
\* what preflight has listed is there.
Tidy(p) ==
    /\ ~debris
    /\ \A f \in Files : disk[f] = "torn" => run[p].stage = "write" /\ run[p].at = f
    /\ \A o \in made : msp[o] = NoMsp => run[p].stage \in Owning /\ run[p].at = <<"org", o>>
    /\ run[p].stage = "open" => disk[run[p].at] = Nothing
    /\ run[p].stage = "mkdir" => run[p].at[2] \notin made
    /\ run[p].stage \in {"inputs", "preflight"} => run[p].listed \subseteq made

\* A build over matching output with usable inputs meets no difference, and what it has left
\* behind is complete.
Completing(p) == p \notin disturbed /\ run[p].act = "build" /\ run[p].began = "matching" /\ pins # Nothing
Completes(p) == Completing(p) =>
    /\ run[p].stage # "failed"
    /\ run[p].stage \in Live => \A place \in Places : ~Blocks(place)
    /\ run[p].stage \in {"build"} \cup Creating =>
          \A place \in Places : Rank(place) < Rank(run[p].at) => Good(place)
    /\ run[p].stage = "clean" => Good(run[p].at)
    /\ run[p].stage = "verify" => \A place \in Places : Good(place)

CalmInv == \A p \in Procs : Alone(p) => Tidy(p) /\ Completes(p)

LEMMA CalmFacts ==
    ASSUME IInv, NEW p \in Procs
    PROVE  /\ SharedInv /\ LocalInv /\ TypeOK /\ Visible /\ Claims
           /\ run \in [Procs -> Process] /\ run[p] \in Process /\ LocalOK(run[p]) /\ run[p].at \in Places
           /\ Completing(p) /\ run[p].stage \in Live \ {"inputs"} => run[p].want = pins
BY DEF IInv, SharedInv, LocalInv, TypeOK, Process, Undisturbed, Verified, Completing

\* A place that is neither different nor half made nor missing is good.
LEMMA GoodOrMissing ==
    ASSUME IInv, NEW p \in Procs, Tidy(p), run[p].stage \notin Owning \cup {"write"},
           NEW place \in Places, ~Blocks(place), ~Missing(place)
    PROVE  Good(place)
<1>1. /\ TypeOK /\ (place[1] = "org" => place[2] \in Orgs /\ place \notin Files)
      /\ run[p].stage # "write" /\ run[p].stage \notin Owning
  BY CalmFacts, PlaceFacts
<1>2. ASSUME place \in Files PROVE disk[place] = "good"
  <2>1. disk[place] \in {Nothing, "good", "torn", "foreign"} /\ disk[place] # "torn"
    BY <1>1, <1>2 DEF TypeOK, Tidy
  <2>2. place[1] # "org" /\ disk[place] # "foreign"
    BY <1>1, <1>2 DEF Blocks
  <2>. QED  BY <1>2, <2>1, <2>2 DEF Missing
<1>3. ASSUME place[1] = "org" PROVE msp[place[2]] = Finished(pins)
  <2>1. place[2] \in made
    BY <1>1, <1>3 DEF Missing
  <2>2. msp[place[2]] # NoMsp
    BY <1>1, <2>1 DEF Tidy
  <2>. QED  BY <1>3, <2>2 DEF Blocks
<1>. QED  BY <1>2, <1>3 DEF Good

\* A run that ends without a failure, or that nobody expects to complete anything.
LEMMA FinishesCalm ==
    ASSUME IInv, NEW p \in Procs, Tidy(p), NEW stage \in {"passed", "failed"}, Finishes(p, stage),
           UNCHANGED <<Output, Bounds>>, run[p].stage \notin Owning \cup {"write"},
           stage = "failed" => ~Completing(p)
    PROVE  Tidy(p)' /\ Completes(p)'
<1>1. run'[p] = New(stage, run[p].act, run[p].began)
  BY CalmFacts DEF Finishes
<1>2. run'[p].stage = stage /\ run'[p].act = run[p].act /\ run'[p].began = run[p].began
  BY <1>1 DEF New
<1>3. Tidy(p)'
  BY <1>2 DEF Tidy, Output, Bounds
<1>4. Completing(p)' => Completing(p)
  BY <1>2 DEF Completing, Bounds
<1>5. stage \notin Live \cup Creating \cup {"build", "clean", "verify"}
  BY DEF Live, Creating, Staging
<1>. QED  BY <1>2, <1>3, <1>4, <1>5 DEF Completes

\* A build goes on when what belongs at its place is there.
LEMMA BuiltCalm ==
    ASSUME IInv, NEW p \in Procs, Built(p), run[p].want \in Roots, UNCHANGED <<debris, Bounds>>, Tidy(p),
           \A f \in Files : disk'[f] # "torn", \A o \in made' : msp'[o] # NoMsp,
           Completing(p) => \A place \in Places :
              ~Blocks(place)' /\ (Rank(place) <= Rank(run[p].at) => Good(place)')
    PROVE  Tidy(p)' /\ Completes(p)'
<1>1. /\ run[p].at \in Places /\ run[p] \in Process /\ LocalInv /\ run \in [Procs -> Process]
      /\ run'[p].stage \in {"build", "verify"}
  BY CalmFacts, BuiltShape
<1>2. Tidy(p)'
  BY <1>1 DEF Tidy
<1>3. ASSUME Completing(p)' PROVE Completing(p)
  <2>1. run'[p].act = run[p].act /\ run'[p].began = run[p].began
    BY <1>1 DEF Built, Walks, Process
  <2>. QED  BY <1>3, <2>1 DEF Completing, Bounds
<1>4. ASSUME Completing(p), run'[p].stage = "verify" PROVE \A place \in Places : Good(place)'
  <2>1. run[p].at[1] = "probe"
    BY <1>1, <1>4 DEF Built, Walks, Process
  <2>2. run[p].at = <<"probe", 1>>
    BY <1>1, <2>1, PlaceFacts
  <2>. QED  BY <1>4, <2>2, RankFacts
<1>5. ASSUME Completing(p), run'[p].stage = "build", NEW place \in Places, Rank(place) < Rank(run'[p].at)
      PROVE  Good(place)'
  <2>1. run[p].at[1] # "probe" /\ run'[p].at = After(run[p].at)
    BY <1>1, <1>5 DEF Built, Walks, Process
  <2>2. Rank(run'[p].at) = Rank(run[p].at) + 1
    BY <1>1, <2>1, AfterFacts
  <2>3. Rank(place) \in Nat /\ Rank(run[p].at) \in Nat
    BY <1>1, RankFacts
  <2>4. Rank(place) <= Rank(run[p].at)
    BY <1>5, <2>2, <2>3
  <2>. QED  BY <1>5, <2>4
<1>. QED  BY <1>1, <1>2, <1>3, <1>4, <1>5 DEF Completes, Creating, Staging

\* What a run leaves alone stays calm while it goes to another stage of the same place.
LEMMA GoesCalm ==
    ASSUME IInv, NEW p \in Procs, Tidy(p)', Completes(p),
           run'[p].stage \in {"open", "write", "mkdir", "temp", "stage", "rename"},
           run'[p].at = run[p].at, run'[p].act = run[p].act, run'[p].began = run[p].began,
           run[p].stage \in {"build"} \cup Creating, UNCHANGED Bounds,
           Completing(p) => \A place \in Places : ~Blocks(place)' /\ (Good(place) => Good(place)')
    PROVE  Completes(p)'
<1>1. Completing(p)' => Completing(p)
  BY DEF Completing, Bounds
<1>2. run[p].stage \in {"build"} \cup Creating /\ run'[p].stage \in {"build"} \cup Creating
  BY DEF Creating, Staging
<1>3. run'[p].stage \notin {"failed", "clean", "verify"}
  OBVIOUS
<1>. QED  BY <1>1, <1>2, <1>3 DEF Completes

\* What the output is at a place, nobody changes without changing the output.
LEMMA SameOutput ==
    ASSUME UNCHANGED <<Output, Bounds>>, NEW place
    PROVE  Good(place)' = Good(place) /\ Blocks(place)' = Blocks(place)
BY DEF Good, Blocks, Output, Bounds

LEMMA StartCalm ==
    ASSUME IInv, NEW p \in Procs, Tidy(p), NEW act \in {"build", "verify"}, Start(p, act)
    PROVE  Tidy(p)' /\ Completes(p)'
<1>1. PICK began \in {"ready", "matching", "differing", "other"} :
         /\ run' = [run EXCEPT ![p] = New("inputs", act, began)]
         /\ began = "matching" => Matching
  BY DEF Start
<1>2. /\ run'[p].stage = "inputs" /\ run'[p].began = began /\ run'[p].listed = {}
      /\ UNCHANGED <<disk, made, msp, debris, pins>>
  BY <1>1, CalmFacts DEF New, Start, Output
<1>3. run[p].stage \notin {"write", "open", "mkdir"} \cup Owning
  BY DEF Start, Live, Creating, Staging, Owning
<1>4. Tidy(p)'
  BY <1>2, <1>3 DEF Tidy
<1>5. ASSUME Completing(p)', NEW place \in Places PROVE ~Blocks(place)'
  <2>1. ~Differs
    BY <1>1, <1>2, <1>5 DEF Completing, Matching
  <2>2. place[1] = "org" => place[2] \in Orgs
    BY PlaceFacts
  <2>. QED  BY <1>2, <2>1, <2>2 DEF Differs, Blocks
<1>. QED  BY <1>2, <1>4, <1>5 DEF Completes, Creating, Staging

LEMMA InputsCalm ==
    ASSUME IInv, NEW p \in Procs, Tidy(p), Completes(p), ReadInputs(p)
    PROVE  Tidy(p)' /\ Completes(p)'
<1>0. /\ run[p].stage = "inputs" /\ UNCHANGED <<Output, Bounds>>
      /\ run \in [Procs -> Process] /\ run[p] \in Process
  BY CalmFacts DEF ReadInputs
<1>1. CASE pins = Nothing
  <2>1. ~Completing(p) /\ Finishes(p, "failed")
    BY <1>1 DEF Completing, ReadInputs
  <2>. QED  BY <1>0, <2>1, FinishesCalm DEF Owning
<1>2. CASE pins # Nothing
  <2>1. /\ run'[p].stage = IF run[p].act = "build" THEN "preflight" ELSE "verify"
        /\ run'[p].act = run[p].act /\ run'[p].began = run[p].began /\ run'[p].listed = run[p].listed
    BY <1>0, <1>2 DEF ReadInputs, Process
  <2>2. Tidy(p)'
    BY <1>0, <2>1 DEF Tidy, Output, Owning
  <2>3. Completing(p)' => Completing(p) /\ run'[p].stage = "preflight"
    BY <1>0, <2>1 DEF Completing, Bounds
  <2>4. Completing(p) => \A place \in Places : ~Blocks(place)'
    BY <1>0, SameOutput DEF Completes, Live
  <2>. QED  BY <2>2, <2>3, <2>4 DEF Completes, Creating, Staging
<1>. QED  BY <1>1, <1>2

\* Preflight refuses nothing that matches and nothing that is missing.
LEMMA AcceptsMatching ==
    ASSUME IInv, NEW p \in Procs, Alone(p), Tidy(p), Completes(p), run[p].stage = "preflight", Completing(p)
    PROVE  Accepts(p)
<1> DEFINE at == run[p].at
<1>0. /\ at \in Places /\ TypeOK /\ run[p].want = pins /\ run[p].stage \notin Owning \cup {"write"} \cup Staging
      /\ \A place \in Places : ~Blocks(place)
  BY CalmFacts DEF Live, Owning, Staging, Completes
<1>1. ASSUME at \in Files PROVE disk[at] \in {Nothing, "good"}
  <2>1. disk[at] \in {Nothing, "good", "torn", "foreign"} /\ disk[at] # "torn"
    BY <1>0, <1>1 DEF TypeOK, Tidy
  <2>. QED  BY <1>0, <1>1, <2>1 DEF Blocks
<1>2. ~StrayName
  BY <1>0 DEF Alone, Tidy, StrayName, Staging
<1>3. ASSUME at[1] = "org", at[2] \in run[p].listed PROVE msp[at[2]] = Finished(run[p].want)
  <2>1. at[2] \in made /\ msp[at[2]] # NoMsp
    BY <1>0, <1>3 DEF Tidy
  <2>. QED  BY <1>0, <1>3, <2>1 DEF Blocks
<1>. QED  BY <1>1, <1>2, <1>3 DEF Accepts

LEMMA PreflightCalm ==
    ASSUME IInv, NEW p \in Procs, Alone(p), Tidy(p), Completes(p), Preflight(p)
    PROVE  Tidy(p)' /\ Completes(p)'
<1> DEFINE at == run[p].at
<1>0. /\ run[p].stage = "preflight" /\ UNCHANGED <<Output, Bounds>>
      /\ run \in [Procs -> Process] /\ run[p] \in Process
  BY CalmFacts DEF Preflight
<1>1. CASE ~Accepts(p) /\ Finishes(p, "failed")
  BY <1>0, <1>1, AcceptsMatching, FinishesCalm DEF Owning
<1>2. Completing(p) => \A place \in Places : ~Blocks(place)'
  BY <1>0, SameOutput DEF Completes, Live
<1>3. CASE Walks(p, "build", <<"local", 1>>)
  <2>1. /\ run'[p].stage = "build" /\ run'[p].at = <<"local", 1>>
        /\ run'[p].act = run[p].act /\ run'[p].began = run[p].began
    BY <1>0, <1>3 DEF Walks, Process
  <2>2. Tidy(p)'
    BY <1>0, <2>1 DEF Tidy, Output, Owning
  <2>3. Completing(p)' => Completing(p)
    BY <1>0, <2>1 DEF Completing, Bounds
  <2>4. \A place \in Places : ~(Rank(place) < Rank(run'[p].at))
    BY <2>1, RankFacts
  <2>. QED  BY <1>2, <2>1, <2>2, <2>3, <2>4 DEF Completes, Creating, Staging
<1>4. CASE run' = [run EXCEPT ![p].at = After(at),
                              ![p].listed = IF at[1] = "public" THEN made ELSE run[p].listed]
  <2>1. /\ run'[p].stage = "preflight" /\ run'[p].act = run[p].act /\ run'[p].began = run[p].began
        /\ run'[p].listed \in {made, run[p].listed}
    BY <1>0, <1>4 DEF Process
  <2>2. Tidy(p)'
    BY <1>0, <2>1 DEF Tidy, Output, Owning
  <2>3. Completing(p)' => Completing(p)
    BY <1>0, <2>1 DEF Completing, Bounds
  <2>. QED  BY <1>2, <2>1, <2>2, <2>3 DEF Completes, Creating, Staging
<1>. QED  BY <1>1, <1>3, <1>4 DEF Preflight

\* verify, over complete output, confirms every place.
LEMMA VerifyCalm ==
    ASSUME IInv, NEW p \in Procs, Alone(p), Tidy(p), Completes(p), Verify(p)
    PROVE  Tidy(p)' /\ Completes(p)'
<1> DEFINE at == run[p].at
<1>0. /\ run[p].stage = "verify" /\ UNCHANGED <<Output, Bounds>> /\ at \in Places
      /\ run \in [Procs -> Process] /\ run[p] \in Process /\ Visible /\ made \subseteq Orgs
  BY CalmFacts DEF Verify, TypeOK
<1>1. Completing(p) => (\A place \in Places : Good(place)) /\ (\A place \in Places : ~Blocks(place))
  BY <1>0 DEF Completes, Live
<1>2. Completing(p) => Confirms(p)
  <2>. SUFFICES ASSUME Completing(p) PROVE Confirms(p)
    OBVIOUS
  <2>1. Assembled
    BY <1>1, AssembledPlaces DEF Completing
  <2>2. ~StrayName
    BY <1>0 DEF Alone, Tidy, StrayName, Staging
  <2>3. made = Orgs
    BY <1>0, <2>1, NotEmpty DEF Assembled, Visible
  <2>4. run[p].want = pins
    BY <1>0, CalmFacts DEF Live
  <2>. QED  BY <1>0, <1>1, <2>2, <2>3, <2>4 DEF Confirms, Good
<1>3. CASE (~Confirms(p) /\ Finishes(p, "failed")) \/ Finishes(p, "passed")
  BY <1>0, <1>2, <1>3, FinishesCalm DEF Owning
<1>4. CASE Walks(p, "verify", AfterInVerify(at))
  <2>1. run'[p].stage = "verify" /\ run'[p].act = run[p].act /\ run'[p].began = run[p].began
    BY <1>0, <1>4 DEF Walks, Process
  <2>2. Tidy(p)'
    BY <1>0, <2>1 DEF Tidy, Output, Owning
  <2>3. Completing(p)' => Completing(p)
    BY <1>0, <2>1 DEF Completing, Bounds
  <2>4. Completing(p) => \A place \in Places : Good(place)' /\ ~Blocks(place)'
    BY <1>0, <1>1, SameOutput
  <2>. QED  BY <2>1, <2>2, <2>3, <2>4 DEF Completes, Creating, Staging
<1>. QED  BY <1>3, <1>4 DEF Verify

LEMMA ExistsCalm ==
    ASSUME IInv, NEW p \in Procs, Tidy(p), Completes(p), Exists(p)
    PROVE  Tidy(p)' /\ Completes(p)'
<1> DEFINE at == run[p].at
<1>0. /\ run[p].stage = "build" /\ UNCHANGED <<Output, Bounds>> /\ at \in Places
      /\ run \in [Procs -> Process] /\ run[p] \in Process /\ run[p].want \in Roots
      /\ run[p].stage \notin Owning \cup {"write"}
  BY CalmFacts DEF Exists, LocalOK, Live, Owning
<1>1. Completing(p) => \A place \in Places :
         /\ ~Blocks(place) /\ ~Blocks(place)' /\ Good(place)' = Good(place)
         /\ Rank(place) < Rank(at) => Good(place)
  BY <1>0, SameOutput DEF Completes, Live
<1>2. CASE at[1] # "public" /\ Missing(at) /\ Goes(p, IF at[1] = "org" THEN "mkdir" ELSE "open")
  <2>1. /\ run'[p].stage = IF at[1] = "org" THEN "mkdir" ELSE "open"
        /\ run'[p].at = at /\ run'[p].act = run[p].act /\ run'[p].began = run[p].began
    BY <1>0, <1>2 DEF Goes, Process
  <2>2. at[1] # "org" => disk[at] = Nothing
    BY <1>0, <1>2, PlaceFacts DEF Missing
  <2>3. at[1] = "org" => at[2] \notin made
    BY <1>2 DEF Missing
  <2>4. Tidy(p)'
    BY <1>0, <2>1, <2>2, <2>3 DEF Tidy, Output, Owning
  <2>. QED  BY <1>0, <1>1, <2>1, <2>4, GoesCalm
<1>3. CASE (at[1] = "public" \/ ~Missing(at)) /\ Built(p)
  <2>1. UNCHANGED <<disk, made, msp, debris, Bounds>>
    BY <1>0 DEF Output
  <2>2. \A f \in Files : disk'[f] # "torn"
    BY <1>0, <2>1 DEF Tidy
  <2>3. \A o \in made' : msp'[o] # NoMsp
    BY <1>0, <2>1 DEF Tidy
  <2>4. ASSUME Completing(p) PROVE Good(at)
    <3>1. CASE at[1] = "public"
      BY <1>0, <3>1, PlaceFacts DEF Good
    <3>2. CASE ~Missing(at)
      BY <1>0, <1>1, <2>4, <3>2, GoodOrMissing
    <3>. QED  BY <1>3, <3>1, <3>2
  <2>5. \A place \in Places : Rank(place) <= Rank(at) => place = at \/ Rank(place) < Rank(at)
    BY <1>0, RankFacts
  <2>. QED  BY <1>0, <1>1, <1>3, <2>1, <2>2, <2>3, <2>4, <2>5, BuiltCalm
<1>. QED  BY <1>2, <1>3 DEF Exists

LEMMA OpenCalm ==
    ASSUME IInv, NEW p \in Procs, Tidy(p), Completes(p), Open(p)
    PROVE  Tidy(p)' /\ Completes(p)'
<1> DEFINE at == run[p].at
<1>0. /\ run[p].stage = "open" /\ disk[at] = Nothing /\ TypeOK /\ at \in Files
      /\ run \in [Procs -> Process] /\ run[p] \in Process /\ SharedInv
  BY CalmFacts DEF Open, Tidy, LocalOK
<1>1. /\ disk' = [disk EXCEPT ![at] = "torn"] /\ Goes(p, "write")
      /\ UNCHANGED <<made, msp, debris, Bounds>>
  BY <1>0 DEF Open
<1>2. /\ run'[p].stage = "write" /\ run'[p].at = at
      /\ run'[p].act = run[p].act /\ run'[p].began = run[p].began
  BY <1>0, <1>1 DEF Goes, Process
<1>3. Tidy(p)'
  <2>1. \A f \in Files : disk'[f] = "torn" => f = at
    BY <1>0, <1>1 DEF Tidy, TypeOK
  <2>2. \A o \in made' : msp'[o] # NoMsp
    BY <1>0, <1>1 DEF Tidy, Owning
  <2>. QED  BY <1>1, <1>2, <2>1, <2>2 DEF Tidy
<1>4. ASSUME Completing(p), NEW place \in Places PROVE ~Blocks(place)' /\ (Good(place) => Good(place)')
  <2>1. ~Blocks(place)
    BY <1>0, <1>4 DEF Completes, Live, Creating
  <2>2. ~Blocks(place)'
    BY <1>0, <1>1, <2>1 DEF Blocks, TypeOK, Bounds
  <2>3. Acts(p)
    BY DEF Acts, Step
  <2>. QED  BY <1>0, <2>2, <2>3, PlacesKept
<1>. QED  BY <1>0, <1>1, <1>2, <1>3, <1>4, GoesCalm DEF Creating

LEMMA WriteCalm ==
    ASSUME IInv, NEW p \in Procs, Tidy(p), Completes(p), Write(p)
    PROVE  Tidy(p)' /\ Completes(p)'
<1> DEFINE at == run[p].at
<1>0. /\ run[p].stage = "write" /\ TypeOK /\ at \in Files /\ SharedInv /\ run[p].want \in Roots
      /\ Acts(p) /\ at[1] # "org" /\ at \in Places
  BY CalmFacts, PlaceFacts DEF Write, LocalOK, Live, Creating, Acts, Step
<1>1. /\ disk' = [disk EXCEPT ![at] = "good"] /\ Built(p)
      /\ UNCHANGED <<made, msp, debris, Bounds>>
  BY DEF Write
<1>2. \A f \in Files : disk'[f] # "torn"
  BY <1>0, <1>1 DEF Tidy, TypeOK
<1>3. \A o \in made' : msp'[o] # NoMsp
  BY <1>0, <1>1 DEF Tidy, Owning
<1>4. ASSUME Completing(p), NEW place \in Places
      PROVE  ~Blocks(place)' /\ (Rank(place) <= Rank(at) => Good(place)')
  <2>1. ~Blocks(place) /\ (Rank(place) < Rank(at) => Good(place))
    BY <1>0, <1>4 DEF Completes, Live, Creating
  <2>2. ~Blocks(place)'
    BY <1>0, <1>1, <2>1 DEF Blocks, TypeOK, Bounds
  <2>3. place = at => Good(place)'
    BY <1>0, <1>1 DEF Good, TypeOK
  <2>4. Rank(place) <= Rank(at) => place = at \/ Rank(place) < Rank(at)
    BY <1>0, RankFacts
  <2>. QED  BY <1>0, <2>1, <2>2, <2>3, <2>4, PlacesKept
<1>. QED  BY <1>0, <1>1, <1>2, <1>3, <1>4, BuiltCalm

LEMMA MakeOrgCalm ==
    ASSUME IInv, NEW p \in Procs, Tidy(p), Completes(p), MakeOrg(p)
    PROVE  Tidy(p)' /\ Completes(p)'
<1> DEFINE at == run[p].at
<1>0. /\ run[p].stage = "mkdir" /\ at[2] \notin made /\ at = <<"org", at[2]>> /\ Acts(p)
      /\ run \in [Procs -> Process] /\ run[p] \in Process /\ SharedInv
  BY CalmFacts, PlaceFacts DEF MakeOrg, Tidy, LocalOK, AtOrg, Acts, Step
<1>1. made' = made \cup {at[2]} /\ Goes(p, "temp") /\ UNCHANGED <<disk, msp, debris, Bounds>>
  BY <1>0 DEF MakeOrg
<1>2. /\ run'[p].stage = "temp" /\ run'[p].at = at
      /\ run'[p].act = run[p].act /\ run'[p].began = run[p].began
  BY <1>0, <1>1 DEF Goes, Process
<1>3. Tidy(p)'
  <2>1. \A o \in made' : msp'[o] = NoMsp => o = at[2]
    BY <1>0, <1>1 DEF Tidy, Owning
  <2>2. \A f \in Files : disk'[f] # "torn"
    BY <1>0, <1>1 DEF Tidy
  <2>. QED  BY <1>0, <1>1, <1>2, <2>1, <2>2 DEF Tidy, Owning
<1>4. ASSUME Completing(p), NEW place \in Places PROVE ~Blocks(place)' /\ (Good(place) => Good(place)')
  <2>1. ~Blocks(place)
    BY <1>0, <1>4 DEF Completes, Live, Creating
  <2>. QED  BY <1>0, <1>1, <2>1, PlacesKept DEF Blocks, Bounds
<1>. QED  BY <1>0, <1>1, <1>2, <1>3, <1>4, GoesCalm DEF Creating

LEMMA StagesCalm ==
    ASSUME IInv, NEW p \in Procs, Tidy(p), Completes(p), MakeTemp(p) \/ StageFile(p)
    PROVE  Tidy(p)' /\ Completes(p)'
<1>0. /\ run[p].stage \in {"temp", "stage"} /\ UNCHANGED <<Output, Bounds>>
      /\ run \in [Procs -> Process] /\ run[p] \in Process
  BY CalmFacts DEF MakeTemp, StageFile
<1>1. /\ run'[p].stage \in {"stage", "rename"} /\ run'[p].at = run[p].at
      /\ run'[p].act = run[p].act /\ run'[p].began = run[p].began
  BY <1>0 DEF MakeTemp, StageFile, Process
<1>2. Tidy(p)'
  BY <1>0, <1>1 DEF Tidy, Output, Owning
<1>3. Completing(p) => \A place \in Places : ~Blocks(place)' /\ (Good(place) => Good(place)')
  BY <1>0, SameOutput DEF Completes, Live, Creating, Staging
<1>. QED  BY <1>0, <1>1, <1>2, <1>3, GoesCalm DEF Creating, Staging

LEMMA RenameCalm ==
    ASSUME IInv, NEW p \in Procs, Tidy(p), Completes(p), Rename(p)
    PROVE  Tidy(p)' /\ Completes(p)'
<1> DEFINE at == run[p].at
<1>0. /\ run[p].stage = "rename" /\ at = <<"org", at[2]>> /\ at[2] \in Orgs /\ Acts(p)
      /\ run[p].staged = NFiles /\ run \in [Procs -> Process] /\ run[p] \in Process /\ SharedInv
      /\ at \notin Files /\ at \in Places /\ msp \in [Orgs -> (Roots \cup {Nothing}) \X (0..NFiles)]
      /\ made \subseteq Orgs
  BY CalmFacts, PlaceFacts DEF Rename, LocalOK, AtOrg, Staging, Acts, Step, TypeOK
<1>1. /\ msp' = [msp EXCEPT ![at[2]] = Finished(run[p].want)] /\ Goes(p, "clean")
      /\ UNCHANGED <<disk, made, debris, Bounds>>
  BY <1>0 DEF Rename, Finished
<1>2. /\ run'[p].stage = "clean" /\ run'[p].at = at
      /\ run'[p].act = run[p].act /\ run'[p].began = run[p].began
  BY <1>0, <1>1 DEF Goes, Process
<1>3. Tidy(p)'
  <2>1. \A o \in made : o # at[2] => msp[o] # NoMsp
    BY <1>0 DEF Tidy
  <2>2. \A o \in made' : msp'[o] # NoMsp
    BY <1>0, <1>1, <2>1, NotEmpty
  <2>3. \A f \in Files : disk'[f] # "torn"
    BY <1>0, <1>1 DEF Tidy
  <2>. QED  BY <1>1, <1>2, <2>2, <2>3 DEF Tidy
<1>4. Completing(p)' => Completing(p)
  BY <1>1, <1>2 DEF Completing, Bounds
<1>5. ASSUME Completing(p)
      PROVE  /\ Good(at)'
             /\ \A place \in Places : ~Blocks(place)' /\ (Rank(place) < Rank(at) => Good(place)')
  <2>1. run[p].want = pins /\ pins' = pins
    BY <1>0, <1>1, <1>5, CalmFacts DEF Live, Creating, Staging, Bounds
  <2>2. \A place \in Places : ~Blocks(place) /\ (Rank(place) < Rank(at) => Good(place))
    BY <1>0, <1>5 DEF Completes, Live, Creating, Staging
  <2>3. Good(at)'
    BY <1>0, <1>1, <1>2, <2>1 DEF Good
  <2>4. ASSUME NEW place \in Places PROVE ~Blocks(place)'
    <3>1. ~Blocks(place) /\ (place[1] = "org" => place[2] \in Orgs)
      BY <2>2, PlaceFacts
    <3>. QED  BY <1>0, <1>1, <2>1, <3>1 DEF Blocks
  <2>. QED  BY <1>0, <2>2, <2>3, <2>4, PlacesKept
<1>. QED  BY <1>2, <1>3, <1>4, <1>5 DEF Completes, Creating, Staging

LEMMA RemoveTempCalm ==
    ASSUME IInv, NEW p \in Procs, Tidy(p), Completes(p), RemoveTemp(p)
    PROVE  Tidy(p)' /\ Completes(p)'
<1> DEFINE at == run[p].at
<1>0. /\ run[p].stage = "clean" /\ UNCHANGED <<Output, Bounds>> /\ Built(p)
      /\ at \in Places /\ run[p].want \in Roots /\ run[p].stage \notin Owning \cup {"write"}
  BY CalmFacts DEF RemoveTemp, LocalOK, Live, Creating, Staging, Owning
<1>1. UNCHANGED <<disk, made, msp, debris, Bounds>>
  BY <1>0 DEF Output
<1>2. (\A f \in Files : disk'[f] # "torn") /\ (\A o \in made' : msp'[o] # NoMsp)
  BY <1>0, <1>1 DEF Tidy
<1>3. Completing(p) => Good(at) /\ \A place \in Places :
         /\ ~Blocks(place)' /\ Good(place)' = Good(place)
         /\ Rank(place) < Rank(at) => Good(place)
  BY <1>0, SameOutput DEF Completes, Live, Creating, Staging
<1>4. \A place \in Places : Rank(place) <= Rank(at) => place = at \/ Rank(place) < Rank(at)
  BY <1>0, RankFacts
<1>. QED  BY <1>0, <1>1, <1>2, <1>3, <1>4, BuiltCalm

\* The operator leaves no run with anything to complete, and nothing half made.
LEMMA EditCalm ==
    ASSUME IInv, NEW p \in Procs, Tidy(p), EditOutput \/ ChangePins
    PROVE  Tidy(p)' /\ Completes(p)'
<1>1. ~Completing(p)'
  BY DEF EditOutput, ChangePins, Edit, Completing
<1>2. CASE ChangePins
  BY <1>1, <1>2 DEF ChangePins, Tidy, Output, Completes
<1>3. CASE EditOutput
  <2>0. /\ run[p].stage \notin {"inputs", "preflight", "write", "open", "mkdir"} \cup Owning
        /\ run' = run /\ TypeOK
    BY <1>3, CalmFacts DEF EditOutput, Live, Creating, Staging, Owning
  <2>1. \A f \in Files : disk'[f] # "torn"
    BY <1>3, <2>0, RootsAssumption DEF EditOutput, Tidy, TypeOK
  <2>2. \A o \in made' : msp'[o] # NoMsp
    BY <1>3, <2>0, NotEmpty DEF EditOutput, Tidy, TypeOK
  <2>3. ~debris'
    BY <1>3 DEF EditOutput, Tidy
  <2>. QED  BY <1>1, <2>0, <2>1, <2>2, <2>3 DEF Tidy, Completes
<1>. QED  BY <1>2, <1>3

\* Nobody becomes idle again.
LEMMA NeverIdle ==
    ASSUME LocalInv, NEW p \in Procs, Acts(p)
    PROVE  run'[p].stage # "idle"
<1>0. run \in [Procs -> Process] /\ run[p] \in Process /\ LocalOK(run[p])
  BY DEF LocalInv, TypeOK
<1>1. ASSUME NEW act \in {"build", "verify"}, Start(p, act)
      PROVE  run'[p].stage # "idle"
  BY <1>0, <1>1 DEF Start, New
<1>2. CASE Built(p) /\ run[p].want \in Roots
  BY <1>0, <1>2, BuiltShape
<1>3. CASE ReadInputs(p) \/ Preflight(p) \/ Verify(p)
  BY <1>0, <1>3 DEF ReadInputs, Preflight, Verify, Finishes, Walks, New, Process
<1>4. CASE Exists(p)
  <2>1. Built(p) \/ Goes(p, "mkdir") \/ Goes(p, "open")
    BY <1>4 DEF Exists
  <2>2. run[p].want \in Roots
    BY <1>0, <1>4 DEF Exists, LocalOK, Live
  <2>. QED  BY <1>0, <1>2, <2>1, <2>2 DEF Goes, Process
<1>5. CASE Write(p) \/ RemoveTemp(p)
  BY <1>0, <1>2, <1>5 DEF Write, RemoveTemp, LocalOK, Live, Creating, Staging
<1>6. CASE Open(p) \/ MakeOrg(p) \/ MakeTemp(p) \/ StageFile(p) \/ Rename(p)
  BY <1>0, <1>6 DEF Open, MakeOrg, MakeTemp, StageFile, Rename, Goes, Finishes, New, Process
<1>7. CASE CallFails(p) \/ Kill(p)
  BY <1>0, <1>7 DEF CallFails, Kill, Finishes, New
<1>. QED  BY <1>1, <1>3, <1>4, <1>5, <1>6, <1>7 DEF Acts, Step

\* A run that is alone after a step was so before, and nobody else took the step, nor a fault.
LEMMA StaysAlone ==
    ASSUME IInv, NEW p \in Procs, Alone(p)', NEW q \in Procs, Acts(q)
    PROVE  q = p /\ Alone(p) /\ ~Kill(p) /\ ~CallFails(p)
<1>1. LocalInv /\ faults \in Nat
  BY CalmFacts DEF SharedInv, TypeOK
<1>2. q = p
  BY <1>1, NeverIdle DEF Alone
<1>3. \A other \in Procs : other # p => run'[other] = run[other]
  BY <1>1, <1>2, ActsOthers
<1>4. ~Kill(p) /\ ~CallFails(p)
  BY <1>1 DEF Alone, Kill, CallFails, Fault
<1>5. faults' = faults
  BY <1>2, <1>4 DEF Acts, Step, Start, ReadInputs, Preflight, Exists, Open, Write, MakeOrg,
     MakeTemp, StageFile, Rename, RemoveTemp, Verify, Bounds
<1>. QED  BY <1>2, <1>3, <1>4, <1>5 DEF Alone

LEMMA StepCalm == IInv /\ CalmInv /\ [Next]_vars => CalmInv'
<1>. SUFFICES ASSUME IInv, CalmInv, [Next]_vars, NEW p \in Procs, Alone(p)'
              PROVE  Tidy(p)' /\ Completes(p)'
  BY DEF CalmInv
<1>1. CASE UNCHANGED vars
  <2>1. UNCHANGED <<Output, Bounds, run>>
    BY <1>1 DEF vars, Output, Bounds
  <2>2. Completing(p)' = Completing(p)
    BY <2>1 DEF Completing, Bounds
  <2>3. \A place : Good(place)' = Good(place) /\ Blocks(place)' = Blocks(place)
    BY <2>1, SameOutput
  <2>4. Tidy(p) /\ Completes(p)
    BY <2>1 DEF CalmInv, Alone, Bounds
  <2>. QED  BY <2>1, <2>2, <2>3, <2>4 DEF Tidy, Completes, Output
<1>2. CASE EditOutput \/ ChangePins
  <2>1. Alone(p)
    BY <1>2 DEF EditOutput, ChangePins, Alone
  <2>. QED  BY <1>2, <2>1, EditCalm DEF CalmInv
<1>3. ASSUME NEW q \in Procs, Acts(q) PROVE Tidy(p)' /\ Completes(p)'
  <2>1. q = p /\ Alone(p) /\ ~Kill(p) /\ ~CallFails(p)
    BY <1>3, StaysAlone
  <2>2. Tidy(p) /\ Completes(p)
    BY <2>1 DEF CalmInv
  <2>3. CASE \E act \in {"build", "verify"} : Start(p, act)
    BY <2>2, <2>3, StartCalm
  <2>4. CASE Step(p)
    BY <2>1, <2>2, <2>4, InputsCalm, PreflightCalm, ExistsCalm, OpenCalm, WriteCalm, MakeOrgCalm,
       StagesCalm, RenameCalm, RemoveTempCalm, VerifyCalm DEF Step
  <2>. QED  BY <1>3, <2>1, <2>3, <2>4 DEF Acts
<1>. QED  BY <1>1, <1>2, <1>3 DEF Next, Acts

\* What only a killed run, a failed call or a second run breaks: a build over matching and
\* missing output creates what is missing and does not fail.
THEOREM BuildCompletes == Spec => []CompletesAlone
<1>1. Init => CalmInv
  <2>. SUFFICES ASSUME Init, NEW p \in Procs PROVE Tidy(p) /\ Completes(p)
    BY DEF CalmInv
  <2>1. run[p].stage = "idle" /\ run[p].began = "other"
    BY DEF Init, New
  <2>2. \A f \in Files : disk[f] # "torn"
    BY RootsAssumption DEF Init
  <2>. QED  BY <2>1, <2>2 DEF Init, Tidy, Completes, Completing
<1>2. CalmInv => CompletesAlone
  BY DEF CalmInv, Completes, Completing, CompletesAlone
<1>3. IInv /\ CalmInv /\ [Next]_vars => CalmInv'
  BY StepCalm
<1>. QED  BY <1>1, <1>2, <1>3, Invariance, PTL DEF Spec

=============================================================================
