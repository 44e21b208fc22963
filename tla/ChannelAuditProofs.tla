------------------------- MODULE ChannelAuditProofs -------------------------
(***************************************************************************)
(* Proofs about ChannelAudit for any number of nodes, rules, groups,       *)
(* versions, updates and edits.  What a rule permits is never computed:    *)
(* the proofs only use that the rule reviewed for an area permits exactly  *)
(* what the threshold of that area does.                                   *)
(***************************************************************************)
EXTENDS ChannelAudit, TLAPS

\* A block is where its line and sequence say, on a channel c.
On(c, b) == b \in Block /\ b.seq + 1 \in 1..Len(c[b.line]) /\ c[b.line][b.seq + 1] = b

\* A node that was joined to l and has committed h blocks has it.
HasIt(c, l, h, b) == On(c, b) /\ l = b.line /\ h > b.seq

\* Every area is changed by its own Admins, and they are the reviewed ones.
Governed(b) == Content(b).open = {} /\ \A area \in Areas : Content(b).admins[area] \in ReviewedRules[area]

Blank(b) == b \in {Nothing, Torn}

\* The blocks follow each other, and a governed one is followed by one that those signed
\* whom the review asks for.
ChainInv ==
    /\ chain \in [Lines -> Seq(Block)]
    /\ \A l \in Lines : /\ Len(chain[l]) \in Nat \ {0}
                        /\ \A i \in 1..Len(chain[l]) : chain[l][i].line = l /\ chain[l][i].seq = i - 1
                        /\ \A i \in 1..Len(chain[l]) - 1 :
                              Governed(chain[l][i]) => chain[l][i + 1].governed
    /\ line \in [Nodes -> Lines] /\ height \in [Nodes -> Nat]
    /\ \A n \in Nodes : height[n] \in 1..Len(chain[line[n]])

\* What is on disk is blank or was on a chain, and what was fetched is its node's.
FilesInv ==
    /\ inputs \in Inputs
    /\ \A b \in {initial, approved} : Blank(b) \/ On(chain, b)
    /\ pins.initial \in Block /\ pins.approved \in Block
    /\ pins = [initial |-> pins.initial, approved |-> pins.approved]
    /\ DOMAIN fetched = Nodes
    /\ \A n \in Nodes : Blank(fetched[n]) \/ HasIt(chain, line[n], height[n], fetched[n])
    /\ edits \in 0..MaxEdits

\* What the running audit has made sure of.
RunInv ==
    /\ run \in [stage : Live \cup {"idle"}, first : {run.first}, base : {run.base}, at : Nodes]
    /\ Maybe(run.first) /\ Maybe(run.base)
    /\ run.stage \in Live \ {"compare"} => run.at = 1
    /\ run.stage \in {"audit", "compare"} => ~Blank(run.base) /\ On(chain, run.base)
    /\ run.stage = "compare" =>
          /\ Governed(run.base) /\ Content(run.base).certs = inputs.certs
          /\ \A n \in Nodes : n < run.at => HasIt(chain, line[n], height[n], run.base)

\* What a standing PASS means.
VerdictInv ==
    /\ DOMAIN verdict = Kinds /\ \A kind \in Kinds : Maybe(verdict[kind])
    /\ \A kind \in {"initial", "current"} :
          verdict[kind] # Nothing => On(chain, verdict[kind]) /\ Governed(verdict[kind])
    /\ verdict["current"] # Nothing =>
          /\ Content(verdict["current"]).certs = inputs.certs
          /\ \A n \in Nodes : HasIt(chain, line[n], height[n], verdict["current"])
    /\ verdict["nodes"] # Nothing => inputs.rendered = inputs.certs

IInv == ChainInv /\ FilesInv /\ RunInv /\ VerdictInv

-----------------------------------------------------------------------------
(* The channel only grows.                                                 *)

\* Every block of a chain is where its line and sequence say.
LEMMA BlocksOn == ASSUME ChainInv, NEW l \in Lines, NEW i \in 1..Len(chain[l])
                  PROVE  On(chain, chain[l][i]) /\ chain[l][i].line = l /\ chain[l][i].seq = i - 1
<1>1. chain[l] \in Seq(Block) /\ Len(chain[l]) \in Nat
  BY DEF ChainInv
<1>2. chain[l][i] \in Block /\ chain[l][i].line = l /\ chain[l][i].seq = i - 1
  BY <1>1 DEF ChainInv
<1>3. chain[l][i].seq + 1 = i
  BY <1>1, <1>2
<1>. QED  BY <1>2, <1>3 DEF On

LEMMA LatestOn == ASSUME ChainInv PROVE On(chain, Latest) /\ On(chain, chain["stray"][1])
<1>1. "main" \in Lines /\ "stray" \in Lines
  BY DEF Lines
<1>2. Len(chain["main"]) \in 1..Len(chain["main"]) /\ 1 \in 1..Len(chain["stray"])
  BY <1>1 DEF ChainInv
<1>. QED  BY <1>1, <1>2, BlocksOn DEF Latest

Grows ==
    /\ \A b : On(chain, b) => On(chain', b)
    /\ \A n \in Nodes : line'[n] = line[n] /\ height[n] \in Nat /\ height'[n] \in Nat
                        /\ height'[n] >= height[n]

LEMMA HadStays == ASSUME Grows, NEW n \in Nodes, NEW b, HasIt(chain, line[n], height[n], b)
                  PROVE  HasIt(chain', line'[n], height'[n], b)
<1>1. b.seq \in Nat /\ On(chain', b)
  BY DEF HasIt, On, Block, Grows
<1>. QED  BY <1>1 DEF HasIt, Grows

LEMMA ChannelStays == ASSUME ChainInv, UNCHANGED Channel PROVE Grows /\ ChainInv'
<1>1. chain' = chain /\ line' = line /\ height' = height
  BY DEF Channel
<1>2. \A b : On(chain, b) => On(chain', b)
  BY <1>1
<1>3. Grows
  BY <1>1, <1>2 DEF Grows, ChainInv
<1>. QED  BY <1>1, <1>3 DEF ChainInv

\* Signers that a governed config authorises are those whom the review asks for.
LEMMA AuthorisedGoverns == ASSUME NEW b, Governed(b), NEW new, NEW signers \in SUBSET Identities,
                                  Authorised(Content(b), new, signers)
                           PROVE  Governs(Content(b), new, signers)
<1>. SUFFICES ASSUME NEW area \in Areas, Changes(Content(b), new, area) PROVE Threshold(area, signers)
  BY DEF Governs
<1>1. signers \in Signings[Content(b).admins[area]]
  BY DEF Governed, Authorised
<1>2. Content(b).admins[area] \in Rules /\ AdminsAsReviewed(Content(b).admins[area], area)
  BY DEF Governed, ReviewedRules
<1>. QED  BY <1>1, <1>2, Zenon DEF Signings, AdminsAsReviewed

\* An update whose signers the latest group authorises.
LEMMA UpdateGrows == ASSUME ChainInv, Update PROVE Grows /\ ChainInv'
<1>. DEFINE m == chain["main"]
<1>g. PICK g \in Groups \ {Latest.group} : \E governed \in Outcomes[Latest.group][g] :
         chain' = [chain EXCEPT !["main"] = Append(@,
            [line |-> "main", seq |-> Latest.seq + 1, group |-> g, governed |-> governed])]
  BY DEF Update
<1>1. PICK governed \in Outcomes[Latest.group][g] :
         chain' = [chain EXCEPT !["main"] = Append(@,
            [line |-> "main", seq |-> Latest.seq + 1, group |-> g, governed |-> governed])]
  BY <1>g
<1>. DEFINE b == [line |-> "main", seq |-> Latest.seq + 1, group |-> g, governed |-> governed]
            w == Append(m, b)
<1>2. m \in Seq(Block) /\ Len(m) \in Nat \ {0} /\ Latest = m[Len(m)] /\ Latest.seq = Len(m) - 1
  BY DEF ChainInv, Latest, Lines
<1>s. PICK signers \in SUBSET Identities :
         /\ Authorised(Content(Latest), Config[g], signers)
         /\ governed = Governs(Content(Latest), Config[g], signers)
  <2>1. Latest.group \in Groups
    BY LatestOn DEF On, Block
  <2>. QED  BY <2>1, Zenon DEF Outcomes, Content
<1>3. b \in Block /\ b.line = "main" /\ b.seq = Len(m) /\ b.governed = governed
  <2>1. governed \in BOOLEAN
    BY <1>s DEF Governs
  <2>. QED  BY <1>2, <2>1 DEF Block, Lines
<1>4. Governed(Latest) => governed
  BY <1>s, AuthorisedGoverns
<1>5. /\ w \in Seq(Block) /\ Len(w) = Len(m) + 1
      /\ \A i \in 1..Len(m) : w[i] = m[i]
      /\ w[Len(m) + 1] = b
  BY <1>2, <1>3
<1>. HIDE DEF b
<1>6. /\ chain' \in [Lines -> Seq(Block)]
      /\ chain'["main"] = w /\ chain'["stray"] = chain["stray"]
      /\ line' = line /\ height' = height
  BY <1>1, <1>5 DEF ChainInv, Lines, Update, b
<1>. HIDE DEF w
<1>7. ASSUME NEW l \in Lines
      PROVE  /\ Len(chain[l]) \in Nat \ {0} /\ Len(chain'[l]) \in Nat \ {0}
             /\ Len(chain'[l]) >= Len(chain[l])
             /\ \A i \in 1..Len(chain[l]) : chain'[l][i] = chain[l][i]
  <2>1. CASE l = "main"
    BY <1>2, <1>5, <1>6, <2>1
  <2>2. CASE l = "stray"
    BY <1>6, <2>2 DEF ChainInv
  <2>. QED  BY <2>1, <2>2 DEF Lines
<1>8. Grows
  <2>1. ASSUME NEW c, On(chain, c) PROVE On(chain', c)
    <3>1. c.line \in Lines /\ c.seq + 1 \in 1..Len(chain[c.line])
      BY <2>1 DEF On, Block
    <3>2. c.seq + 1 \in 1..Len(chain'[c.line]) /\ chain'[c.line][c.seq + 1] = chain[c.line][c.seq + 1]
      BY <1>7, <3>1
    <3>. QED  BY <2>1, <3>2 DEF On
  <2>. QED  BY <2>1, <1>6 DEF Grows, ChainInv
<1>9. ASSUME NEW l \in Lines, NEW i \in 1..Len(chain'[l])
      PROVE  chain'[l][i].line = l /\ chain'[l][i].seq = i - 1
  <2>1. CASE l = "main" /\ i = Len(m) + 1
    BY <1>2, <1>3, <1>5, <1>6, <2>1
  <2>2. CASE l = "main" /\ i # Len(m) + 1
    <3>1. i \in 1..Len(m) /\ w[i] = m[i]
      BY <1>2, <1>5, <1>6, <2>2
    <3>. QED  BY <1>6, <2>2, <3>1 DEF ChainInv
  <2>3. CASE l = "stray"
    BY <1>6, <2>3 DEF ChainInv
  <2>. QED  BY <2>1, <2>2, <2>3 DEF Lines
<1>10. ASSUME NEW l \in Lines, NEW i \in 1..Len(chain'[l]) - 1, Governed(chain'[l][i])
       PROVE  chain'[l][i + 1].governed
  <2>1. CASE l = "main" /\ i = Len(m)
    BY <1>2, <1>3, <1>4, <1>5, <1>6, <1>10, <2>1
  <2>2. CASE l = "main" /\ i # Len(m)
    <3>1. i \in 1..Len(m) - 1 /\ i \in 1..Len(m) /\ i + 1 \in 1..Len(m)
      BY <1>2, <1>5, <1>6, <2>2
    <3>2. w[i] = m[i] /\ w[i + 1] = m[i + 1]
      BY <1>5, <3>1
    <3>. QED  BY <1>6, <1>10, <2>2, <3>1, <3>2 DEF ChainInv
  <2>3. CASE l = "stray"
    BY <1>6, <1>10, <2>3 DEF ChainInv
  <2>. QED  BY <2>1, <2>2, <2>3 DEF Lines
<1>11. \A n \in Nodes : height[n] \in 1..Len(chain'[line[n]])
  <2>. SUFFICES ASSUME NEW n \in Nodes PROVE height[n] \in 1..Len(chain'[line[n]])
    OBVIOUS
  <2>1. line[n] \in Lines /\ height[n] \in 1..Len(chain[line[n]])
    BY DEF ChainInv
  <2>. QED  BY <1>7, <2>1
<1>12. ChainInv'
  BY <1>6, <1>7, <1>9, <1>10, <1>11 DEF ChainInv
<1>. QED  BY <1>8, <1>12

LEMMA CommitGrows == ASSUME ChainInv, NEW n \in Nodes, Commit(n) PROVE Grows /\ ChainInv'
<1>1. /\ chain' = chain /\ line' = line /\ height' \in [Nodes -> Nat]
      /\ height'[n] = height[n] + 1 /\ \A k \in Nodes \ {n} : height'[k] = height[k]
  BY DEF Commit, ChainInv
<1>2. ASSUME NEW k \in Nodes
      PROVE  /\ height[k] \in Nat /\ height'[k] \in Nat /\ height'[k] >= height[k]
             /\ height'[k] \in 1..Len(chain[line[k]])
  <2>1. height[k] \in 1..Len(chain[line[k]]) /\ Len(chain[line[k]]) \in Nat
    BY DEF ChainInv
  <2>. QED  BY <1>1, <2>1 DEF Commit
<1>3. \A b : On(chain, b) => On(chain', b)
  BY <1>1
<1>. QED  BY <1>1, <1>2, <1>3 DEF Grows, ChainInv

\* What is true of files, audit and verdicts stays true while the channel grows.
LEMMA GrowingKeeps == ASSUME IInv, Grows, ChainInv', UNCHANGED <<Files, run, verdict, edits>> PROVE IInv'
<1>1. /\ \A b : On(chain, b) => On(chain', b)
      /\ \A n \in Nodes : \A b : HasIt(chain, line[n], height[n], b) => HasIt(chain', line'[n], height'[n], b)
  BY HadStays DEF Grows
<1>2. FilesInv'
  BY <1>1 DEF Files, IInv, FilesInv
<1>3. RunInv'
  BY <1>1 DEF Files, IInv, RunInv
<1>4. VerdictInv'
  BY <1>1 DEF Files, IInv, VerdictInv
<1>. QED  BY <1>2, <1>3, <1>4 DEF IInv

-----------------------------------------------------------------------------
LEMMA InitInvariant == Init => IInv
<1>. SUFFICES ASSUME Init PROVE IInv
  OBVIOUS
<1>1. PICK g \in Groups : /\ chain = [l \in Lines |-> <<Genesis(l, g)>>]
                          /\ initial = Genesis("main", g) /\ approved = Genesis("main", g)
                          /\ pins = [initial |-> Genesis("main", g), approved |-> Genesis("main", g)]
  BY DEF Init
<1>2. \A l \in Lines : /\ Genesis(l, g) \in Block /\ Genesis(l, g).line = l /\ Genesis(l, g).seq = 0
                       /\ Genesis(l, g).group = g
  BY DEF Genesis, Block
<1>3. \A l \in Lines : /\ chain[l] \in Seq(Block) /\ Len(chain[l]) = 1 /\ chain[l][1] = Genesis(l, g)
  BY <1>1, <1>2
<1>4. ChainInv
  BY <1>1, <1>2, <1>3 DEF Init, ChainInv
<1>5. On(chain, Genesis("main", g))
  BY <1>2, <1>3 DEF On, Lines
<1>6. FilesInv
  <2>1. Config[g].roots \in [Identities -> Versions] /\ Config[g].certs \in Versions
    BY AuditAssumption DEF Group
  <2>2. inputs \in Inputs
    BY <1>1, <1>2, <2>1 DEF Init, Inputs, Lines, Content
  <2>3. edits \in 0..MaxEdits /\ fetched = [n \in Nodes |-> Nothing]
    BY AuditAssumption DEF Init
  <2>. QED  BY <1>1, <1>2, <1>5, <2>2, <2>3 DEF FilesInv, Blank, Lines
<1>7. RunInv
  BY AuditAssumption DEF Init, Idle, RunInv, Live, Nodes, Maybe
<1>8. VerdictInv
  BY DEF Init, VerdictInv, Maybe, Kinds
<1>. QED  BY <1>4, <1>6, <1>7, <1>8 DEF IInv

LEMMA FetchKeeps == ASSUME IInv, NEW n \in Nodes, Fetch(n) PROVE IInv'
<1>. DEFINE b == chain[line[n]][height[n]]
<1>1. HasIt(chain, line[n], height[n], b)
  <2>1. line[n] \in Lines /\ height[n] \in 1..Len(chain[line[n]])
    BY DEF IInv, ChainInv
  <2>2. On(chain, b) /\ b.line = line[n] /\ b.seq = height[n] - 1
    BY <2>1, BlocksOn DEF IInv
  <2>. QED  BY <2>1, <2>2 DEF HasIt
<1>2. FilesInv'
  BY <1>1 DEF Fetch, Channel, IInv, FilesInv
<1>3. ChainInv' /\ RunInv' /\ VerdictInv'
  BY DEF Fetch, Channel, IInv, ChainInv, RunInv, VerdictInv
<1>. QED  BY <1>2, <1>3 DEF IInv

LEMMA CheckpointKeeps == ASSUME IInv, NewCheckpoint PROVE IInv'
<1>1. FilesInv'
  BY LatestOn DEF NewCheckpoint, Channel, IInv, FilesInv, Blank, On
<1>2. ChainInv' /\ RunInv'
  BY DEF NewCheckpoint, Channel, IInv, ChainInv, RunInv, Live
<1>3. VerdictInv'
  BY DEF NewCheckpoint, Channel, IInv, VerdictInv, Kinds, Maybe
<1>. QED  BY <1>1, <1>2, <1>3 DEF IInv

LEMMA ReissueKeeps == ASSUME IInv, Reissue PROVE IInv'
<1>1. inputs' \in Inputs
  BY DEF Reissue, IInv, FilesInv, Inputs
<1>2. /\ edits < MaxEdits /\ edits' = edits + 1 /\ run.stage \notin Live
      /\ verdict' = [verdict EXCEPT !["current"] = Nothing, !["nodes"] = Nothing]
      /\ UNCHANGED <<chain, line, height, initial, approved, pins, fetched, run>>
  BY DEF Reissue, Edit, Channel
<1>3. FilesInv'
  <2>1. edits' \in 0..MaxEdits
    BY <1>2, AuditAssumption DEF IInv, FilesInv
  <2>. QED  BY <1>1, <1>2, <2>1 DEF IInv, FilesInv
<1>4. ChainInv' /\ RunInv'
  BY <1>2 DEF IInv, ChainInv, RunInv, Live
<1>5. VerdictInv'
  BY <1>2 DEF IInv, VerdictInv, Kinds, Maybe
<1>. QED  BY <1>3, <1>4, <1>5 DEF IInv

LEMMA MisplaceKeeps == ASSUME IInv, Misplace PROVE IInv'
<1>1. FilesInv'
  <2>1. /\ edits' \in 0..MaxEdits /\ inputs' = inputs /\ pins' = pins
        /\ chain' = chain /\ line' = line /\ height' = height
    BY AuditAssumption DEF Misplace, Edit, Channel, IInv, FilesInv
  <2>2. \A b \in {initial', approved'} : b \in {initial, approved, Torn, chain["stray"][1], Latest}
    BY DEF Misplace
  <2>3. \A b \in {initial', approved'} : Blank(b) \/ On(chain, b)
    BY <2>2, LatestOn DEF IInv, FilesInv, Blank
  <2>4. /\ DOMAIN fetched' = Nodes
        /\ \A n \in Nodes : Blank(fetched'[n]) \/ fetched'[n] = fetched[n]
    BY DEF Misplace, IInv, FilesInv, Blank
  <2>. QED  BY <2>1, <2>3, <2>4 DEF IInv, FilesInv
<1>2. ChainInv' /\ RunInv' /\ VerdictInv'
  BY DEF Misplace, Edit, Channel, IInv, ChainInv, RunInv, VerdictInv
<1>. QED  BY <1>1, <1>2 DEF IInv

LEMMA AuditedIsGoverned == ASSUME NEW b, NEW timeouts, AuditGroup(Content(b), timeouts)
                           PROVE  Governed(b) /\ Content(b).certs = inputs.certs
<1>1. CheckOrganizations(Content(b)) /\ CheckOrderer(Content(b)) /\ CheckPolicies(Content(b))
  BY DEF AuditGroup
<1>. QED  BY <1>1 DEF CheckOrganizations, CheckOrderer, CheckPolicies, Governed

\* The two audits of block 0.
LEMMA AtOnceKeeps == ASSUME IInv, AuditInitial \/ CompareNodeConfigs PROVE IInv'
<1>1. On(chain, initial) /\ Maybe(initial)
  BY DEF AuditInitial, CompareNodeConfigs, IsGenesis, IInv, FilesInv, Blank, On, Maybe
<1>2. ChainInv' /\ FilesInv' /\ RunInv'
  BY DEF AuditInitial, CompareNodeConfigs, Channel, Files, IInv, ChainInv, FilesInv, RunInv
<1>3. CASE AuditInitial
  <2>1. Governed(initial)
    BY <1>3, AuditedIsGoverned DEF AuditInitial
  <2>. QED  BY <1>1, <1>2, <1>3, <2>1 DEF AuditInitial, Pass, Channel, Files, IInv, VerdictInv, Kinds
<1>4. CASE CompareNodeConfigs
  BY <1>1, <1>2, <1>4 DEF CompareNodeConfigs, Pass, Channel, Files, IInv, VerdictInv, Kinds
<1>. QED  BY <1>3, <1>4

\* A stage of the audit of the current config changes nothing but the audit and its verdict.
LEMMA Elsewhere == ASSUME IInv, UNCHANGED <<Channel, Files, edits>> PROVE ChainInv' /\ FilesInv'
BY DEF Channel, Files, IInv, ChainInv, FilesInv

LEMMA StageKeeps == ASSUME IInv, UNCHANGED <<Channel, Files, edits, verdict>>, RunInv' PROVE IInv'
BY Elsewhere DEF Channel, Files, IInv, VerdictInv

LEMMA IdleKeeps == ASSUME IInv, UNCHANGED <<Channel, Files, edits, verdict>>,
                          run' \in {Idle, [Idle EXCEPT !.stage = "pinApproved"]}
                   PROVE  IInv'
<1>1. RunInv'
  BY AuditAssumption DEF Idle, RunInv, Live, Nodes, Maybe
<1>. QED  BY <1>1, StageKeeps

LEMMA LoadingKeeps == ASSUME IInv, PinApproved \/ PinInitial \/ LoadInitial \/ LoadApproved PROVE IInv'
<1>1. UNCHANGED <<Channel, Files, edits, verdict>>
  BY DEF PinApproved, PinInitial, LoadInitial, LoadApproved, Requires, At, IInv, RunInv
<1>2. CASE run' = Idle
  BY <1>1, <1>2, IdleKeeps
<1>3. run \in [stage : Live \cup {"idle"}, first : {run.first}, base : {run.base}, at : Nodes]
      /\ Maybe(run.first) /\ Maybe(run.base) /\ run.at = 1
  BY DEF PinApproved, PinInitial, LoadInitial, LoadApproved, Requires, IInv, RunInv, Live
<1>4. CASE run' \in {At("pinInitial"), At("loadInitial")}
  <2>1. RunInv'
    BY <1>3, <1>4 DEF At, RunInv, Live
  <2>. QED  BY <1>1, <2>1, StageKeeps
<1>5. CASE LoadInitial /\ run' = [At("loadApproved") EXCEPT !.first = initial]
  <2>1. Maybe(initial)
    BY <1>5 DEF IInv, FilesInv, Blank, On, Maybe
  <2>2. RunInv'
    BY <1>3, <1>5, <2>1 DEF At, RunInv, Live
  <2>. QED  BY <1>1, <2>2, StageKeeps
<1>6. CASE /\ LoadApproved /\ approved \notin {Nothing, Torn}
           /\ run' = [At("audit") EXCEPT !.base = approved]
  <2>1. On(chain, approved) /\ Maybe(approved) /\ ~Blank(approved)
    BY <1>6 DEF IInv, FilesInv, Blank, On, Maybe
  <2>2. On(chain', approved)
    BY <1>1, <2>1 DEF Channel
  <2>3. RunInv'
    BY <1>3, <1>6, <2>1, <2>2 DEF At, RunInv, Live
  <2>. QED  BY <1>1, <2>3, StageKeeps
<1>. QED  BY <1>2, <1>4, <1>5, <1>6 DEF PinApproved, PinInitial, LoadInitial, LoadApproved, Requires

LEMMA AuditKeeps == ASSUME IInv, Audit PROVE IInv'
<1>1. UNCHANGED <<Channel, Files, edits, verdict>>
  BY DEF Audit, Requires, At, IInv, RunInv
<1>2. CASE run' = Idle
  BY <1>1, <1>2, IdleKeeps
<1>3. CASE AuditGroup(Content(run.base), {"1s", "2s"}) /\ run' = At("compare")
  <2>1. /\ run'.stage = "compare" /\ run'.base = run.base /\ run'.first = run.first
        /\ run'.at = run.at /\ run.stage = "audit"
        /\ run' \in [stage : Live \cup {"idle"}, first : {run'.first}, base : {run'.base}, at : Nodes]
    BY <1>3 DEF Audit, Requires, At, IInv, RunInv, Live
  <2>2. Governed(run.base) /\ Content(run.base).certs = inputs.certs
    BY <1>3, AuditedIsGoverned
  <2>3. run.at = 1
    BY <2>1 DEF IInv, RunInv
  <2>4. \A n \in Nodes : ~(n < 1)
    BY DEF Nodes
  <2>5. RunInv'
    BY <1>1, <2>1, <2>2, <2>3, <2>4 DEF IInv, RunInv, Channel, Files
  <2>. QED  BY <1>1, <2>5, StageKeeps
<1>. QED  BY <1>2, <1>3 DEF Audit, Requires

LEMMA CompareKeeps == ASSUME IInv, Compare PROVE IInv'
<1>1. /\ UNCHANGED <<Channel, Files, edits>> /\ run.stage = "compare" /\ run.at \in Nodes
      /\ ~Blank(run.base) /\ On(chain, run.base) /\ Maybe(run.base)
      /\ Governed(run.base) /\ Content(run.base).certs = inputs.certs
      /\ \A n \in Nodes : n < run.at => HasIt(chain, line[n], height[n], run.base)
  BY DEF Compare, Requires, IInv, RunInv
<1>2. CASE run' = Idle /\ UNCHANGED verdict
  BY <1>1, <1>2, IdleKeeps
<1>3. CASE fetched[run.at] = run.base /\ run.at = NNodes /\ run' = Idle /\ Pass("current", run.base)
  <2>1. \A n \in Nodes : n < run.at \/ n = run.at
    BY <1>1, <1>3 DEF Nodes
  <2>2. \A n \in Nodes : HasIt(chain, line[n], height[n], run.base)
    BY <1>1, <1>3, <2>1 DEF IInv, FilesInv
  <2>3. RunInv'
    BY <1>3, AuditAssumption DEF Idle, RunInv, Live, Nodes, Maybe
  <2>4. VerdictInv'
    BY <1>1, <1>3, <2>2 DEF Pass, Channel, Files, IInv, VerdictInv, Kinds
  <2>. QED  BY <1>1, <2>3, <2>4, Elsewhere DEF IInv
<1>4. CASE /\ fetched[run.at] = run.base /\ run.at # NNodes /\ run' = [run EXCEPT !.at = @ + 1]
           /\ UNCHANGED verdict
  <2>1. run.at + 1 \in Nodes /\ \A n \in Nodes : n < run.at + 1 => n < run.at \/ n = run.at
    BY <1>1, <1>4, AuditAssumption DEF Nodes
  <2>2. /\ run'.stage = "compare" /\ run'.base = run.base /\ run'.first = run.first
        /\ run'.at = run.at + 1
        /\ run' \in [stage : Live \cup {"idle"}, first : {run'.first}, base : {run'.base}, at : Nodes]
    BY <1>1, <1>4, <2>1 DEF IInv, RunInv, Live
  <2>3. \A n \in Nodes : n < run.at + 1 => HasIt(chain, line[n], height[n], run.base)
    BY <1>1, <1>4, <2>1 DEF IInv, FilesInv
  <2>4. RunInv'
    BY <1>1, <2>2, <2>3 DEF IInv, RunInv, Channel, Files
  <2>. QED  BY <1>1, <1>4, <2>4, StageKeeps
<1>5. /\ At("pass").stage = "pass"
      /\ [run EXCEPT !.at = @ + 1].stage = "compare"
  BY <1>1 DEF At, IInv, RunInv
<1>. QED  BY <1>2, <1>3, <1>4, <1>5 DEF Compare, Requires, NextNode

LEMMA StepInvariant == IInv /\ [Next]_vars => IInv'
<1>1. ASSUME IInv, UNCHANGED vars PROVE IInv'
  BY <1>1, ChannelStays, GrowingKeeps DEF vars, Channel, Files, IInv
<1>2. ASSUME IInv, Next PROVE IInv'
  <2>1. CASE Update
    BY <1>2, <2>1, UpdateGrows, GrowingKeeps DEF Update, IInv
  <2>2. CASE \E n \in Nodes : Commit(n)
    BY <1>2, <2>2, CommitGrows, GrowingKeeps DEF Commit, IInv
  <2>3. CASE Start
    BY <1>2, <2>3, IdleKeeps DEF Start
  <2>. QED  BY <1>2, <2>1, <2>2, <2>3, FetchKeeps, CheckpointKeeps, ReissueKeeps, MisplaceKeeps,
               AtOnceKeeps, LoadingKeeps, AuditKeeps, CompareKeeps DEF Next, Step
<1>. QED  BY <1>1, <1>2

LEMMA Invariance == Spec => []IInv
BY InitInvariant, StepInvariant, PTL DEF Spec

-----------------------------------------------------------------------------
\* The state of the channel, the files and the audits stays well typed.
THEOREM TypeCorrect == Spec => []TypeOK
<1>1. IInv => TypeOK
  <2>. SUFFICES ASSUME IInv PROVE TypeOK
    OBVIOUS
  <2>1. ASSUME NEW l \in Lines
        PROVE  /\ chain[l] # <<>> /\ DOMAIN chain[l] = 1..Len(chain[l])
               /\ \A i \in 1..Len(chain[l]) :
                     chain[l][i] \in Block /\ chain[l][i].line = l /\ chain[l][i].seq = i - 1
    BY DEF IInv, ChainInv
  <2>2. \A n \in Nodes : height[n] \in DOMAIN chain[line[n]]
    BY <2>1 DEF IInv, ChainInv
  <2>3. Maybe(initial) /\ Maybe(approved) /\ \A n \in Nodes : Maybe(fetched[n])
    BY DEF IInv, FilesInv, Maybe, Blank, On, HasIt
  <2>4. DOMAIN chain = Lines /\ line \in [Nodes -> Lines] /\ DOMAIN height = Nodes
    BY DEF IInv, ChainInv
  <2>5. run.stage \in Live \cup {"idle"} /\ Maybe(run.first) /\ Maybe(run.base) /\ run.at \in Nodes
    BY DEF IInv, RunInv
  <2>6. DOMAIN verdict = Kinds /\ \A kind \in Kinds : Maybe(verdict[kind])
    BY DEF IInv, VerdictInv
  <2>. QED  BY <2>1, <2>2, <2>3, <2>4, <2>5, <2>6 DEF IInv, FilesInv, TypeOK
<1>. QED  BY <1>1, Invariance, PTL

\* After a PASS of the current config every audited node has the block, on the same line.
THEOREM PassIsShared == Spec => []PassMeansShared
<1>1. IInv => PassMeansShared
  BY DEF IInv, VerdictInv, PassMeansShared, HasIt, On
<1>. QED  BY <1>1, Invariance, PTL

\* What follows a config that passed an audit carries, for every area it changes, the
\* signatures that the review asks for there, whoever the signers were and whatever else the
\* config held.
THEOREM PassIsGoverned == Spec => []GovernedAfterPass
<1>1. IInv => GovernedAfterPass
  <2>. SUFFICES ASSUME IInv, NEW kind \in {"initial", "current"}, verdict[kind] # Nothing,
                       Len(chain[verdict[kind].line]) > verdict[kind].seq + 1
                PROVE  chain[verdict[kind].line][verdict[kind].seq + 2].governed
    BY DEF GovernedAfterPass
  <2>. DEFINE b == verdict[kind]
              i == b.seq + 1
  <2>1. On(chain, b) /\ Governed(b)
    BY DEF IInv, VerdictInv
  <2>2. b.line \in Lines /\ b.seq \in Nat /\ Len(chain[b.line]) \in Nat /\ chain[b.line][i] = b
    BY <2>1 DEF On, Block, IInv, ChainInv
  <2>3. i \in 1..Len(chain[b.line]) - 1 /\ b.seq + 2 = i + 1
    BY <2>2
  <2>. QED  BY <2>1, <2>2, <2>3 DEF IInv, ChainInv
<1>. QED  BY <1>1, Invariance, PTL

\* Two standing PASSes agree on the consenters' certificates.
THEOREM ConsentersAgree == Spec => []ConsentersPresentTheirs
<1>1. IInv => ConsentersPresentTheirs
  BY DEF IInv, VerdictInv, ConsentersPresentTheirs
<1>. QED  BY <1>1, Invariance, PTL

=============================================================================
