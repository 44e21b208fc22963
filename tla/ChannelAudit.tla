---------------------------- MODULE ChannelAudit ----------------------------
(***************************************************************************)
(* The read-only audits of supplychannel: verify-m2-initial-block.py,      *)
(* verify-m2-current-config.py and the --inspect-block comparison of       *)
(* prepare-m2-nodes.py.  They read decoded blocks, M1 files and node       *)
(* configs one after the other, while the channel is updated, nodes commit *)
(* blocks at their own pace, and an operator fetches and replaces files.   *)
(***************************************************************************)
EXTENDS Integers, Sequences, FiniteSets

CONSTANTS
    NNodes,     \* audited nodes, in the order of NODES
    Rules,      \* signature rules, closed under taking sub-rules
    Config,     \* name -> the channel config of that name
    Versions,   \* issues of the M1 roots and of the consenters' certificates
    Nothing,    \* a file that is absent
    Torn,       \* a file that load_config_block refuses
    MaxUpdates, \* bound on channel updates
    MaxEdits    \* bound on what the operator replaces

Nodes      == 1..NNodes
Founders   == {"SellerMSP", "BuyerMSP", "CarrierMSP"}
Identities == Founders \cup {"OrdererMSP"}

\* A rule is a leaf, `signed_by` one identity, or `n_out_of` a list of rules.
Leaf(rule) == rule.by \in Identities

\* The groups of a channel config.  What is changed in one of them is judged by a policy of
\* that same group, since mod_policy is a relative name.
Areas == {"channel", "application", "orderer"} \cup Identities

\* The parts of a config that an audit can tell apart.  `open` are the areas whose mod_policy
\* is not Admins but Readers; `drift` those with an item that is not as reviewed.
Groups == DOMAIN Config
Group == [roots : [Identities -> Versions], certs : Versions, timeout : {"1s", "2s", "0s"},
          admins : [Areas -> Rules], open : SUBSET Areas, drift : SUBSET Areas]

\* Issues of the M1 roots and certificates, of the staged copies, of the inventory's pins and
\* of the rendered node configs.
Inputs == [roots : [Identities -> Versions], certs : Versions, staged : Versions,
           pinned : Versions, rendered : Versions]

ASSUME AuditAssumption ==
    /\ NNodes \in Nat \ {0} /\ MaxEdits \in Nat /\ Config \in [Groups -> Group]
    /\ \A rule \in Rules : Leaf(rule) \/ \A i \in DOMAIN rule.of : rule.of[i] \in Rules

\* The channel, and another channel of the same name that a node may have been joined to.
Lines == {"main", "stray"}

\* A CONFIG block; line and sequence stand for its header.  `governed` tells whether whoever
\* may change each area by the reviewed rules has signed the update.
Block == [line : Lines, seq : Nat, group : Groups, governed : BOOLEAN]
Content(b) == Config[b.group]

VARIABLES
    chain,      \* line -> its CONFIG blocks
    line,       \* node -> the line it was joined to
    height,     \* node -> how many CONFIG blocks it has committed
    inputs,     \* the files that the audits compare with the blocks
    initial,    \* the decoded block 0 on disk
    approved,   \* the approved decoded block on disk
    pins,       \* the recorded digests of the two: what they were when they were recorded
    fetched,    \* node -> the decoded block that was fetched from it
    run,        \* the audit of the current config: its stage and what it has loaded
    verdict,    \* audit -> the block that its last PASS is about
    edits       \* replacements so far

vars == <<chain, line, height, inputs, initial, approved, pins, fetched, run, verdict, edits>>
Channel == <<chain, line, height>>
Files   == <<inputs, initial, approved, pins, fetched>>

Kinds == {"initial", "current", "nodes"}
Live  == {"pinApproved", "pinInitial", "loadInitial", "loadApproved", "audit", "compare"}

\* No audit of the current config is running; the last one may have passed or failed.
Idle == [stage |-> "idle", first |-> Nothing, base |-> Nothing, at |-> 1]

Genesis(l, g) == [line |-> l, seq |-> 0, group |-> g, governed |-> TRUE]
Latest == chain["main"][Len(chain["main"])]

Init ==
    /\ \E g \in Groups :
          /\ chain = [l \in Lines |-> <<Genesis(l, g)>>]
          /\ initial = Genesis("main", g) /\ approved = Genesis("main", g)
          /\ pins = [initial |-> Genesis("main", g), approved |-> Genesis("main", g)]
    /\ line \in [Nodes -> Lines] /\ line[1] = "main" /\ height = [n \in Nodes |-> 1]
    /\ \E staged \in Versions : LET c == Content(initial).certs IN
          inputs = [roots |-> Content(initial).roots, certs |-> c, staged |-> staged, pinned |-> c, rendered |-> c]
    /\ fetched = [n \in Nodes |-> Nothing]
    /\ run = Idle
    /\ verdict = [kind \in Kinds |-> Nothing]
    /\ edits = 0

-----------------------------------------------------------------------------
(* Signature policies.                                                     *)

\* permits: the thresholds have to be possible ones, or the audit fails.
Valid[rule \in Rules] ==
    Leaf(rule) \/ ( /\ 0 <= rule.n /\ rule.n <= Len(rule.of)
                    /\ \A i \in DOMAIN rule.of : Valid[rule.of[i]] )

Permits[rule \in Rules, signers \in SUBSET Identities] ==
    IF Leaf(rule) THEN rule.by \in signers
    ELSE Cardinality({i \in DOMAIN rule.of : Permits[rule.of[i], signers]}) >= rule.n

\* Everybody a rule names.
Names[rule \in Rules] ==
    IF Leaf(rule) THEN {rule.by} ELSE UNION {Names[rule.of[i]] : i \in DOMAIN rule.of}

\* Whose signatures count in an area, and the reviewed thresholds: the Orderer with two
\* founders for the root of the channel, two founders for the applications, and the Orderer
\* or the organization itself for its own.
Members(area) ==
    CASE area = "channel"     -> Identities
      [] area = "application" -> Founders
      [] area = "orderer"     -> {"OrdererMSP"}
      [] area \in Identities  -> {area}
Threshold(area, signers) ==
    LET founders == Cardinality(signers \cap Founders) IN
    CASE area = "channel"     -> "OrdererMSP" \in signers /\ founders >= 2
      [] area = "application" -> founders >= 2
      [] OTHER                -> signers \cap Members(area) # {}

\* Mutant: whoever should be able to sign is, and nobody asks who else is.
AdminsAsReviewedLoosely(rule, area) ==
    /\ Valid[rule] /\ Names[rule] \subseteq Members(area)
    /\ \A signers \in SUBSET Identities : Threshold(area, signers) => Permits[rule, signers]

\* signature_policy: the rule is over the expected identities and agrees with the reviewed
\* threshold on every set of them, and so on every set of signers.
AdminsAsReviewed(rule, area) ==
    /\ Valid[rule] /\ Names[rule] \subseteq Members(area)
    /\ \A signers \in SUBSET Identities : Permits[rule, signers] = Threshold(area, signers)

ReviewedRules == [area \in Areas |-> {rule \in Rules : AdminsAsReviewed(rule, area)}]
Signings == [rule \in Rules |-> {signers \in SUBSET Identities : Permits[rule, signers]}]

CheckOrganizations(group) == \A org \in Identities :
    group.roots[org] = inputs.roots[org] /\ org \notin group.drift /\ group.admins[org] \in ReviewedRules[org]

\* Mutant: the staged copies are compared with the block, and M1 with nothing.
CheckOrdererStaged(group) == group.certs = inputs.staged /\ "orderer" \notin group.drift

\* The staged PEM is M1's, the block's and the inventory's.
CheckOrderer(group) ==
    /\ inputs.staged = inputs.certs /\ group.certs = inputs.staged /\ inputs.pinned = inputs.certs
    /\ "orderer" \notin group.drift

CheckPolicies(group) ==
    /\ group.open = {} /\ group.drift \cap {"channel", "application"} = {}
    /\ \A area \in Areas \ Identities : group.admins[area] \in ReviewedRules[area]

AuditGroup(group, timeouts) ==
    /\ CheckOrganizations(group) /\ CheckOrderer(group) /\ group.timeout \in timeouts
    /\ CheckPolicies(group)

-----------------------------------------------------------------------------
(* The channel.                                                            *)

Changes(old, new, area) ==
    \/ old.admins[area] # new.admins[area]
    \/ \E part \in {"open", "drift"} : (area \in old[part]) # (area \in new[part])
    \/ area = "orderer" /\ (old.certs # new.certs \/ old.timeout # new.timeout)
    \/ area \in Identities /\ old.roots[area] # new.roots[area]

\* Fabric asks, of the config in force and for every item that changes, the policy that its
\* mod_policy names in its own group; Readers are satisfied by any member.
Authorised(old, new, signers) == \A area \in Areas : Changes(old, new, area) =>
    IF area \in old.open THEN signers \cap Members(area) # {} ELSE signers \in Signings[old.admins[area]]

Governs(old, new, signers) == \A area \in Areas : Changes(old, new, area) => Threshold(area, signers)

\* Whether an update from one group to another may, and whether it must, be governed.
Outcomes == [old \in Groups |-> [new \in Groups |->
    {Governs(Config[old], Config[new], signers) : signers \in {some \in SUBSET Identities : Authorised(Config[old], Config[new], some)}}]]

\* Signers that are authorised agree on another group, and the Orderers order the update.
Update ==
    /\ Len(chain["main"]) <= MaxUpdates
    /\ \E g \in Groups \ {Latest.group} : \E governed \in Outcomes[Latest.group][g] :
          chain' = [chain EXCEPT !["main"] = Append(@,
             [line |-> "main", seq |-> Latest.seq + 1, group |-> g, governed |-> governed])]
    /\ UNCHANGED <<line, height, Files, run, verdict, edits>>

Commit(n) ==
    /\ height[n] < Len(chain[line[n]])
    /\ height' = [height EXCEPT ![n] = @ + 1]
    /\ UNCHANGED <<chain, line, Files, run, verdict, edits>>

(* The operator.                                                           *)

\* peer channel fetch config into a name that does not exist yet
Fetch(n) ==
    /\ fetched[n] = Nothing
    /\ fetched' = [fetched EXCEPT ![n] = chain[line[n]][height[n]]]
    /\ UNCHANGED <<Channel, inputs, initial, approved, pins, run, verdict, edits>>

AllFetched == \A n \in Nodes : fetched[n] # Nothing

\* The channel's latest CONFIG block is reviewed and its digest recorded, and the nodes
\* are fetched anew.
NewCheckpoint ==
    /\ run.stage \notin Live /\ AllFetched
    /\ approved' = Latest /\ pins' = [pins EXCEPT !.approved = Latest]
    /\ fetched' = [n \in Nodes |-> Nothing]
    /\ verdict' = [verdict EXCEPT !["current"] = Nothing]
    /\ UNCHANGED <<Channel, inputs, initial, run, edits>>

Edit == edits < MaxEdits /\ edits' = edits + 1 /\ UNCHANGED Channel

\* Between two audits an organization's roots are issued again, or the certificates, which are
\* then staged and recorded in the inventory, and rendered into node configs; the operator may
\* stop before each of these.  What the audits said of the earlier ones no longer counts.
Reissue ==
    /\ Edit /\ run.stage \notin Live
    /\ \E v \in Versions :
          \/ \E org \in Identities : inputs' = [inputs EXCEPT !.roots[org] = v]
          \/ \E staged, rendered \in BOOLEAN :
                /\ rendered => staged
                /\ inputs' = [inputs EXCEPT !.certs = v, !.staged = IF staged THEN v ELSE @,
                     !.pinned = IF staged THEN v ELSE @, !.rendered = IF rendered THEN v ELSE @]
    /\ inputs' # inputs
    /\ verdict' = [verdict EXCEPT !["current"] = Nothing, !["nodes"] = Nothing]
    /\ UNCHANGED <<initial, approved, pins, fetched, run>>

\* At any time a decoded block is lost or damaged, and one that was to be kept may be
\* overwritten with another.  (A block that was fetched from one node and stored under the
\* name of another is one no audit can tell.)
Misplace ==
    /\ Edit
    /\ \/ initial' \in {Torn, chain["stray"][1], Latest} \ {initial} /\ UNCHANGED <<approved, fetched>>
       \/ approved' \in {Torn, chain["stray"][1], Latest} \ {approved} /\ UNCHANGED <<initial, fetched>>
       \/ \E b \in {Torn, Nothing}, n \in Nodes :
             /\ fetched[n] # b /\ fetched' = [fetched EXCEPT ![n] = b]
             /\ UNCHANGED <<initial, approved>>
    /\ UNCHANGED <<inputs, pins, run, verdict>>

-----------------------------------------------------------------------------
(* The audits.                                                             *)
IsGenesis(b) == b \notin {Nothing, Torn} /\ b.seq = 0

SameHeader(b, c) == b.line = c.line /\ b.seq = c.seq

Pass(kind, b) == verdict' = [verdict EXCEPT ![kind] = b]

\* config_group of verify-m2-initial-block.py reads the decoded block once, and nothing
\* else that it reads is written while audits run; what fails leaves no trace.
AuditInitial ==
    /\ IsGenesis(initial) /\ AuditGroup(Content(initial), {"1s"})
    /\ Pass("initial", initial)
    /\ UNCHANGED <<Channel, Files, run, edits>>

\* check_initial_block: the certificates of block 0 are M1's, and the node configs name the
\* key files of M1.
CompareNodeConfigs ==
    /\ IsGenesis(initial) /\ Content(initial).certs = inputs.certs /\ inputs.rendered = inputs.certs
    /\ Pass("nodes", initial)
    /\ UNCHANGED <<Channel, Files, run, edits>>

\* main of verify-m2-current-config.py
Start ==
    /\ run.stage \notin Live /\ AllFetched
    /\ run' = [Idle EXCEPT !.stage = "pinApproved"]
    /\ UNCHANGED <<Channel, Files, verdict, edits>>

\* One requirement after the other; the first that fails ends the audit.
Requires(here, ok, next) ==
    /\ run.stage = here
    /\ run' = IF ok /\ next.stage # "pass" THEN next ELSE Idle
    /\ IF ok /\ next.stage = "pass" THEN Pass("current", run.base) ELSE UNCHANGED verdict
    /\ UNCHANGED <<Channel, Files, edits>>
At(stage) == [run EXCEPT !.stage = stage]

\* The digests of both files, and then the files once more, to load them.
PinApproved == Requires("pinApproved", approved = pins.approved, At("pinInitial"))
PinInitial  == Requires("pinInitial", initial = pins.initial, At("loadInitial"))

\* Of the file that is loaded, the header is compared once more, and not the data.
LoadInitial == Requires("loadInitial", IsGenesis(initial) /\ SameHeader(initial, pins.initial),
                        [At("loadApproved") EXCEPT !.first = initial])

\* Mutant: the approved block has to be the original one at any height.
LoadApprovedOriginal == Requires("loadApproved", approved = run.first,
                                 [At("audit") EXCEPT !.base = approved])

LoadApproved == Requires("loadApproved",
                         approved \notin {Nothing, Torn} /\ (IsGenesis(approved) => approved = run.first),
                         [At("audit") EXCEPT !.base = approved])

\* audit_approved_config, with the timeout that the block has if it is a positive one
Audit == Requires("audit", AuditGroup(Content(run.base), {"1s", "2s"}), At("compare"))

NextNode == IF run.at = NNodes THEN At("pass") ELSE [run EXCEPT !.at = @ + 1]

\* Mutant: height and sequence agree, and nobody compares header and data.
CompareHeight == Requires("compare",
    fetched[run.at] \notin {Nothing, Torn} /\ fetched[run.at].seq = run.base.seq, NextNode)

\* Mutant: the walk over the nodes does not end with the last one.
CompareTooFar == Requires("compare", fetched[run.at] = run.base, [run EXCEPT !.at = @ + 1])

Compare == Requires("compare", fetched[run.at] = run.base, NextNode)

Step == PinApproved \/ PinInitial \/ LoadInitial \/ LoadApproved \/ Audit \/ Compare

Next ==
    \/ Update \/ NewCheckpoint \/ Reissue \/ Misplace
    \/ AuditInitial \/ CompareNodeConfigs \/ Start \/ Step
    \/ \E n \in Nodes : Commit(n) \/ Fetch(n)

Spec == Init /\ [][Next]_vars

\* Nodes catch up, a started audit runs to its end, and the operator repeats the procedure:
\* approve, fetch, audit.
FairSpec ==
    /\ Spec /\ WF_vars(Step) /\ SF_vars(NewCheckpoint) /\ SF_vars(Start)
    /\ WF_vars(\E n \in Nodes : Commit(n)) /\ WF_vars(\E n \in Nodes : Fetch(n))

-----------------------------------------------------------------------------
Maybe(b) == b \in {Nothing, Torn} \/ b \in Block

TypeOK ==
    /\ DOMAIN chain = Lines
    /\ \A l \in Lines : chain[l] # <<>> /\ \A i \in DOMAIN chain[l] :
          chain[l][i] \in Block /\ chain[l][i].line = l /\ chain[l][i].seq = i - 1
    /\ line \in [Nodes -> Lines]
    /\ DOMAIN height = Nodes /\ \A n \in Nodes : height[n] \in DOMAIN chain[line[n]]
    /\ inputs \in Inputs
    /\ Maybe(initial) /\ Maybe(approved) /\ pins.initial \in Block /\ pins.approved \in Block
    /\ DOMAIN fetched = Nodes /\ \A n \in Nodes : Maybe(fetched[n])
    /\ run.stage \in Live \cup {"idle"} /\ Maybe(run.first) /\ Maybe(run.base) /\ run.at \in Nodes
    /\ DOMAIN verdict = Kinds /\ \A kind \in Kinds : Maybe(verdict[kind])
    /\ edits \in 0..MaxEdits

\* "six named decoded CONFIG JSON inputs match approved block" (line 161): after a PASS the
\* ledger of every node has the block at its height, so all nodes are on one line, although
\* they were fetched at different moments of a channel that moved, and whatever was
\* overwritten meanwhile.
PassMeansShared == LET b == verdict["current"] IN b # Nothing =>
    \A n \in Nodes : /\ line[n] = b.line
                     /\ height[n] > b.seq /\ chain[line[n]][b.seq + 1] = b

\* "founder governance" (line 263): of a config that passed an audit, the next update
\* carries, for every area it changes, the reviewed signatures: two founders and the Orderer
\* at the root, two founders in the applications, and the owner of anything else; so no one
\* reaches, by way of an area of his own, what others govern.
GovernedAfterPass == \A kind \in {"initial", "current"} :
    LET b == verdict[kind] IN
    b # Nothing /\ Len(chain[b.line]) > b.seq + 1 => chain[b.line][b.seq + 2].governed

\* Two programs agree: when the audit of the current config and the comparison of the node
\* configs with block 0 both stand, the certificates that the Orderers are configured with
\* are the consenters' of the *current* config.
ConsentersPresentTheirs ==
    verdict["current"] # Nothing /\ verdict["nodes"] # Nothing =>
        Content(verdict["current"]).certs = inputs.rendered

InOrder ==
    /\ \A n \in Nodes : line[n] = "main"
    /\ initial = pins.initial
    /\ AuditGroup(Content(Latest), {"1s", "2s"})

\* In a quiet window over a channel in order, repeated checkpoints give a PASS for the
\* channel's latest config, also after audits that failed.
QuietWindowPasses == <>[]InOrder => []<>(verdict["current"] = Latest)

=============================================================================
