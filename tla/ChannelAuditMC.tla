----------------------------- MODULE ChannelAuditMC -----------------------------
(* ChannelAudit for TLC: rules and configs that differ from the reviewed ones in  *)
(* a respect or two each.                                                          *)
EXTENDS ChannelAudit

Signed(msp)   == [by |-> msp, n |-> 0, of |-> <<>>]
OutOf(n, of)  == [by |-> "", n |-> n, of |-> of]

S == Signed("SellerMSP")
B == Signed("BuyerMSP")
C == Signed("CarrierMSP")
O == Signed("OrdererMSP")

\* Two of three founders and the Orderer, in the shape of configtx.yaml and in another one.
TwoFounders == OutOf(2, <<S, B, C>>)
Reviewed    == OutOf(2, <<O, TwoFounders>>)
Unfolded    == OutOf(1, <<OutOf(3, <<S, B, O>>), OutOf(3, <<S, C, O>>), OutOf(3, <<B, C, O>>)>>)

\* One founder is enough; any three of the four; nobody; and a threshold out of reach.
OneOfThree == OutOf(1, <<S, B, C>>)
OneFounder == OutOf(2, <<O, OneOfThree>>)
AnyThree   == OutOf(3, <<S, B, C, O>>)
Nobody     == OutOf(0, <<S>>)
OutOfReach == OutOf(2, <<O>>)

TopRules == {Reviewed, Unfolded, OneFounder, AnyThree, Nobody, OutOfReach}
Children(rules) == UNION {{rule.of[i] : i \in DOMAIN rule.of} : rule \in rules}
MCRules == TopRules \cup Children(TopRules) \cup Children(Children(TopRules))

\* Signers outside the identities that a rule and an area may name change neither side of the
\* audit's comparison, so it may be made on all signers.
ASSUME ComparedOnMembers == \A rule \in MCRules, area \in Areas, signers \in SUBSET Identities :
    LET members == signers \cap Members(area) IN
    /\ Names[rule] \subseteq Members(area) => Permits[rule, signers] = Permits[rule, members]
    /\ Threshold(area, signers) = Threshold(area, members)

Good == [roots |-> [org \in Identities |-> 1], certs |-> 1, timeout |-> "1s",
         admins |-> [area \in Areas |-> CASE area = "channel"     -> Reviewed
                                          [] area = "application" -> TwoFounders
                                          [] area = "orderer"     -> O
                                          [] OTHER                -> Signed(area)],
         open |-> {}, drift |-> {}]

\* As reviewed; rotated, with a slower Orderer and the rule of the root in another shape; one
\* that takes the Orderer and an organization, each for its own, and differs in what no other
\* part tells; and two that are governed by fewer than the review asks for.
MCConfig ==
    [reviewed |-> Good,
     rotated  |-> [Good EXCEPT !.certs = 2, !.timeout = "2s", !.admins["channel"] = Unfolded],
     taken    |-> [Good EXCEPT !.timeout = "2s", !.roots["SellerMSP"] = 2, !.drift = {"orderer"}],
     loose    |-> [Good EXCEPT !.open = {"application"}],
     founder  |-> [Good EXCEPT !.admins["channel"] = OneFounder]]

=============================================================================
