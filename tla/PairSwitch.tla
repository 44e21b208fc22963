----------------------------- MODULE PairSwitch -----------------------------
(***************************************************************************)
(* What a credential rotation promises.  The service is up on one pair of  *)
(* credentials or down; it never goes from one pair to the other without   *)
(* being down in between; it comes up on a pair that is kept; and the old  *)
(* pair is given up only after the service was seen up on the new one.     *)
(***************************************************************************)
CONSTANTS Old, New, Down  \* pairs of credentials, and no pair

VARIABLES
    serving,    \* the pair the service is up on, or Down
    kept,       \* the pairs of which a complete set of files or containers is left
    trusted     \* the pairs the service was seen up on

Init == serving = Old /\ kept = {Old} /\ trusted = {Old}

Stop ==
    /\ serving # Down /\ serving' = Down
    /\ UNCHANGED <<kept, trusted>>

Serve(pair) ==
    /\ serving = Down /\ pair \in kept
    /\ serving' = pair
    /\ UNCHANGED <<kept, trusted>>

Offer ==
    /\ kept' = kept \cup {New}
    /\ UNCHANGED <<serving, trusted>>

Trust ==
    /\ serving # Down /\ trusted' = trusted \cup {serving}
    /\ UNCHANGED <<serving, kept>>

Retire ==
    /\ New \in kept \cap trusted /\ kept' = {New}
    /\ UNCHANGED <<serving, trusted>>

Next == Stop \/ Offer \/ Trust \/ Retire \/ \E pair \in {Old, New} : Serve(pair)

Spec == Init /\ [][Next]_<<serving, kept, trusted>>

\* There is always a pair to come up on, and the old one is not given up for a pair that
\* nobody has seen work.
NeverLost ==
    /\ kept # {} /\ kept \subseteq {Old, New}
    /\ Old \in kept \/ New \in kept \cap trusted

=============================================================================
