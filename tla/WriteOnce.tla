------------------------------ MODULE WriteOnce ------------------------------
(***************************************************************************)
(* What a build promises of its output: every register is put once, whole, *)
(* and no build ever changes it again.  Only a revision, which is the      *)
(* operator's and opens a new epoch, replaces what is there.               *)
(***************************************************************************)
EXTENDS Naturals

CONSTANTS Registers, Values, Empty

VARIABLES reg, epoch

Init == reg \in [Registers -> Values \cup {Empty}] /\ epoch = 0

Put(r, v) ==
    /\ reg[r] = Empty
    /\ reg' = [reg EXCEPT ![r] = v]
    /\ UNCHANGED epoch

Revise ==
    /\ reg' \in [Registers -> Values \cup {Empty}]
    /\ epoch' = epoch + 1

Next == Revise \/ \E r \in Registers, v \in Values : Put(r, v)

Spec == Init /\ [][Next]_<<reg, epoch>>

\* Within an epoch, what was put stays as it is.
PutStays == [][epoch' = epoch => \A r \in Registers : reg[r] # Empty => reg'[r] = reg[r]]_<<reg, epoch>>

=============================================================================
