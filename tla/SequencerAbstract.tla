------------------------- MODULE SequencerAbstract -------------------------
(***************************************************************************)
(* What a sequenced ArmadaChartGroup promises about enabling its charts    *)
(* (spec section 4.1): charts are enabled one at a time, each only after   *)
(* every chart before it in the list, an enabled chart stays enabled, and  *)
(* every chart is eventually enabled.  Nothing is said about how long a    *)
(* chart waits for its predecessor to deploy.                              *)
(***************************************************************************)
EXTENDS Naturals, Sequences

CONSTANT Order        \* the charts of the group, in list order

VARIABLE enabled      \* the charts whose TargetState is Deployed

Members == {Order[i] : i \in 1..Len(Order)}

\* The first chart of the list not enabled yet.
NextInLine(c) ==
    \E i \in 1..Len(Order) :
       /\ Order[i] = c
       /\ c \notin enabled
       /\ \A j \in 1..(i - 1) : Order[j] \in enabled

Init == enabled = {}

EnableNext == \E c \in Members : NextInLine(c) /\ enabled' = enabled \cup {c}

Spec == Init /\ [][EnableNext]_enabled /\ WF_enabled(EnableNext)
=============================================================================
