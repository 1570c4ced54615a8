------------------------------ MODULE MCReplay ------------------------------
(***************************************************************************)
(* A participant with a few events, on a network and in a room that go     *)
(* wrong a few times.                                                      *)
(***************************************************************************)
EXTENDS ClientReplay

CONSTANTS MaxSequence, MaxFaults

VARIABLE faults

MCInit == Init /\ faults = 0

MCNext ==
    /\ page # "over"
    /\ \/ PageStep /\ UNCHANGED faults
       \/ HandlerStep /\ UNCHANGED faults
       \/ Fault /\ faults < MaxFaults /\ faults' = faults + 1
    /\ next' <= MaxSequence + 1 /\ long' \cup huge' \subseteq {1}

MCSpec     == MCInit /\ [][MCNext]_<<vars, faults>>
MCFairSpec == MCSpec /\ Fairness

=============================================================================
