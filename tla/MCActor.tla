------------------------------ MODULE MCActor ------------------------------
(***************************************************************************)
(* Two participants, one of whom may connect twice, on short channels.     *)
(* The room's administration and spectators, which MCRoom covers, are left *)
(* out.                                                                    *)
(***************************************************************************)
EXTENDS ActorSafety

CONSTANTS a1, a2, b1, Slots, RoundBound

MCWho == [c \in Slots |-> IF c = b1 THEN 2 ELSE 1]

Standard   == [minimum |-> 2, specials |-> {"KILLER"}, reveal |-> FALSE]
MCSettings == {Standard}

\* A match of two ends with its first night.
MCNext ==
    /\ ActorNext
    /\ spectators' = {} /\ afk' = {} /\ ~locked' /\ maxPlayers' = maxPlayers
    /\ round' <= RoundBound

MCSpec     == ActorInit /\ [][MCNext]_actorVars
MCFairSpec == MCSpec /\ ActorFairness

=============================================================================
