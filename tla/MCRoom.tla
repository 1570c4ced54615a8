------------------------------- MODULE MCRoom -------------------------------
(***************************************************************************)
(* The whole of RoomSafety on a small room: people come and go, the owner  *)
(* administers, and games are played.                                      *)
(***************************************************************************)
EXTENDS RoomAgreement

CONSTANTS MaxRound, MaxAfk

Standard == [minimum |-> 2, specials |-> {"KILLER"}, reveal |-> FALSE]
Larger   == [minimum |-> 3, specials |-> {"KILLER"}, reveal |-> TRUE]

MCSettings == {Standard, Larger}
MCPresets  == {Larger}

MCInit == Init /\ AgreeInit

MCNext ==
    /\ Next /\ Agree
    /\ round' <= MaxRound /\ Cardinality(afk') <= MaxAfk

MCSpec == MCInit /\ [][MCNext]_agreementVars

=============================================================================
