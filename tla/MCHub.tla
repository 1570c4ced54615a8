------------------------------- MODULE MCHub -------------------------------
(***************************************************************************)
(* Two requests from one address and one from another, for two rooms on a  *)
(* hub that may keep one.                                                  *)
(***************************************************************************)
EXTENDS Hub, TLC

CONSTANTS q1, q2, q3, i1, i2

MCAddr == [q \in Requests |-> IF q = q3 THEN i2 ELSE i1]

\* A request, an actor or a room of a set may take another's place.
MCSymmetry == Permutations({q1, q2}) \cup Permutations(Actors) \cup Permutations(RoomIds)

=============================================================================
