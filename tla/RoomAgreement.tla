--------------------------- MODULE RoomAgreement ---------------------------
(***************************************************************************)
(* A room with a memory of what its players agreed to, to ask whether a    *)
(* game can start under settings somebody never saw.                       *)
(***************************************************************************)
EXTENDS RoomSafety

\* History: the settings a player last agreed to, by getting ready under them or
\* by choosing them; None for who has left since.
VARIABLE agreed

AgreeInit == agreed = [p \in Ids |-> None]

Agree ==
    agreed' = [p \in Ids |->
        IF p \in ready' \ ready \/ (p = owner /\ settings' # settings)
        THEN settings' ELSE IF p \in Seated THEN agreed[p] ELSE None]

agreementVars == <<vars, agreed>>

AgreementSpec == Init /\ AgreeInit /\ [][OpenNext /\ Agree]_agreementVars

\* A game starts only under settings that every player but its owner has agreed
\* to, whatever has happened since (clearReadiness, nonOwnersReady).
StartersAgreed ==
    [][ phase = "WAITING" /\ phase' = "NIGHT"
        => \A p \in players \ {owner} : agreed[p] = settings ]_agreementVars

=============================================================================
