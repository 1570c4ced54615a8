-------------------------- MODULE AgreementProofs --------------------------
(***************************************************************************)
(* No game starts under settings its players did not agree to.             *)
(***************************************************************************)
EXTENDS RoomAgreement, RoomProofs

USE DEF phaseVars, memberVars, adminVars, nightVars, gameVars

\* Readiness is readiness for the settings in force.
ReadyIsAgreed ==
    /\ agreed \in [Ids -> Settings \cup {None}]
    /\ \A p \in ready : agreed[p] = settings

\* Who gets ready, or what changes with the settings: everybody who is ready
\* after a step was so before it, under the same settings, or says so now.
LEMMA ReadinessKept ==
    ASSUME Typed, [OpenNext]_vars
    PROVE  \/ UNCHANGED settings
           \/ ready' \subseteq {owner}
<1>1. ASSUME NEW p \in Ids, ClientEvent(p)
      PROVE  UNCHANGED settings \/ ready' \subseteq {owner}
  <2>1. CASE \E b \in BOOLEAN : Ready(p, b) \/ Presence(p, b) \/ SetRoomLocked(p, b)
    BY <2>1 DEF Ready, Presence, SetRoomLocked
  <2>2. CASE \E t \in Ids : TransferOwner(p, t) \/ KickParticipant(p, t)
    BY <2>2 DEF TransferOwner, KickParticipant
  <2>3. CASE \E n \in MinPlayersToStart .. MaxPlayersAllowed : SetPlayerLimit(p, n)
    BY <2>3 DEF SetPlayerLimit
  <2>4. CASE \E s \in Settings : SetGameSettings(p, s) \/ SetGamePreset(p, s)
    BY <2>4 DEF SetGameSettings, SetGamePreset, ClearReadiness
  <2>5. CASE \E deal \in Deals(players, settings.specials) : StartGame(p, deal)
    BY <2>5 DEF StartGame
  <2>6. CASE ReturnToWaiting(p) BY <2>6 DEF ReturnToWaiting
  <2>7. CASE NightPass(p) \/ StartVote(p) BY <2>7 DEF NightPass, StartVote, StartVoting
  <2>8. CASE \E t \in Ids : NightAction(p, t) \/ Shoot(p, t)
    BY <2>8 DEF NightAction, Shoot
  <2>9. CASE \E t \in Ids \cup {None} : Vote(p, t) BY <2>9 DEF Vote
  <2>. QED BY <1>1, <2>1, <2>2, <2>3, <2>4, <2>5, <2>6, <2>7, <2>8, <2>9 DEF ClientEvent, RoomEvent
<1>2. ASSUME NEW p \in Ids, Arrival(p) \/ Departure(p) PROVE UNCHANGED settings
  BY <1>2 DEF Arrival, Departure, Join, Reconnect, Leave, LeaveWaiting, Disconnect
<1>3. CASE DeadlinePasses BY <1>3 DEF DeadlinePasses
<1>4. CASE PhaseTimeout
  BY <1>4 DEF PhaseTimeout, NightTimeout, StartVoting, VotingTimeout, LastWordsTimeout
<1>5. CASE UNCHANGED vars BY <1>5 DEF vars
<1>. QED BY <1>1, <1>2, <1>3, <1>4, <1>5 DEF OpenNext

LEMMA NextAgreed ==
    ASSUME Typed, Typed', ReadyIsAgreed, [OpenNext /\ Agree]_agreementVars
    PROVE  ReadyIsAgreed'
<1>1. CASE UNCHANGED agreementVars
  BY <1>1 DEF agreementVars, vars, ReadyIsAgreed
<1>2. CASE OpenNext /\ Agree
  <2>1. UNCHANGED settings \/ ready' \subseteq {owner} BY <1>2, ReadinessKept
  <2>2. /\ settings' \in Settings /\ ready \subseteq players /\ ready' \subseteq Ids
        /\ players \subseteq Seated
    BY DEF Typed, RoomTypeOK, Seated
  <2>3. agreed' \in [Ids -> Settings \cup {None}]
    BY <1>2, <2>2 DEF Agree, ReadyIsAgreed
  <2>4. ASSUME NEW p \in ready' PROVE agreed'[p] = settings'
    <3>1. p \in Ids BY <2>2
    <3>2. CASE p \in ready' \ ready \/ (p = owner /\ settings' # settings)
      BY <1>2, <3>1, <3>2 DEF Agree
    <3>3. CASE p \in ready /\ ~(p = owner /\ settings' # settings)
      BY <1>2, <2>1, <2>2, <3>1, <3>3 DEF Agree, ReadyIsAgreed
    <3>. QED BY <3>2, <3>3
  <2>. QED BY <2>3, <2>4 DEF ReadyIsAgreed
<1>. QED BY <1>1, <1>2

\* Whoever changes the settings, leaves, comes back, or takes the room over in
\* between, a game starts only under the settings that everybody but the owner
\* got ready for (clearReadiness, nonOwnersReady).
THEOREM GamesStartAsAgreed == AgreementSpec => StartersAgreed
<1>1. Init /\ AgreeInit => Typed /\ ReadyIsAgreed
  BY InitTyped DEF Init, AgreeInit, ReadyIsAgreed
<1>2. [OpenNext /\ Agree]_agreementVars => [OpenNext]_vars BY DEF agreementVars
<1>3. Typed /\ ReadyIsAgreed /\ [OpenNext /\ Agree]_agreementVars => (Typed /\ ReadyIsAgreed)'
  BY <1>2, NextTyped, NextAgreed
<1>4. Typed /\ ReadyIsAgreed /\ [OpenNext /\ Agree]_agreementVars
        => [phase = "WAITING" /\ phase' = "NIGHT"
               => \A p \in players \ {owner} : agreed[p] = settings]_agreementVars
  <2>1. ASSUME Typed, ReadyIsAgreed, OpenNext, phase = "WAITING", phase' = "NIGHT"
        PROVE  \A p \in players \ {owner} : agreed[p] = settings
    <3>1. OpenNext /\ ~InGame /\ InGame' BY <2>1 DEF InGame, TimedPhases
    <3>2. \E p \in Ids : \E deal \in Deals(players, settings.specials) :
             StartGame(p, deal)
      BY <2>1, <3>1, OnlyStartOpensMatch
    <3>. QED BY <2>1, <3>2 DEF StartGame, ReadyIsAgreed
  <2>. QED BY <2>1
<1>. QED BY <1>1, <1>3, <1>4, PTL DEF AgreementSpec, StartersAgreed

=============================================================================
