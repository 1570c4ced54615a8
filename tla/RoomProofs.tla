----------------------------- MODULE RoomProofs -----------------------------
(***************************************************************************)
(* Theorems about RoomState, for every set of ids, limit and settings.     *)
(***************************************************************************)
EXTENDS RoomSafety, TLAPS, FiniteSetTheorems, WellFoundedInduction

---------------------------------------------------------------------------
(* What the helpers return                                                 *)

\* Where a proof needs induction, it looks at the least counterexample.
LEMMA HasLeast ==
    ASSUME NEW S \in SUBSET Nat, S # {}
    PROVE  \E p \in S : \A q \in S : p <= q
<1>. DEFINE R == OpToRel(<, Nat)
<1>1. IsWellFoundedOn(R, Nat) BY NatLessThanWellFounded
<1>2. \A p, q \in Nat : <<q, p>> \in R <=> q < p BY DEF OpToRel
<1>3. PICK p \in S : \A q \in S : ~(<<q, p>> \in R)
  <2>. HIDE DEF R
  <2>. QED BY <1>1, WFMin
<1>4. \A q \in S : p <= q
  <2>. TAKE q \in S
  <2>1. p \in Nat /\ q \in Nat OBVIOUS
  <2>2. ~(q < p) BY <1>2, <1>3, <2>1, Zenon
  <2>. QED BY <2>1, <2>2
<1>. QED BY <1>4

\* The successor is one of the candidates (sortedPlayerIDs()[0]).
LEMMA FirstIsOne ==
    ASSUME NEW S \in SUBSET Ids, S # {}
    PROVE  First(S) \in S
  BY HasLeast, RoomAssumption DEF First

\* A partial map is a function on part of its domain.
LEMMA PartialMapDef ==
    ASSUME NEW D, NEW R, NEW m
    PROVE  m \in PartialMaps(D, R) <=> DOMAIN m \subseteq D /\ m \in [DOMAIN m -> R]
  BY DEF PartialMaps

LEMMA EmptyIsPartial ==
    ASSUME NEW D, NEW R
    PROVE  Empty \in PartialMaps(D, R)
  BY PartialMapDef DEF Empty

LEMMA PutIsPartial ==
    ASSUME NEW D, NEW R, NEW m \in PartialMaps(D, R), NEW k \in D, NEW v \in R
    PROVE  Put(m, k, v) \in PartialMaps(D, R)
  BY PartialMapDef DEF Put

LEMMA CompleteIsPartial ==
    ASSUME NEW D, NEW R, NEW m \in PartialMaps(D, R), NEW who \in SUBSET D, None \in R
    PROVE  Complete(m, who) \in PartialMaps(D, R)
  BY PartialMapDef DEF Complete

LEMMA PruneIsPartial ==
    ASSUME NEW D, NEW R, NEW m \in PartialMaps(D, R), NEW living, None \in R
    PROVE  Prune(m, living) \in PartialMaps(D, R)
  BY PartialMapDef DEF Prune
---------------------------------------------------------------------------
(* Types.  Leaving the lobby takes a seat and its readiness, but not its   *)
(* role, ballot or investigations: that the lobby has none of these is     *)
(* part of what must be shown.                                             *)

Typed == RoomTypeOK /\ CleanLobby

LEMMA InitTyped ==
    ASSUME Init
    PROVE  Typed
  BY RoomAssumption, EmptyIsPartial
     DEF Init, Typed, RoomTypeOK, CleanLobby, InGame, TimedPhases, Phases, Seated, Empty

LEMMA EnsureConnectedOwnerType ==
    ASSUME NEW own \in Ids \cup {None}, NEW seated \in SUBSET Ids, NEW online
    PROVE  EnsureConnectedOwner(own, seated, online) \in Ids \cup {None}
  BY FirstIsOne DEF EnsureConnectedOwner

USE DEF phaseVars, memberVars, adminVars, nightVars, gameVars

LEMMA JoinTyped ==
    ASSUME Typed, NEW p \in Ids, NEW s \in BOOLEAN, Join(p, s)
    PROVE  Typed'
<1>1. CASE spectators' = spectators \cup {p} /\ UNCHANGED <<players, owner, alive>>
  BY <1>1 DEF Typed, RoomTypeOK, CleanLobby, InGame, Seated, Join
<1>2. CASE /\ phase = "WAITING" /\ players' = players \cup {p}
           /\ alive' = alive \cup {p} /\ owner' \in {p, owner}
           /\ UNCHANGED spectators
  BY <1>2, EmptyIsPartial
     DEF Typed, RoomTypeOK, CleanLobby, InGame, TimedPhases, Seated, Join
<1>. QED BY <1>1, <1>2 DEF Join

LEMMA ReconnectTyped ==
    ASSUME Typed, NEW p \in Ids, Reconnect(p)
    PROVE  Typed'
  BY EnsureConnectedOwnerType DEF Typed, RoomTypeOK, CleanLobby, InGame, Seated, Reconnect

LEMMA DisconnectTyped ==
    ASSUME Typed, NEW p \in Ids, Disconnect(p)
    PROVE  Typed'
  BY EnsureConnectedOwnerType DEF Typed, RoomTypeOK, CleanLobby, InGame, Seated, Disconnect

LEMMA LeaveTyped ==
    ASSUME Typed, NEW p \in Ids, Leave(p)
    PROVE  Typed'
<1>1. CASE LeaveWaiting(p)
  BY <1>1, FirstIsOne, EmptyIsPartial
     DEF Typed, RoomTypeOK, CleanLobby, InGame, TimedPhases, Seated, LeaveWaiting, Remove, NextOwner
<1>2. CASE Disconnect(p) BY <1>2, DisconnectTyped
<1>. QED BY <1>1, <1>2 DEF Leave

LEMMA AdminTyped ==
    ASSUME Typed, NEW p \in Ids,
           \/ \E b \in BOOLEAN : Ready(p, b) \/ Presence(p, b) \/ SetRoomLocked(p, b)
           \/ \E t \in Ids : TransferOwner(p, t)
           \/ \E n \in MinPlayersToStart .. MaxPlayersAllowed : SetPlayerLimit(p, n)
           \/ \E s \in Settings : SetGameSettings(p, s) \/ SetGamePreset(p, s)
    PROVE  Typed'
<1>. USE DEF Typed, RoomTypeOK, CleanLobby, InGame, Seated
<1>1. CASE \E b \in BOOLEAN : Ready(p, b) BY <1>1 DEF Ready
<1>2. CASE \E b \in BOOLEAN : Presence(p, b) BY <1>2 DEF Presence
<1>3. CASE \E b \in BOOLEAN : SetRoomLocked(p, b) BY <1>3 DEF SetRoomLocked
<1>4. CASE \E t \in Ids : TransferOwner(p, t) BY <1>4 DEF TransferOwner
<1>5. CASE \E n \in MinPlayersToStart .. MaxPlayersAllowed : SetPlayerLimit(p, n)
  BY <1>5 DEF SetPlayerLimit
<1>6. CASE \E s \in Settings : SetGameSettings(p, s) \/ SetGamePreset(p, s)
  BY <1>6 DEF SetGamePreset, SetGameSettings, ClearReadiness
<1>. QED BY <1>1, <1>2, <1>3, <1>4, <1>5, <1>6

LEMMA KickTyped ==
    ASSUME Typed, NEW p \in Ids, NEW t \in Ids, KickParticipant(p, t)
    PROVE  Typed'
<1>. USE DEF Typed, RoomTypeOK, CleanLobby, InGame, Seated, KickParticipant, Remove
<1>1. nightActions' \in PartialMaps(players', Ids \cup {None}) BY PartialMapDef
<1>2. votes' \in PartialMaps(players', Ids \cup {None}) BY PartialMapDef
<1>3. CASE phase = "WAITING" BY <1>1, <1>2, <1>3 DEF Empty, TimedPhases
<1>4. CASE phase = "FINISHED" BY <1>1, <1>2, <1>4 DEF TimedPhases
<1>. QED BY <1>3, <1>4 DEF Open

\* Every deal gives every seat a role.
LEMMA DealType ==
    ASSUME NEW P, NEW enabled \in SUBSET Specials, NEW d \in Deals(P, enabled)
    PROVE  d \in [P -> Roles]
  BY DEF Deals, Dealt, Roles

LEMMA StartTyped ==
    ASSUME Typed, NEW p \in Ids, NEW deal \in Deals(players, settings.specials),
           StartGame(p, deal)
    PROVE  Typed'
<1>1. settings.specials \in SUBSET Specials
  BY RoomAssumption DEF Typed, RoomTypeOK, ValidSettings
<1>2. deal \in [players -> Roles] BY <1>1, DealType
<1>. QED
  BY <1>2, EmptyIsPartial
     DEF Typed, RoomTypeOK, CleanLobby, InGame, TimedPhases, Phases, Seated, StartGame, EnterPhase

LEMMA ReturnTyped ==
    ASSUME Typed, NEW p \in Ids, ReturnToWaiting(p)
    PROVE  Typed'
<1>1. owner' \in Ids \cup {None}
  BY EnsureConnectedOwnerType DEF Typed, RoomTypeOK, ReturnToWaiting, Remove
<1>. QED
  BY <1>1, EmptyIsPartial
     DEF Typed, RoomTypeOK, CleanLobby, InGame, TimedPhases, Phases, Seated,
         ReturnToWaiting, Remove, EnterPhase, Empty

\* What every step of a match leaves alone.
SeatsStay == UNCHANGED <<memberVars, owner, adminVars, role>>

\* How a step of a match may end it or move it on.
LEMMA MovesOn ==
    ASSUME NEW living, Finish(living) \/ EnterPhase("DAY_DISCUSSION")
                       \/ EnterPhase("NIGHT") \/ EnterPhase("LAST_WORDS")
    PROVE  /\ phase' \in {"FINISHED", "DAY_DISCUSSION", "NIGHT", "LAST_WORDS"}
           /\ deadline' = IF phase' = "FINISHED" THEN "none" ELSE "pending"
  BY DEF Finish, EnterPhase, TimedPhases

LEMMA ResolveNightTyped ==
    ASSUME Typed, phase = "NIGHT", SeatsStay, UNCHANGED shooterUsed,
           NEW acts \in PartialMaps(players, Ids \cup {None}), ResolveNight(acts)
    PROVE  Typed'
<1>. USE DEF Typed, RoomTypeOK, CleanLobby, InGame, TimedPhases, Phases, Seated, SeatsStay
<1>1. alive' \subseteq players BY DEF ResolveNight
<1>2. Findings(acts, role, players, round)
         \subseteq [by : players, round : Nat, target : Ids, killer : BOOLEAN]
  <2>1. DOMAIN acts \subseteq players BY PartialMapDef
  <2>2. \A t \in players : IsKillerAligned(role[t]) \in BOOLEAN BY DEF IsKillerAligned
  <2>. QED BY <2>1, <2>2 DEF Findings
<1>3. votes' \in PartialMaps(players, Ids \cup {None})
  BY PruneIsPartial, EmptyIsPartial DEF ResolveNight
<1>4. /\ phase' \in {"FINISHED", "DAY_DISCUSSION"}
      /\ deadline' = IF phase' = "FINISHED" THEN "none" ELSE "pending"
      /\ result' \in {None, "VILLAGERS", "KILLERS"}
  BY DEF ResolveNight, Finish, EnterPhase, Winner
<1>5. nightActions' \in PartialMaps(players, Ids \cup {None})
  BY EmptyIsPartial DEF ResolveNight
<1>6. /\ investigations' \subseteq
             [by : players, round : Nat, target : Ids, killer : BOOLEAN]
      /\ UNCHANGED <<round, lastWords>>
  BY <1>2 DEF ResolveNight
<1>. QED BY <1>1, <1>3, <1>4, <1>5, <1>6

LEMMA NightStepTyped ==
    ASSUME Typed, NEW p \in Ids,
           (\E t \in Ids : NightAction(p, t)) \/ NightPass(p)
    PROVE  Typed'
<1>1. PICK v \in Ids \cup {None} :
         phase = "NIGHT" /\ p \in alive /\ SubmitNight(Put(nightActions, p, v))
  BY DEF NightAction, NightPass, NightActors
<1>2. SeatsStay /\ UNCHANGED shooterUsed
  BY DEF NightAction, NightPass, SeatsStay
<1>3. Put(nightActions, p, v) \in PartialMaps(players, Ids \cup {None})
  BY <1>1, PutIsPartial DEF Typed, RoomTypeOK
<1>4. CASE ResolveNight(Put(nightActions, p, v))
  BY <1>1, <1>2, <1>3, <1>4, ResolveNightTyped
<1>5. CASE /\ nightActions' = Put(nightActions, p, v)
           /\ UNCHANGED <<phaseVars, alive, investigations, votes, lastWords, result>>
  BY <1>1, <1>2, <1>3, <1>5 DEF Typed, RoomTypeOK, CleanLobby, InGame, Seated, SeatsStay
<1>. QED BY <1>1, <1>4, <1>5 DEF SubmitNight

\* The part of the state that a ballot or a speech may touch is well typed, and
\* the day's end is too.
LEMMA AdvanceType ==
    ASSUME Typed, NEW living, AdvanceAfterDay(living)
    PROVE  /\ phase' \in {"FINISHED", "NIGHT"}
           /\ deadline' = IF phase' = "FINISHED" THEN "none" ELSE "pending"
           /\ round' \in Nat
           /\ nightActions' \in PartialMaps(players, Ids \cup {None})
           /\ result' \in {None, "VILLAGERS", "KILLERS"}
  BY EmptyIsPartial
     DEF Typed, RoomTypeOK, AdvanceAfterDay, Finish, EnterPhase, Winner, TimedPhases

LEMMA ResolveVoteTyped ==
    ASSUME Typed, InGame, SeatsStay, UNCHANGED investigations,
           shooterUsed' \in SUBSET players,
           NEW ballots \in PartialMaps(players, Ids \cup {None}),
           NEW living \in SUBSET players, ResolveVote(ballots, living)
    PROVE  Typed'
<1>. USE DEF Typed, RoomTypeOK, CleanLobby, InGame, TimedPhases, Phases, Seated, SeatsStay
<1>1. votes' = Empty /\ Empty \in PartialMaps(players, Ids \cup {None})
  BY EmptyIsPartial DEF ResolveVote
<1>2. ASSUME NEW t \in Leaders(Prune(ballots, living)),
             alive' = living \ {t}, lastWords' = t, EnterPhase("LAST_WORDS"),
             UNCHANGED <<round, nightActions, result>>
      PROVE  Typed'
  <2>1. t \in Ids
    BY PruneIsPartial, PartialMapDef DEF Leaders
  <2>. QED BY <1>1, <1>2, <2>1 DEF EnterPhase
<1>3. ASSUME alive' = living, AdvanceAfterDay(living), UNCHANGED lastWords
      PROVE  Typed'
  BY <1>1, <1>3, AdvanceType
<1>. QED BY <1>2, <1>3 DEF ResolveVote

LEMMA StartVotingTyped ==
    ASSUME Typed, InGame, StartVoting
    PROVE  Typed'
  BY EmptyIsPartial
     DEF Typed, RoomTypeOK, CleanLobby, InGame, TimedPhases, Phases, Seated, StartVoting, EnterPhase

LEMMA VoteTyped ==
    ASSUME Typed, NEW p \in Ids, NEW t \in Ids \cup {None}, Vote(p, t)
    PROVE  Typed'
<1>. DEFINE ballots == Put(votes, p, t)
<1>1. InGame /\ SeatsStay /\ UNCHANGED <<shooterUsed, investigations>>
  BY DEF Vote, InGame, TimedPhases, SeatsStay
<1>2. ballots \in PartialMaps(players, Ids \cup {None})
  BY PutIsPartial DEF Typed, RoomTypeOK, Vote
<1>3. CASE ResolveVote(ballots, alive)
  BY <1>1, <1>2, <1>3, ResolveVoteTyped DEF Typed, RoomTypeOK
<1>4. CASE /\ votes' = ballots
           /\ UNCHANGED <<phaseVars, alive, nightActions, lastWords, result>>
  BY <1>1, <1>2, <1>4 DEF Typed, RoomTypeOK, CleanLobby, InGame, TimedPhases, Seated, SeatsStay
<1>. QED BY <1>3, <1>4 DEF Vote

LEMMA ShootTyped ==
    ASSUME Typed, NEW p \in Ids, NEW t \in Ids, Shoot(p, t)
    PROVE  Typed'
<1>. DEFINE living  == alive \ {t}
            ballots == Prune(votes, living)
<1>1. InGame /\ SeatsStay /\ UNCHANGED investigations
  BY DEF Shoot, InGame, TimedPhases, DayPhases, SeatsStay
<1>2. ballots \in PartialMaps(players, Ids \cup {None})
  BY PruneIsPartial DEF Typed, RoomTypeOK
<1>3. shooterUsed' \in SUBSET players /\ living \in SUBSET players
  BY DEF Typed, RoomTypeOK, Shoot
<1>4. CASE ResolveVote(ballots, living)
  BY <1>1, <1>2, <1>3, <1>4, ResolveVoteTyped
<1>5. CASE /\ Finish(living) /\ alive' = living /\ votes' = ballots
           /\ UNCHANGED <<round, nightActions, lastWords>>
  BY <1>1, <1>2, <1>3, <1>5
     DEF Typed, RoomTypeOK, CleanLobby, InGame, TimedPhases, Phases, Seated, SeatsStay,
         Finish, EnterPhase, Winner
<1>6. CASE /\ alive' = living /\ votes' = ballots
           /\ UNCHANGED <<phaseVars, nightActions, lastWords, result>>
  BY <1>1, <1>2, <1>3, <1>6
     DEF Typed, RoomTypeOK, CleanLobby, InGame, TimedPhases, Seated, SeatsStay
<1>. QED BY <1>4, <1>5, <1>6 DEF Shoot

LEMMA TimeoutTyped ==
    ASSUME Typed, PhaseTimeout
    PROVE  Typed'
<1>1. CASE NightTimeout
  <2>1. Complete(nightActions, NightActors) \in PartialMaps(players, Ids \cup {None})
    BY CompleteIsPartial DEF Typed, RoomTypeOK, NightActors
  <2>. QED BY <1>1, <2>1, ResolveNightTyped DEF NightTimeout, SeatsStay
<1>2. CASE phase = "DAY_DISCUSSION" /\ StartVoting
  BY <1>2, StartVotingTyped DEF InGame, TimedPhases
<1>3. CASE VotingTimeout
  <2>1. Complete(votes, alive) \in PartialMaps(players, Ids \cup {None})
    BY CompleteIsPartial DEF Typed, RoomTypeOK
  <2>. QED BY <1>3, <2>1, ResolveVoteTyped
           DEF VotingTimeout, SeatsStay, Typed, RoomTypeOK, InGame, TimedPhases
<1>4. CASE LastWordsTimeout
  <2>1. AdvanceAfterDay(alive) BY <1>4 DEF LastWordsTimeout
  <2>. QED BY <1>4, <2>1, AdvanceType
           DEF LastWordsTimeout, Typed, RoomTypeOK, CleanLobby, InGame, TimedPhases, Phases, Seated
<1>. QED BY <1>1, <1>2, <1>3, <1>4 DEF PhaseTimeout

LEMMA NextTyped ==
    ASSUME Typed, [OpenNext]_vars
    PROVE  Typed'
<1>1. ASSUME NEW p \in Ids, ClientEvent(p) PROVE Typed'
  <2>1. CASE \E t \in Ids : KickParticipant(p, t) BY <2>1, KickTyped
  <2>2. CASE \E deal \in Deals(players, settings.specials) : StartGame(p, deal)
    BY <2>2, StartTyped
  <2>3. CASE ReturnToWaiting(p) BY <2>3, ReturnTyped
  <2>4. CASE (\E t \in Ids : NightAction(p, t)) \/ NightPass(p) BY <2>4, NightStepTyped
  <2>5. CASE StartVote(p)
    BY <2>5, StartVotingTyped DEF StartVote, InGame, TimedPhases
  <2>6. CASE \E t \in Ids : Shoot(p, t) BY <2>6, ShootTyped
  <2>7. CASE \E t \in Ids \cup {None} : Vote(p, t) BY <2>7, VoteTyped
  <2>. QED
    BY <1>1, AdminTyped, <2>1, <2>2, <2>3, <2>4, <2>5, <2>6, <2>7 DEF ClientEvent, RoomEvent
<1>2. ASSUME NEW p \in Ids, Arrival(p) \/ Departure(p) PROVE Typed'
  BY <1>2, JoinTyped, ReconnectTyped, LeaveTyped, DisconnectTyped DEF Arrival, Departure
<1>3. CASE DeadlinePasses
  BY <1>3 DEF DeadlinePasses, Typed, RoomTypeOK, CleanLobby, InGame, Seated
<1>4. CASE PhaseTimeout BY <1>4, TimeoutTyped
<1>5. CASE UNCHANGED vars
  BY <1>5 DEF vars, Typed, RoomTypeOK, CleanLobby, InGame, Seated
<1>. QED BY <1>1, <1>2, <1>3, <1>4, <1>5 DEF OpenNext

\* Whatever anybody sends, at any time, the variables have their types, and the
\* lobby holds nothing of the last match: no handler of state.go leaves either broken.
THEOREM TypesHold == OpenSpec => [](RoomTypeOK /\ CleanLobby)
<1>1. Init => Typed BY InitTyped
<1>2. Typed /\ [OpenNext]_vars => Typed' BY NextTyped
<1>3. Typed => RoomTypeOK /\ CleanLobby BY DEF Typed
<1>. QED BY <1>1, <1>2, <1>3, PTL DEF OpenSpec

LEMMA NextIsOpen ==
    ASSUME Typed, [Next]_vars
    PROVE  [OpenNext]_vars
  BY DEF Typed, RoomTypeOK, Seated, Next, OpenNext

\* A room whose senders are all shown online is an open room: what is proved of the
\* open room below holds of both.
THEOREM RoomIsOpen == Spec => OpenSpec
<1>1. Init => Typed BY InitTyped
<1>2. Typed /\ [OpenNext]_vars => Typed' BY NextTyped
<1>3. Typed /\ [Next]_vars => [OpenNext]_vars BY NextIsOpen
<1>. QED BY <1>1, <1>2, <1>3, PTL DEF Spec, OpenSpec

\* To be away one must be there.
LEMMA NextAway ==
    ASSUME Typed, afk \subseteq connected, [Next]_vars
    PROVE  (afk \subseteq connected)'
<1>1. ASSUME NEW p \in connected, ClientEvent(p) PROVE (afk \subseteq connected)'
  <2>1. CASE \E b \in BOOLEAN : Ready(p, b) \/ SetRoomLocked(p, b)
    BY <2>1 DEF Ready, SetRoomLocked
  <2>2. CASE \E b \in BOOLEAN : Presence(p, b) BY <2>2 DEF Presence
  <2>3. CASE \E t \in Ids : TransferOwner(p, t) BY <2>3 DEF TransferOwner
  <2>4. CASE \E t \in Ids : KickParticipant(p, t) BY <2>4 DEF KickParticipant, Remove
  <2>5. CASE \E n \in MinPlayersToStart .. MaxPlayersAllowed : SetPlayerLimit(p, n)
    BY <2>5 DEF SetPlayerLimit
  <2>6. CASE \E s \in Settings : SetGameSettings(p, s) \/ SetGamePreset(p, s)
    BY <2>6 DEF SetGameSettings, SetGamePreset
  <2>7. CASE \E deal \in Deals(players, settings.specials) : StartGame(p, deal)
    BY <2>7 DEF StartGame
  <2>8. CASE ReturnToWaiting(p) BY <2>8 DEF ReturnToWaiting, Remove
  <2>9. CASE NightPass(p) \/ StartVote(p) BY <2>9 DEF NightPass, StartVote, StartVoting
  <2>10. CASE \E t \in Ids : NightAction(p, t) \/ Shoot(p, t)
    BY <2>10 DEF NightAction, Shoot
  <2>11. CASE \E t \in Ids \cup {None} : Vote(p, t) BY <2>11 DEF Vote
  <2>. QED BY <1>1, <2>1, <2>2, <2>3, <2>4, <2>5, <2>6, <2>7, <2>8, <2>9, <2>10, <2>11
           DEF ClientEvent, RoomEvent
<1>2. ASSUME NEW p, Arrival(p) \/ Departure(p) PROVE (afk \subseteq connected)'
  BY <1>2 DEF Arrival, Departure, Join, Reconnect, Leave, LeaveWaiting, Disconnect, Remove
<1>3. CASE DeadlinePasses BY <1>3 DEF DeadlinePasses
<1>4. CASE PhaseTimeout
  BY <1>4 DEF PhaseTimeout, NightTimeout, StartVoting, VotingTimeout, LastWordsTimeout
<1>5. CASE UNCHANGED vars BY <1>5 DEF vars
<1>. QED BY <1>1, <1>2, <1>3, <1>4, <1>5 DEF Next

\* As long as events come only from who is shown online, nobody offline is away.
THEOREM TypeCorrect == Spec => [](TypeOK /\ CleanLobby)
<1>1. Init => afk \subseteq connected BY DEF Init
<1>2. Typed /\ afk \subseteq connected /\ [Next]_vars => (afk \subseteq connected)'
  BY NextAway
<1>3. RoomTypeOK /\ CleanLobby => Typed BY DEF Typed
<1>4. RoomTypeOK /\ afk \subseteq connected => TypeOK BY DEF TypeOK
<1>. QED BY <1>1, <1>2, <1>3, <1>4, RoomIsOpen, TypesHold, PTL DEF Spec

---------------------------------------------------------------------------
(* Seats, roles and the owner                                              *)

\* Only StartGame turns an open room into one where a match is on.
LEMMA OnlyStartOpensMatch ==
    ASSUME Typed, OpenNext, ~InGame, InGame'
    PROVE  \E p \in Ids : \E deal \in Deals(players, settings.specials) :
              StartGame(p, deal)
<1>1. phase # phase' BY DEF InGame
<1>2. phase \in {"WAITING", "FINISHED"} BY DEF Typed, RoomTypeOK, Phases, InGame
<1>3. ASSUME NEW p \in Ids, ClientEvent(p)
      PROVE  \E deal \in Deals(players, settings.specials) : StartGame(p, deal)
  <2>. USE <1>1, <1>2
  <2>1. ~\E b \in BOOLEAN : Ready(p, b) \/ Presence(p, b) \/ SetRoomLocked(p, b)
    BY DEF Ready, Presence, SetRoomLocked
  <2>2. ~\E t \in Ids : TransferOwner(p, t) \/ KickParticipant(p, t)
    BY DEF TransferOwner, KickParticipant
  <2>3. ~\E n \in MinPlayersToStart .. MaxPlayersAllowed : SetPlayerLimit(p, n)
    BY DEF SetPlayerLimit
  <2>4. ~\E s \in Settings : SetGameSettings(p, s) \/ SetGamePreset(p, s)
    BY DEF SetGameSettings, SetGamePreset
  <2>5. ~ReturnToWaiting(p) BY DEF ReturnToWaiting, EnterPhase, InGame, TimedPhases
  <2>6. ~NightPass(p) /\ ~StartVote(p) BY DEF NightPass, StartVote
  <2>7. ~\E t \in Ids : NightAction(p, t) \/ Shoot(p, t)
    BY DEF NightAction, Shoot, DayPhases
  <2>8. ~\E t \in Ids \cup {None} : Vote(p, t) BY DEF Vote
  <2>. QED BY <1>3, <2>1, <2>2, <2>3, <2>4, <2>5, <2>6, <2>7, <2>8 DEF ClientEvent, RoomEvent
<1>4. ASSUME NEW p \in Ids PROVE ~(Arrival(p) \/ Departure(p))
  BY <1>1 DEF Arrival, Departure, Join, Reconnect, Leave, LeaveWaiting, Disconnect
<1>5. ~DeadlinePasses BY <1>1 DEF DeadlinePasses
<1>6. ~PhaseTimeout
  BY <1>2 DEF PhaseTimeout, NightTimeout, VotingTimeout, LastWordsTimeout
<1>. QED BY <1>3, <1>4, <1>5, <1>6 DEF OpenNext

LEMMA NextKeepsSeats ==
    ASSUME Typed, [OpenNext]_vars, InGame, phase' # "WAITING"
    PROVE  players' = players /\ role' = role
<1>1. phase \notin {"WAITING", "FINISHED"} BY DEF InGame, TimedPhases
<1>2. ASSUME NEW p \in Ids, ClientEvent(p)
      PROVE  players' = players /\ role' = role
  <2>. USE <1>1
  <2>1. CASE \E b \in BOOLEAN : Ready(p, b) \/ Presence(p, b) \/ SetRoomLocked(p, b)
    BY <2>1 DEF Ready, Presence, SetRoomLocked
  <2>2. CASE \E t \in Ids : TransferOwner(p, t) \/ KickParticipant(p, t)
    BY <2>2 DEF TransferOwner, KickParticipant, Open
  <2>3. ~\E n \in MinPlayersToStart .. MaxPlayersAllowed : SetPlayerLimit(p, n)
    BY DEF SetPlayerLimit, Open
  <2>4. ~\E s \in Settings : SetGameSettings(p, s) \/ SetGamePreset(p, s)
    BY DEF SetGameSettings, SetGamePreset, Open
  <2>5. ~\E deal \in Deals(players, settings.specials) : StartGame(p, deal)
    BY DEF StartGame
  <2>6. ~ReturnToWaiting(p) BY DEF ReturnToWaiting, EnterPhase
  <2>7. CASE NightPass(p) \/ StartVote(p) BY <2>7 DEF NightPass, StartVote, StartVoting
  <2>8. CASE \E t \in Ids : NightAction(p, t) \/ Shoot(p, t)
    BY <2>8 DEF NightAction, Shoot
  <2>9. CASE \E t \in Ids \cup {None} : Vote(p, t) BY <2>9 DEF Vote
  <2>. QED
    BY <1>2, <2>1, <2>2, <2>3, <2>4, <2>5, <2>6, <2>7, <2>8, <2>9 DEF ClientEvent, RoomEvent
<1>3. ASSUME NEW p \in Ids, Arrival(p) \/ Departure(p)
      PROVE  players' = players /\ role' = role
  BY <1>1, <1>3 DEF Arrival, Departure, Join, Reconnect, Leave, LeaveWaiting, Disconnect
<1>4. CASE DeadlinePasses BY <1>4 DEF DeadlinePasses
<1>5. CASE PhaseTimeout
  BY <1>5 DEF PhaseTimeout, NightTimeout, StartVoting, VotingTimeout, LastWordsTimeout
<1>6. CASE UNCHANGED vars BY <1>6 DEF vars
<1>. QED BY <1>2, <1>3, <1>4, <1>5, <1>6 DEF OpenNext

\* During a match no one gains or loses a seat or a role, whoever leaves,
\* disconnects or comes back (applyLeave, applyJoin, applyKickParticipant).
THEOREM SeatsAreFixed == OpenSpec => SeatsFixed
<1>1. Typed /\ [OpenNext]_vars =>
         [InGame /\ phase' # "WAITING" => players' = players /\ role' = role]_vars
  BY NextKeepsSeats
<1>2. Init => Typed BY InitTyped
<1>3. Typed /\ [OpenNext]_vars => Typed' BY NextTyped
<1>. QED BY <1>1, <1>2, <1>3, PTL DEF OpenSpec, SeatsFixed

\* Every client's event leaves a room with players one of them as owner, but a
\* return to a lobby that nobody enters.
LEMMA EventKeepsOwner ==
    ASSUME Typed, OwnerSeated, NEW p \in Ids, ClientEvent(p),
           ReturnToWaiting(p) => players \cap connected # {}
    PROVE  OwnerSeated'
<1>. USE DEF OwnerSeated
<1>1. None \notin Ids /\ players \subseteq Ids /\ players \cap spectators = {}
  BY RoomAssumption DEF Typed, RoomTypeOK
<1>2. CASE \E b \in BOOLEAN : Ready(p, b) \/ Presence(p, b) \/ SetRoomLocked(p, b)
  BY <1>2 DEF Ready, Presence, SetRoomLocked
<1>3. CASE \E t \in Ids : TransferOwner(p, t) BY <1>3 DEF TransferOwner
<1>4. CASE \E t \in Ids : KickParticipant(p, t) BY <1>1, <1>4 DEF KickParticipant, Remove
<1>5. CASE \E n \in MinPlayersToStart .. MaxPlayersAllowed : SetPlayerLimit(p, n)
  BY <1>5 DEF SetPlayerLimit
<1>6. CASE \E s \in Settings : SetGameSettings(p, s) \/ SetGamePreset(p, s)
  BY <1>6 DEF SetGameSettings, SetGamePreset
<1>7. CASE \E deal \in Deals(players, settings.specials) : StartGame(p, deal)
  BY <1>7 DEF StartGame
<1>8. CASE ReturnToWaiting(p)
  <2>1. players' = players \cap connected /\ players' # {} /\ players' \in SUBSET Ids
    BY <1>1, <1>8 DEF ReturnToWaiting, Remove
  <2>2. owner' = EnsureConnectedOwner(owner, players', connected)
    BY <1>8 DEF ReturnToWaiting
  <2>3. players' \cap connected = players' BY <2>1
  <2>. QED BY <2>1, <2>2, <2>3, FirstIsOne DEF EnsureConnectedOwner
<1>9. CASE NightPass(p) \/ StartVote(p) BY <1>9 DEF NightPass, StartVote, StartVoting
<1>10. CASE \E t \in Ids : NightAction(p, t) \/ Shoot(p, t)
  BY <1>10 DEF NightAction, Shoot
<1>11. CASE \E t \in Ids \cup {None} : Vote(p, t) BY <1>11 DEF Vote
<1>. QED BY <1>2, <1>3, <1>4, <1>5, <1>6, <1>7, <1>8, <1>9, <1>10, <1>11
         DEF ClientEvent, RoomEvent

LEMMA PassageKeepsOwner ==
    ASSUME Typed, OwnerSeated, NEW p \in Ids, Arrival(p) \/ Departure(p)
    PROVE  OwnerSeated'
<1>. USE DEF OwnerSeated
<1>1. None \notin Ids /\ players \subseteq Ids BY RoomAssumption DEF Typed, RoomTypeOK
<1>2. ASSUME NEW seated \in SUBSET Ids, NEW own \in seated, NEW online
      PROVE  EnsureConnectedOwner(own, seated, online) \in seated
  BY FirstIsOne DEF EnsureConnectedOwner
<1>3. CASE \E s \in BOOLEAN : Join(p, s) BY <1>1, <1>3 DEF Join
<1>4. CASE Reconnect(p) BY <1>1, <1>2, <1>4 DEF Reconnect
<1>5. CASE Disconnect(p) BY <1>1, <1>2, <1>5 DEF Disconnect
<1>6. CASE LeaveWaiting(p)
  BY <1>1, <1>6, FirstIsOne DEF LeaveWaiting, Remove, NextOwner
<1>. QED BY <1>3, <1>4, <1>5, <1>6 DEF Arrival, Departure, Leave

\* The clocks touch neither seats nor owner.
LEMMA ClockKeepsOwner ==
    ASSUME OwnerSeated, DeadlinePasses \/ PhaseTimeout \/ UNCHANGED vars
    PROVE  OwnerSeated'
<1>. USE DEF OwnerSeated
<1>1. CASE DeadlinePasses BY <1>1 DEF DeadlinePasses
<1>2. CASE PhaseTimeout
  BY <1>2 DEF PhaseTimeout, NightTimeout, StartVoting, VotingTimeout, LastWordsTimeout
<1>3. CASE UNCHANGED vars BY <1>3 DEF vars
<1>. QED BY <1>1, <1>2, <1>3

\* Whoever sends the events: a room with players keeps one of them as its owner,
\* unless it returns to a lobby that no player is shown online to enter.  This is
\* how far an offline owner can lose the room (applyReturnToWaiting).
THEOREM RoomKeepsOwner == OpenSpec => OwnerKept
<1>. DEFINE Kept == OwnerSeated /\ (phase = "WAITING" \/ players \cap connected # {})
                       => OwnerSeated'
<1>1. ASSUME Typed, OpenNext PROVE Kept
  <2>. SUFFICES ASSUME OwnerSeated, phase = "WAITING" \/ players \cap connected # {}
                PROVE  OwnerSeated'
    OBVIOUS
  <2>1. ASSUME NEW p \in Ids, ClientEvent(p) PROVE OwnerSeated'
    BY <1>1, <2>1, EventKeepsOwner DEF ReturnToWaiting
  <2>2. ASSUME NEW p \in Ids, Arrival(p) \/ Departure(p) PROVE OwnerSeated'
    BY <1>1, <2>2, PassageKeepsOwner
  <2>. QED BY <1>1, <2>1, <2>2, ClockKeepsOwner DEF OpenNext
<1>2. Typed /\ [OpenNext]_vars => [Kept]_vars BY <1>1
<1>3. Init => Typed BY InitTyped
<1>4. Typed /\ [OpenNext]_vars => Typed' BY NextTyped
<1>. QED BY <1>2, <1>3, <1>4, PTL DEF OpenSpec, OwnerKept

LEMMA NextOwnerSeated ==
    ASSUME Typed, OwnerSeated, [Next]_vars
    PROVE  OwnerSeated'
<1>1. connected \subseteq Ids /\ None \notin Ids
  BY RoomAssumption DEF Typed, RoomTypeOK, Seated
<1>2. ASSUME NEW p \in connected, ClientEvent(p) PROVE OwnerSeated'
  <2>1. ASSUME ReturnToWaiting(p) PROVE players \cap connected # {}
    BY <1>1, <2>1 DEF ReturnToWaiting, OwnerSeated
  <2>. QED BY <1>1, <1>2, <2>1, EventKeepsOwner
<1>3. ASSUME NEW p \in Ids, Arrival(p) \/ Departure(p) PROVE OwnerSeated'
  BY <1>3, PassageKeepsOwner
<1>. QED BY <1>1, <1>2, <1>3, ClockKeepsOwner DEF Next

\* As long as events come only from who is shown online, a room with players has one
\* of them as its owner, whatever joins, leaves, kicks and returns to the lobby have
\* happened (ownerID never dangles).
THEOREM OwnerIsSeated == Spec => []OwnerSeated
<1>1. Init => OwnerSeated BY DEF Init, OwnerSeated
<1>2. Typed /\ OwnerSeated /\ [Next]_vars => OwnerSeated' BY NextOwnerSeated
<1>3. RoomTypeOK /\ CleanLobby => Typed BY DEF Typed
<1>. QED BY <1>1, <1>2, <1>3, RoomIsOpen, TypesHold, PTL DEF Spec

---------------------------------------------------------------------------
(* The room's limits                                                       *)

\* Whatever only takes people away keeps the room within its limits.
LEMMA FewerFit ==
    ASSUME Typed, Typed', Capacity, players' \subseteq players, spectators' \subseteq spectators,
           settings'.minimum <= maxPlayers', maxPlayers' >= maxPlayers
    PROVE  Capacity'
<1>1. IsFiniteSet(players) /\ IsFiniteSet(spectators)
  BY RoomAssumption, FS_Subset DEF Typed, RoomTypeOK
<1>2. /\ Cardinality(players') <= Cardinality(players) /\ Cardinality(players') \in Nat
      /\ Cardinality(spectators') <= Cardinality(spectators) /\ Cardinality(spectators') \in Nat
      /\ Cardinality(players) \in Nat /\ Cardinality(spectators) \in Nat
  BY <1>1, FS_Subset, FS_CardinalityType
<1>3. maxPlayers \in Nat /\ maxPlayers' \in Nat /\ MaxSpectators \in Nat
  BY RoomAssumption DEF Typed, RoomTypeOK
<1>. QED BY <1>2, <1>3 DEF Capacity

LEMMA JoinFits ==
    ASSUME Typed, Typed', Capacity, NEW p \in Ids, NEW s \in BOOLEAN, Join(p, s)
    PROVE  Capacity'
<1>1. IsFiniteSet(players) /\ IsFiniteSet(spectators)
  BY RoomAssumption, FS_Subset DEF Typed, RoomTypeOK
<1>2. Cardinality(players) \in Nat /\ Cardinality(spectators) \in Nat
  BY <1>1, FS_CardinalityType
<1>3. /\ p \notin players => Cardinality(players \cup {p}) = Cardinality(players) + 1
      /\ p \notin spectators => Cardinality(spectators \cup {p}) = Cardinality(spectators) + 1
  <2>1. p \notin players => Cardinality(players \cup {p}) = Cardinality(players) + 1
    BY <1>1, FS_AddElement
  <2>2. p \notin spectators => Cardinality(spectators \cup {p}) = Cardinality(spectators) + 1
    BY <1>1, FS_AddElement
  <2>. QED BY <2>1, <2>2
<1>4. maxPlayers \in Nat /\ MaxSpectators \in Nat
  BY RoomAssumption DEF Typed, RoomTypeOK
<1>5. CASE s
  <2>1. /\ spectators' = spectators \cup {p} /\ p \notin spectators
        /\ Cardinality(spectators) < MaxSpectators
    BY <1>5 DEF Join
  <2>2. UNCHANGED <<players, maxPlayers, settings>> BY <1>5 DEF Join
  <2>. QED BY <2>1, <2>2, <1>2, <1>3, <1>4 DEF Capacity
<1>6. CASE ~s
  <2>1. /\ players' = players \cup {p} /\ p \notin players
        /\ Cardinality(players) < maxPlayers
    BY <1>6 DEF Join
  <2>2. UNCHANGED <<spectators, maxPlayers, settings>> BY <1>6 DEF Join
  <2>. QED BY <2>1, <2>2, <1>2, <1>3, <1>4 DEF Capacity
<1>. QED BY <1>5, <1>6

LEMMA NextFits ==
    ASSUME Typed, Typed', Capacity, [OpenNext]_vars
    PROVE  Capacity'
<1>1. ASSUME UNCHANGED <<players, spectators, maxPlayers, settings>> PROVE Capacity'
  BY <1>1 DEF Capacity
<1>2. ASSUME players' \subseteq players, spectators' \subseteq spectators,
             UNCHANGED <<maxPlayers, settings>>
      PROVE  Capacity'
  BY <1>2, FewerFit, RoomAssumption DEF Capacity, Typed, RoomTypeOK
<1>3. ASSUME NEW p \in Ids, ClientEvent(p) PROVE Capacity'
  <2>1. CASE \E b \in BOOLEAN : Ready(p, b) \/ Presence(p, b) \/ SetRoomLocked(p, b)
    BY <1>1, <2>1 DEF Ready, Presence, SetRoomLocked
  <2>2. CASE \E t \in Ids : TransferOwner(p, t) BY <1>1, <2>2 DEF TransferOwner
  <2>3. CASE \E t \in Ids : KickParticipant(p, t) BY <1>2, <2>3 DEF KickParticipant, Remove
  <2>4. CASE \E n \in MinPlayersToStart .. MaxPlayersAllowed : SetPlayerLimit(p, n)
    BY <2>4 DEF SetPlayerLimit, FitsRoom, Capacity
  <2>5. CASE \E s \in Settings : SetGameSettings(p, s) \/ SetGamePreset(p, s)
    BY <2>5 DEF SetGameSettings, SetGamePreset, Capacity
  <2>6. CASE \E deal \in Deals(players, settings.specials) : StartGame(p, deal)
    BY <1>1, <2>6 DEF StartGame
  <2>7. CASE ReturnToWaiting(p) BY <1>2, <2>7 DEF ReturnToWaiting, Remove
  <2>8. CASE NightPass(p) \/ StartVote(p) BY <1>1, <2>8 DEF NightPass, StartVote, StartVoting
  <2>9. CASE \E t \in Ids : NightAction(p, t) \/ Shoot(p, t)
    BY <1>1, <2>9 DEF NightAction, Shoot
  <2>10. CASE \E t \in Ids \cup {None} : Vote(p, t) BY <1>1, <2>10 DEF Vote
  <2>. QED
    BY <1>3, <2>1, <2>2, <2>3, <2>4, <2>5, <2>6, <2>7, <2>8, <2>9, <2>10 DEF ClientEvent, RoomEvent
<1>4. ASSUME NEW p \in Ids, Arrival(p) \/ Departure(p) PROVE Capacity'
  <2>1. CASE Reconnect(p) \/ Disconnect(p) BY <1>1, <2>1 DEF Reconnect, Disconnect
  <2>2. CASE LeaveWaiting(p) BY <1>2, <2>2 DEF LeaveWaiting, Remove
  <2>. QED BY <1>4, JoinFits, <2>1, <2>2 DEF Arrival, Departure, Leave
<1>5. CASE DeadlinePasses BY <1>1, <1>5 DEF DeadlinePasses
<1>6. CASE PhaseTimeout
  BY <1>1, <1>6 DEF PhaseTimeout, NightTimeout, StartVoting, VotingTimeout, LastWordsTimeout
<1>7. CASE UNCHANGED vars BY <1>1, <1>7 DEF vars
<1>. QED BY <1>3, <1>4, <1>5, <1>6, <1>7 DEF OpenNext

\* No sequence of joins, limit changes, settings and returns to the lobby overfills
\* a room, or leaves it settings that ask for more players than it can seat
\* (applyJoin, applySetPlayerLimit, applySetGameSettings).
THEOREM RoomKeepsWithinLimits == OpenSpec => []Capacity
<1>1. Init => Capacity
  BY RoomAssumption, FS_EmptySet DEF Init, Capacity
<1>2. Init => Typed BY InitTyped
<1>3. Typed /\ [OpenNext]_vars => Typed' BY NextTyped
<1>4. Typed /\ Typed' /\ Capacity /\ [OpenNext]_vars => Capacity' BY NextFits
<1>. QED BY <1>1, <1>2, <1>3, <1>4, PTL DEF OpenSpec

---------------------------------------------------------------------------
(* An owner who is there                                                   *)

LEMMA NextHasOnlineOwner ==
    ASSUME Typed, OwnerSeated, MatchHasOnlineOwner, [Next]_vars
    PROVE  MatchHasOnlineOwner'
<1>. USE DEF MatchHasOnlineOwner
<1>1. /\ players \subseteq Ids /\ players \cap spectators = {} /\ connected \subseteq Ids
      /\ owner \in IF players = {} THEN {None} ELSE players
  BY DEF Typed, RoomTypeOK, OwnerSeated, Seated
<1>2. ASSUME NEW own \in players, NEW online
      PROVE  players \cap online # {} =>
                EnsureConnectedOwner(own, players, online) \in online
  <2>1. players \cap online \in SUBSET Ids BY <1>1
  <2>. QED BY <2>1, FirstIsOne DEF EnsureConnectedOwner
<1>3. ASSUME NEW p \in connected, ClientEvent(p) PROVE MatchHasOnlineOwner'
  <2>1. CASE \E b \in BOOLEAN : Ready(p, b) \/ Presence(p, b) \/ SetRoomLocked(p, b)
    BY <2>1 DEF Ready, Presence, SetRoomLocked
  <2>2. CASE \E t \in Ids : TransferOwner(p, t) BY <2>2 DEF TransferOwner
  <2>3. CASE \E t \in Ids : KickParticipant(p, t) BY <2>3 DEF KickParticipant, Remove
  <2>4. CASE \E n \in MinPlayersToStart .. MaxPlayersAllowed : SetPlayerLimit(p, n)
    BY <2>4 DEF SetPlayerLimit
  <2>5. CASE \E s \in Settings : SetGameSettings(p, s) \/ SetGamePreset(p, s)
    BY <2>5 DEF SetGameSettings, SetGamePreset
  <2>6. CASE \E deal \in Deals(players, settings.specials) : StartGame(p, deal)
    BY <1>3, <2>6 DEF StartGame
  <2>7. CASE ReturnToWaiting(p) BY <2>7 DEF ReturnToWaiting, EnterPhase
  <2>8. CASE NightPass(p) \/ StartVote(p) BY <2>8 DEF NightPass, StartVote, StartVoting
  <2>9. CASE \E t \in Ids : NightAction(p, t) \/ Shoot(p, t)
    BY <2>9 DEF NightAction, Shoot, DayPhases
  <2>10. CASE \E t \in Ids \cup {None} : Vote(p, t) BY <2>10 DEF Vote
  <2>. QED
    BY <1>3, <2>1, <2>2, <2>3, <2>4, <2>5, <2>6, <2>7, <2>8, <2>9, <2>10 DEF ClientEvent, RoomEvent
<1>4. ASSUME NEW p \in Ids, Arrival(p) \/ Departure(p) PROVE MatchHasOnlineOwner'
  <2>1. CASE \E s \in BOOLEAN : Join(p, s) BY <1>1, <2>1 DEF Join
  <2>2. CASE Reconnect(p) BY <1>1, <1>2, <2>2 DEF Reconnect
  <2>3. CASE Disconnect(p) BY <1>1, <1>2, <2>3 DEF Disconnect
  <2>4. CASE LeaveWaiting(p) BY <2>4 DEF LeaveWaiting
  <2>. QED BY <1>4, <2>1, <2>2, <2>3, <2>4 DEF Arrival, Departure, Leave
<1>5. CASE DeadlinePasses BY <1>5 DEF DeadlinePasses
<1>6. CASE PhaseTimeout
  BY <1>6 DEF PhaseTimeout, NightTimeout, StartVoting, VotingTimeout, LastWordsTimeout
<1>7. CASE UNCHANGED vars BY <1>7 DEF vars
<1>. QED BY <1>1, <1>3, <1>4, <1>5, <1>6, <1>7 DEF Next

\* Outside the lobby, an owner who goes offline hands the room to somebody who is
\* there, if anybody is, and one who is there keeps it (ensureConnectedOwner).
THEOREM MatchKeepsOnlineOwner == Spec => []MatchHasOnlineOwner
<1>1. Init => MatchHasOnlineOwner BY DEF Init, MatchHasOnlineOwner
<1>2. Typed /\ OwnerSeated /\ MatchHasOnlineOwner /\ [Next]_vars => MatchHasOnlineOwner'
  BY NextHasOnlineOwner
<1>3. RoomTypeOK /\ CleanLobby => Typed BY DEF Typed
<1>. QED BY <1>1, <1>2, <1>3, RoomIsOpen, TypesHold, OwnerIsSeated, PTL DEF Spec

=============================================================================
