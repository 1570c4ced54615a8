---------------------------- MODULE MatchProofs ----------------------------
(***************************************************************************)
(* RoomState implements CouncilMatch, for every number of players, every   *)
(* settings and every interleaving of players and timer.                   *)
(***************************************************************************)
EXTENDS RoomProofs

---------------------------------------------------------------------------
(* The invariant: a match has one killer, and nobody speaks outside last   *)
(* words.  The first is what bounds a night to one victim.                 *)

USE DEF phaseVars, memberVars, adminVars, nightVars, gameVars

OneKiller == InGame => \E k \in players : {p \in players : role[p] = "KILLER"} = {k}
Quiet     == phase # "LAST_WORDS" => lastWords = None
MatchInv  == Typed /\ OneKiller /\ Quiet

\* Every deck of two or more seats holds exactly one killer (RoleDeck).
LEMMA DealHasOneKiller ==
    ASSUME NEW P, Cardinality(P) \in Nat, Cardinality(P) >= 2,
           NEW enabled \in SUBSET Specials, "KILLER" \in enabled,
           NEW d \in Deals(P, enabled)
    PROVE  \E k \in P : {p \in P : d[p] = "KILLER"} = {k}
<1>1. {q \in enabled : DeckRank[q] < DeckRank["KILLER"]} = {}
  BY DEF DeckRank, Specials
<1>2. "KILLER" \in Dealt(Cardinality(P), enabled)
  BY <1>1, FS_EmptySet DEF Dealt
<1>. QED BY <1>2 DEF Deals

LEMMA StartHasOneKiller ==
    ASSUME Typed, NEW p \in Ids, NEW deal \in Deals(players, settings.specials),
           StartGame(p, deal)
    PROVE  \E k \in players' : {q \in players' : role'[q] = "KILLER"} = {k}
<1>1. IsFiniteSet(players)
  BY RoomAssumption, FS_Subset DEF Typed, RoomTypeOK
<1>2. Cardinality(players) \in Nat BY <1>1, FS_CardinalityType
<1>3. /\ settings.specials \in SUBSET Specials /\ "KILLER" \in settings.specials
      /\ settings.minimum \in Nat /\ settings.minimum >= 2
  BY RoomAssumption DEF Typed, RoomTypeOK, ValidSettings
<1>4. Cardinality(players) >= 2 BY <1>2, <1>3 DEF StartGame
<1>5. players' = players /\ role' = deal BY DEF StartGame
<1>. QED BY <1>2, <1>3, <1>4, <1>5, DealHasOneKiller

\* lastWords is written by resolveVote alone, and cleared on the way out.
LEMMA NextQuiet ==
    ASSUME Typed, Quiet, [OpenNext]_vars
    PROVE  Quiet'
<1>. USE DEF Quiet
<1>1. ASSUME NEW acts, ResolveNight(acts), phase = "NIGHT" PROVE Quiet'
  BY <1>1 DEF ResolveNight
<1>2. ASSUME NEW b, NEW living, ResolveVote(b, living), phase # "LAST_WORDS" PROVE Quiet'
  BY <1>2 DEF ResolveVote, EnterPhase
<1>3. ASSUME NEW p \in Ids, ClientEvent(p) PROVE Quiet'
  <2>1. CASE \E b \in BOOLEAN : Ready(p, b) \/ Presence(p, b) \/ SetRoomLocked(p, b)
    BY <2>1 DEF Ready, Presence, SetRoomLocked
  <2>2. CASE \E t \in Ids : TransferOwner(p, t) \/ KickParticipant(p, t)
    BY <2>2 DEF TransferOwner, KickParticipant
  <2>3. CASE \E n \in MinPlayersToStart .. MaxPlayersAllowed : SetPlayerLimit(p, n)
    BY <2>3 DEF SetPlayerLimit
  <2>4. CASE \E s \in Settings : SetGameSettings(p, s) \/ SetGamePreset(p, s)
    BY <2>4 DEF SetGameSettings, SetGamePreset
  <2>5. CASE \E deal \in Deals(players, settings.specials) : StartGame(p, deal)
    BY <2>5 DEF StartGame
  <2>6. CASE ReturnToWaiting(p) BY <2>6 DEF ReturnToWaiting
  <2>7. CASE NightPass(p) BY <2>7, <1>1 DEF NightPass, SubmitNight
  <2>8. CASE StartVote(p) BY <2>8 DEF StartVote, StartVoting
  <2>9. CASE \E t \in Ids : NightAction(p, t) BY <2>9, <1>1 DEF NightAction, SubmitNight
  <2>10. CASE \E t \in Ids : Shoot(p, t) BY <2>10, <1>2 DEF Shoot, DayPhases
  <2>11. CASE \E t \in Ids \cup {None} : Vote(p, t) BY <2>11, <1>2 DEF Vote
  <2>. QED BY <1>3, <2>1, <2>2, <2>3, <2>4, <2>5, <2>6, <2>7, <2>8, <2>9, <2>10, <2>11
           DEF ClientEvent, RoomEvent
<1>4. ASSUME NEW p \in Ids, Arrival(p) \/ Departure(p) PROVE Quiet'
  BY <1>4 DEF Arrival, Departure, Join, Reconnect, Leave, LeaveWaiting, Disconnect
<1>5. CASE DeadlinePasses BY <1>5 DEF DeadlinePasses
<1>6. CASE PhaseTimeout
  BY <1>6, <1>1, <1>2
     DEF PhaseTimeout, NightTimeout, StartVoting, VotingTimeout, LastWordsTimeout
<1>7. CASE UNCHANGED vars BY <1>7 DEF vars
<1>. QED BY <1>3, <1>4, <1>5, <1>6, <1>7 DEF OpenNext

LEMMA NextMatchInv ==
    ASSUME MatchInv, [OpenNext]_vars
    PROVE  MatchInv'
<1>1. Typed' /\ Quiet' BY NextTyped, NextQuiet DEF MatchInv
<1>2. ASSUME InGame' PROVE \E k \in players' : {q \in players' : role'[q] = "KILLER"} = {k}
  <2>1. CASE InGame
    <3>1. phase' # "WAITING" BY <1>2 DEF InGame, TimedPhases
    <3>. QED BY <2>1, <3>1, NextKeepsSeats DEF MatchInv, OneKiller
  <2>2. CASE ~InGame
    <3>1. OpenNext BY <1>2, <2>2 DEF vars, InGame
    <3>. QED BY <1>2, <2>2, <3>1, OnlyStartOpensMatch, StartHasOneKiller DEF MatchInv
  <2>. QED BY <2>1, <2>2
<1>. QED BY <1>1, <1>2 DEF MatchInv, OneKiller

---------------------------------------------------------------------------
(* How the operators of the two specifications correspond                  *)

\* The instance counts as this module does.
LEMMA SameCardinality == \A S : Match!Cardinality(S) = Cardinality(S)
  BY Zenon DEF Match!Cardinality, Cardinality

\* checkWin decides what Settled and Verdict decide.
LEMMA DecidedIsSettled ==
    ASSUME InGame, NEW living \in SUBSET players
    PROVE  /\ Decided(living, role) <=> Match!Settled(living)
           /\ Winner(living, role) = Match!Verdict(living)
<1>. DEFINE killers == IF InGame THEN {p \in players : role[p] = "KILLER"} ELSE {}
<1>1. /\ Killers(living, role) = living \cap killers
      /\ living \ Killers(living, role) = living \ killers
  BY DEF Killers, IsKillerAligned
<1>2. Decided(living, role) <=> Match!Settled(living)
  BY <1>1, SameCardinality DEF Decided, Match!Settled
<1>3. Winner(living, role) = Match!Verdict(living)
  BY <1>1 DEF Winner, Match!Verdict
<1>. QED BY <1>2, <1>3

LEMMA FinishCloses ==
    ASSUME InGame, NEW living \in SUBSET players, Finish(living),
           lastWords' = None, UNCHANGED round
    PROVE  Match!CloseWith(living)
<1>1. phase' = "FINISHED" /\ ~InGame' BY DEF Finish, EnterPhase, InGame, TimedPhases
<1>. QED BY <1>1, DecidedIsSettled DEF Match!CloseWith, Finish

\* What goes on is seen as it is.
LEMMA GoesOn ==
    ASSUME InGame, NEW living \in SUBSET players, ~Decided(living, role),
           NEW ph \in TimedPhases, phase' = ph, alive' = living, lastWords' = None,
           UNCHANGED <<players, role, result>>
    PROVE  Match!GoOnWith(living, ph, round')
<1>1. InGame' BY DEF InGame
<1>. QED BY <1>1, DecidedIsSettled DEF Match!GoOnWith

LEMMA AdvanceMatches ==
    ASSUME InGame, NEW living \in SUBSET players, AdvanceAfterDay(living),
           alive' = living, lastWords' = None, UNCHANGED <<players, role>>
    PROVE  Match!CloseWith(living) \/ Match!GoOnWith(living, "NIGHT", round + 1)
<1>1. CASE Finish(living) /\ UNCHANGED round BY <1>1, FinishCloses
<1>2. CASE /\ ~Decided(living, role) /\ round' = round + 1
           /\ phase' = "NIGHT" /\ UNCHANGED result
  BY <1>2, GoesOn DEF TimedPhases
<1>. QED BY <1>1, <1>2 DEF AdvanceAfterDay, EnterPhase

LEMMA ResolveVoteMatches ==
    ASSUME InGame, Quiet, phase # "LAST_WORDS", NEW b, NEW living \in SUBSET players,
           ResolveVote(b, living), UNCHANGED <<players, role>>
    PROVE  Match!Verdicts(living)
<1>1. ASSUME NEW t \in Leaders(Prune(b, living)), alive' = living \ {t}, lastWords' = t,
             EnterPhase("LAST_WORDS"), UNCHANGED <<round, result>>
      PROVE  Match!Verdicts(living)
  <2>1. t \in living BY DEF Leaders, Prune
  <2>2. InGame' /\ phase' = "LAST_WORDS" BY <1>1 DEF EnterPhase, InGame, TimedPhases
  <2>. QED BY <1>1, <2>1, <2>2 DEF Match!Verdicts
<1>2. ASSUME alive' = living, AdvanceAfterDay(living), UNCHANGED lastWords
      PROVE  Match!Verdicts(living)
  BY <1>2, AdvanceMatches DEF Match!Verdicts, Quiet
<1>. QED BY <1>1, <1>2 DEF ResolveVote

---------------------------------------------------------------------------
(* Every step of the room is a step of the match, or none                  *)

USE DEF Match!CloseWith, Match!Verdicts

MatchStep == Match!MatchNext \/ UNCHANGED Match!matchVars

\* A step that moves neither the phase nor what a match is made of is none.
LEMMA NoStep ==
    ASSUME UNCHANGED <<phase, round, lastWords, result>>,
           InGame => UNCHANGED <<players, role, alive>>
    PROVE  UNCHANGED Match!matchVars
  BY DEF Match!matchVars, InGame

LEMMA NightMatches ==
    ASSUME MatchInv, phase = "NIGHT", UNCHANGED <<players, role>>,
           NEW acts, DOMAIN acts \subseteq players, ResolveNight(acts)
    PROVE  Match!NightEnds
<1>. DEFINE living == alive \ NightKilled(acts, role, alive)
<1>1. InGame /\ alive \subseteq players /\ lastWords = None
  BY DEF MatchInv, Typed, RoomTypeOK, Quiet, InGame, TimedPhases
<1>2. \A t, u \in NightKilled(acts, role, alive) : t = u
  <2>1. PICK k : \A q \in players : role[q] = "KILLER" => q = k
    BY <1>1 DEF MatchInv, OneKiller
  <2>2. \A t \in NightKilled(acts, role, alive) :
           \E q \in DOMAIN acts : role[q] = "KILLER" /\ t = acts[q]
    BY DEF NightKilled, Targets
  <2>. QED BY <2>1, <2>2
<1>3. living \in {alive} \cup {alive \ {v} : v \in alive}
  <2>1. CASE NightKilled(acts, role, alive) = {} BY <2>1
  <2>2. CASE NightKilled(acts, role, alive) # {}
    <3>1. PICK v \in NightKilled(acts, role, alive) : TRUE BY <2>2
    <3>2. NightKilled(acts, role, alive) = {v} BY <1>2, <3>1
    <3>3. v \in alive BY <3>1 DEF NightKilled
    <3>. QED BY <3>2, <3>3
  <2>. QED BY <2>1, <2>2
<1>4. CASE Finish(living)
  <2>1. Match!CloseWith(living) BY <1>1, <1>4, FinishCloses DEF ResolveNight
  <2>. QED BY <1>1, <1>3, <2>1 DEF Match!NightEnds
<1>5. CASE ~Decided(living, role) /\ EnterPhase("DAY_DISCUSSION") /\ UNCHANGED result
  <2>1. /\ phase' = "DAY_DISCUSSION" /\ alive' = living
        /\ lastWords' = None /\ UNCHANGED round
    BY <1>1, <1>5 DEF ResolveNight, EnterPhase
  <2>2. Match!GoOnWith(living, "DAY_DISCUSSION", round')
    BY <1>1, <1>5, <2>1, GoesOn DEF TimedPhases
  <2>. QED BY <1>1, <1>3, <2>1, <2>2 DEF Match!NightEnds
<1>. QED BY <1>4, <1>5 DEF ResolveNight

LEMMA NightStepMatches ==
    ASSUME MatchInv, NEW p \in Ids,
           (\E t \in Ids : NightAction(p, t)) \/ NightPass(p)
    PROVE  MatchStep
<1>1. PICK v \in Ids \cup {None} :
         phase = "NIGHT" /\ p \in alive /\ SubmitNight(Put(nightActions, p, v))
  BY DEF NightAction, NightPass, NightActors
<1>2. UNCHANGED <<players, role>> BY DEF NightAction, NightPass
<1>3. DOMAIN Put(nightActions, p, v) \subseteq players
  BY <1>1, PartialMapDef DEF Put, MatchInv, Typed, RoomTypeOK
<1>4. CASE ResolveNight(Put(nightActions, p, v))
  BY <1>1, <1>2, <1>3, <1>4, NightMatches DEF MatchStep, Match!MatchNext
<1>5. CASE UNCHANGED <<phaseVars, alive, lastWords, result>>
  BY <1>2, <1>5, NoStep DEF MatchStep
<1>. QED BY <1>1, <1>4, <1>5 DEF SubmitNight

LEMMA VotingOpensMatches ==
    ASSUME MatchInv, phase = "DAY_DISCUSSION", StartVoting
    PROVE  MatchStep
<1>1. InGame /\ InGame' /\ phase' = "DAY_VOTING"
      /\ UNCHANGED <<round, players, role, alive, lastWords, result>>
  BY DEF StartVoting, EnterPhase, InGame, TimedPhases
<1>2. Match!VotingOpens BY <1>1 DEF Match!VotingOpens
<1>. QED BY <1>2 DEF MatchStep, Match!MatchNext

LEMMA VoteMatches ==
    ASSUME MatchInv, NEW p \in Ids, NEW t \in Ids \cup {None}, Vote(p, t)
    PROVE  MatchStep
<1>1. InGame /\ phase = "DAY_VOTING" /\ UNCHANGED <<players, role>>
  BY DEF Vote, InGame, TimedPhases
<1>2. CASE ResolveVote(Put(votes, p, t), alive)
  <2>1. Match!Verdicts(alive)
    BY <1>1, <1>2, ResolveVoteMatches DEF MatchInv, Typed, RoomTypeOK
  <2>. QED BY <1>1, <2>1 DEF MatchStep, Match!MatchNext, Match!VotingEnds
<1>3. CASE UNCHANGED <<phaseVars, alive, lastWords, result>>
  BY <1>1, <1>3, NoStep DEF MatchStep
<1>. QED BY <1>2, <1>3 DEF Vote

LEMMA ShootMatches ==
    ASSUME MatchInv, NEW p \in Ids, NEW t \in Ids, Shoot(p, t)
    PROVE  MatchStep
<1>. DEFINE living == alive \ {t}
<1>1. /\ InGame /\ phase \in DayPhases /\ t \in alive /\ lastWords = None
      /\ UNCHANGED <<players, role>> /\ living \in SUBSET players
  BY DEF Shoot, InGame, TimedPhases, DayPhases, MatchInv, Typed, RoomTypeOK, Quiet
<1>2. CASE Finish(living) /\ UNCHANGED <<round, lastWords>>
  <2>1. Match!CloseWith(living) BY <1>1, <1>2, FinishCloses
  <2>. QED BY <1>1, <2>1 DEF MatchStep, Match!MatchNext, Match!Shot, DayPhases
<1>3. CASE ~Decided(living, role) /\ phase = "DAY_VOTING"
           /\ ResolveVote(Prune(votes, living), living)
  <2>1. Match!Verdicts(living) BY <1>1, <1>3, ResolveVoteMatches DEF MatchInv
  <2>2. ~Match!Settled(living) BY <1>1, <1>3, DecidedIsSettled
  <2>. QED BY <1>1, <1>3, <2>1, <2>2 DEF MatchStep, Match!MatchNext, Match!Shot
<1>4. CASE /\ ~Decided(living, role) /\ alive' = living
           /\ UNCHANGED <<phaseVars, lastWords, result>>
  <2>1. Match!GoOnWith(living, phase, round')
    BY <1>1, <1>4, GoesOn DEF DayPhases, TimedPhases
  <2>. QED BY <1>1, <1>4, <2>1 DEF MatchStep, Match!MatchNext, Match!Shot, DayPhases
<1>. QED BY <1>2, <1>3, <1>4 DEF Shoot

LEMMA TimeoutMatches ==
    ASSUME MatchInv, PhaseTimeout
    PROVE  MatchStep
<1>1. CASE NightTimeout
  <2>1. DOMAIN Complete(nightActions, NightActors) \subseteq players
    BY PartialMapDef DEF Complete, NightActors, MatchInv, Typed, RoomTypeOK
  <2>. QED BY <1>1, <2>1, NightMatches DEF NightTimeout, MatchStep, Match!MatchNext
<1>2. CASE phase = "DAY_DISCUSSION" /\ StartVoting BY <1>2, VotingOpensMatches
<1>3. CASE VotingTimeout
  <2>1. InGame /\ phase = "DAY_VOTING" BY <1>3 DEF VotingTimeout, InGame, TimedPhases
  <2>2. Match!Verdicts(alive)
    BY <1>3, <2>1, ResolveVoteMatches DEF VotingTimeout, MatchInv, Typed, RoomTypeOK
  <2>. QED BY <2>1, <2>2 DEF MatchStep, Match!MatchNext, Match!VotingEnds
<1>4. CASE LastWordsTimeout
  <2>1. InGame /\ phase = "LAST_WORDS" /\ alive \in SUBSET players
    BY <1>4 DEF LastWordsTimeout, InGame, TimedPhases, MatchInv, Typed, RoomTypeOK
  <2>2. Match!CloseWith(alive) \/ Match!GoOnWith(alive, "NIGHT", round + 1)
    BY <1>4, <2>1, AdvanceMatches DEF LastWordsTimeout
  <2>. QED BY <2>1, <2>2 DEF MatchStep, Match!MatchNext, Match!SpeechEnds
<1>. QED BY <1>1, <1>2, <1>3, <1>4 DEF PhaseTimeout

LEMMA StartMatches ==
    ASSUME MatchInv, NEW p \in Ids, NEW deal \in Deals(players, settings.specials),
           StartGame(p, deal)
    PROVE  MatchStep
<1>1. /\ ~InGame /\ InGame' /\ phase = "WAITING" /\ phase' = "NIGHT" /\ round' = 1
      /\ alive' = players /\ players' = players /\ players \in SUBSET Ids
      /\ lastWords = None /\ lastWords' = None /\ result = None /\ result' = None
  BY DEF StartGame, EnterPhase, InGame, TimedPhases, MatchInv, Typed, RoomTypeOK, CleanLobby
<1>2. \E k \in players' : {q \in players' : role'[q] = "KILLER"} = {k}
  BY StartHasOneKiller DEF MatchInv
<1>3. Match!Begin BY <1>1, <1>2 DEF Match!Begin
<1>. QED BY <1>3 DEF MatchStep, Match!MatchNext

LEMMA ReturnMatches ==
    ASSUME MatchInv, NEW p \in Ids, ReturnToWaiting(p)
    PROVE  MatchStep
<1>1. /\ phase # "WAITING" /\ phase' = "WAITING" /\ ~InGame' /\ round' = 0
      /\ lastWords' = None /\ result' = None
  BY DEF ReturnToWaiting, EnterPhase, InGame, TimedPhases
<1>2. Match!CallOff BY <1>1 DEF Match!CallOff
<1>. QED BY <1>2 DEF MatchStep, Match!MatchNext

LEMMA NextMatches ==
    ASSUME MatchInv, [OpenNext]_vars
    PROVE  MatchStep
<1>1. ASSUME NEW p \in Ids, ClientEvent(p) PROVE MatchStep
  <2>1. CASE \E b \in BOOLEAN : Ready(p, b) \/ Presence(p, b) \/ SetRoomLocked(p, b)
    BY <2>1, NoStep DEF Ready, Presence, SetRoomLocked, MatchStep
  <2>2. CASE \E t \in Ids : TransferOwner(p, t)
    BY <2>2, NoStep DEF TransferOwner, MatchStep
  <2>3. CASE \E t \in Ids : KickParticipant(p, t)
    BY <2>3, NoStep DEF KickParticipant, Open, InGame, TimedPhases, MatchStep
  <2>4. CASE \E n \in MinPlayersToStart .. MaxPlayersAllowed : SetPlayerLimit(p, n)
    BY <2>4, NoStep DEF SetPlayerLimit, MatchStep
  <2>5. CASE \E s \in Settings : SetGameSettings(p, s) \/ SetGamePreset(p, s)
    BY <2>5, NoStep DEF SetGameSettings, SetGamePreset, MatchStep
  <2>6. CASE \E deal \in Deals(players, settings.specials) : StartGame(p, deal)
    BY <2>6, StartMatches
  <2>7. CASE ReturnToWaiting(p) BY <2>7, ReturnMatches
  <2>8. CASE (\E t \in Ids : NightAction(p, t)) \/ NightPass(p) BY <2>8, NightStepMatches
  <2>9. CASE StartVote(p) BY <2>9, VotingOpensMatches DEF StartVote
  <2>10. CASE \E t \in Ids : Shoot(p, t) BY <2>10, ShootMatches
  <2>11. CASE \E t \in Ids \cup {None} : Vote(p, t) BY <2>11, VoteMatches
  <2>. QED
    BY <1>1, <2>1, <2>2, <2>3, <2>4, <2>5, <2>6, <2>7, <2>8, <2>9, <2>10, <2>11
       DEF ClientEvent, RoomEvent
<1>2. ASSUME NEW p \in Ids, Arrival(p) \/ Departure(p) PROVE MatchStep
  <2>1. CASE \E s \in BOOLEAN : Join(p, s)
    BY <2>1, NoStep DEF Join, InGame, TimedPhases, MatchStep
  <2>2. CASE Reconnect(p) BY <2>2, NoStep DEF Reconnect, MatchStep
  <2>3. CASE Disconnect(p) BY <2>3, NoStep DEF Disconnect, MatchStep
  <2>4. CASE LeaveWaiting(p)
    BY <2>4, NoStep DEF LeaveWaiting, InGame, TimedPhases, MatchStep
  <2>. QED BY <1>2, <2>1, <2>2, <2>3, <2>4 DEF Arrival, Departure, Leave
<1>3. CASE DeadlinePasses BY <1>3, NoStep DEF DeadlinePasses, MatchStep
<1>4. CASE PhaseTimeout BY <1>4, TimeoutMatches
<1>5. CASE UNCHANGED vars BY <1>5, NoStep DEF vars, MatchStep
<1>. QED BY <1>1, <1>2, <1>3, <1>4, <1>5 DEF OpenNext

LEMMA InitMatches ==
    ASSUME Init
    PROVE  MatchInv /\ Match!NoMatch
  BY InitTyped
     DEF Init, MatchInv, OneKiller, Quiet, Match!NoMatch, InGame, TimedPhases

\* Whatever players, owner and timer do, and in whatever order, a room plays a
\* CouncilMatch: its phases follow one another as promised, at most one player
\* dies in a night, the dead stay dead, and a match ends exactly when it is
\* decided and with the right winner (state.go as a whole).
THEOREM RoomPlaysMatch == OpenSpec => ImplementsMatch
<1>1. Init => MatchInv /\ Match!NoMatch BY InitMatches
<1>2. MatchInv /\ [OpenNext]_vars => MatchInv' BY NextMatchInv
<1>3. MatchInv /\ [OpenNext]_vars => [Match!MatchNext]_Match!matchVars
  BY NextMatches DEF MatchStep
<1>. QED BY <1>1, <1>2, <1>3, PTL DEF OpenSpec, ImplementsMatch, Match!MatchSpec

=============================================================================
