----------------------------- MODULE PlayProofs -----------------------------
(***************************************************************************)
(* What a match keeps true from its deal to its result, for every number   *)
(* of players, every settings and every interleaving of players and timer. *)
(***************************************************************************)
EXTENDS MatchProofs, NightLoop

USE DEF phaseVars, memberVars, adminVars, nightVars, gameVars

---------------------------------------------------------------------------
(* What a step of the room is to the match.  The invariants below are      *)
(* shown for these twelve kinds of step; that there is no other is lemma   *)
(* NextIsPlay.                                                             *)

Cast == <<players, role>>

\* The match does not notice: administration, presence, connections, the clock.
Aside == UNCHANGED <<phase, round, Cast, alive, shooterUsed, nightActions, votes,
                     investigations, lastWords, result>>

\* Members come and go in the lobby, or the room returns to it.
InLobby == phase' = "WAITING"

Starts ==
    /\ phase = "WAITING" /\ phase' = "NIGHT" /\ round' = 1
    /\ nightActions' = Empty /\ votes' = Empty /\ investigations' = {}
    /\ lastWords' = None

KickAfterMatch ==
    /\ phase = "FINISHED"
    /\ \E p \in Ids : \E t \in Ids : KickParticipant(p, t)

\* What can be on the sheet when it is looked at.
NightSheets ==
    {Put(nightActions, p, v) : p \in NightActors, v \in alive \cup {None}}
        \cup {Complete(nightActions, NightActors)}

NightRecorded ==
    /\ phase = "NIGHT"
    /\ nightActions' \in NightSheets /\ ~AllSubmitted(nightActions')
    /\ UNCHANGED <<phase, round, Cast, alive, shooterUsed, votes, investigations, lastWords, result>>

NightResolved ==
    /\ phase = "NIGHT" /\ UNCHANGED Cast
    /\ \E acts \in NightSheets : AllSubmitted(acts) /\ ResolveNight(acts)

BallotOpens ==
    /\ phase = "DAY_DISCUSSION" /\ phase' = "DAY_VOTING" /\ votes' = Empty
    /\ UNCHANGED <<round, Cast, alive, nightActions, investigations, lastWords, result>>

BallotRecorded ==
    /\ phase = "DAY_VOTING"
    /\ \E p \in alive : \E t \in alive \cup {None} : votes' = Put(votes, p, t)
    /\ ~AllVoted(votes', alive)
    /\ UNCHANGED <<phase, round, Cast, alive, shooterUsed, nightActions, investigations,
                   lastWords, result>>

BallotResolved ==
    /\ phase = "DAY_VOTING" /\ UNCHANGED <<Cast, investigations>>
    /\ \E ballots : \E living \in SUBSET alive : ResolveVote(ballots, living)

\* A shot that ends the match, and one that does not.
Shot(t) ==
    /\ phase \in DayPhases /\ t \in alive
    /\ alive' = alive \ {t} /\ votes' = Prune(votes, alive \ {t})
    /\ UNCHANGED <<round, Cast, nightActions, investigations, lastWords>>

ShotDecides == \E t \in Ids : Shot(t) /\ Finish(alive \ {t})

ShotHeard ==
    \E t \in Ids :
        /\ Shot(t) /\ ~Decided(alive \ {t}, role)
        /\ phase = "DAY_VOTING" => ~AllVoted(votes', alive')
        /\ UNCHANGED <<phase, result>>

SpeechEnds ==
    /\ phase = "LAST_WORDS" /\ lastWords' = None
    /\ AdvanceAfterDay(alive)
    /\ UNCHANGED <<Cast, alive, votes, investigations>>

Play ==
    \/ Aside \/ InLobby \/ Starts \/ KickAfterMatch
    \/ NightRecorded \/ NightResolved
    \/ BallotOpens \/ BallotRecorded \/ BallotResolved
    \/ ShotDecides \/ ShotHeard \/ SpeechEnds

LEMMA SubmitIsPlay ==
    ASSUME NEW p \in NightActors, NEW v \in alive \cup {None}, phase = "NIGHT",
           SubmitNight(Put(nightActions, p, v)), UNCHANGED <<Cast, shooterUsed>>
    PROVE  Play
<1>1. Put(nightActions, p, v) \in NightSheets BY DEF NightSheets
<1>. QED BY <1>1 DEF SubmitNight, Play, NightRecorded, NightResolved, Cast

LEMMA ShootIsPlay ==
    ASSUME NEW p, NEW t \in Ids, Shoot(p, t)
    PROVE  Play
<1>. DEFINE living  == alive \ {t}
            ballots == Prune(votes, living)
<1>1. /\ phase \in DayPhases /\ t \in alive /\ living \in SUBSET alive
      /\ UNCHANGED <<players, role, investigations>>
  BY DEF Shoot
<1>2. CASE /\ Finish(living) /\ alive' = living /\ votes' = ballots
           /\ UNCHANGED <<round, nightActions, lastWords>>
  BY <1>1, <1>2 DEF Play, ShotDecides, Shot, Cast
<1>3. CASE phase = "DAY_VOTING" /\ ResolveVote(ballots, living)
  <2>. HIDE DEF living, ballots
  <2>. QED BY <1>1, <1>3 DEF Play, BallotResolved, Cast
<1>4. CASE /\ ~Decided(living, role)
           /\ ~(phase = "DAY_VOTING" /\ AllVoted(ballots, living))
           /\ alive' = living /\ votes' = ballots
           /\ UNCHANGED <<phaseVars, nightActions, lastWords, result>>
  BY <1>1, <1>4 DEF Play, ShotHeard, Shot, Cast
<1>. QED BY <1>2, <1>3, <1>4 DEF Shoot

LEMMA ClientIsPlay ==
    ASSUME NEW p \in Ids, ClientEvent(p)
    PROVE  Play
<1>1. CASE \E b \in BOOLEAN : Ready(p, b) \/ Presence(p, b) \/ SetRoomLocked(p, b)
  BY <1>1 DEF Ready, Presence, SetRoomLocked, Play, Aside, Cast
<1>2. CASE \E t \in Ids : TransferOwner(p, t)
  BY <1>2 DEF TransferOwner, Play, Aside, Cast
<1>3. CASE \E n \in MinPlayersToStart .. MaxPlayersAllowed : SetPlayerLimit(p, n)
  BY <1>3 DEF SetPlayerLimit, Play, Aside, Cast
<1>4. CASE \E s \in Settings : SetGameSettings(p, s) \/ SetGamePreset(p, s)
  BY <1>4 DEF SetGameSettings, SetGamePreset, Play, Aside, Cast
<1>5. CASE \E deal \in Deals(players, settings.specials) : StartGame(p, deal)
  BY <1>5 DEF StartGame, EnterPhase, Play, Starts
<1>6. CASE ReturnToWaiting(p) BY <1>6 DEF ReturnToWaiting, EnterPhase, Play, InLobby
<1>7. CASE \E t \in Ids : KickParticipant(p, t)
  <2>1. phase \in {"WAITING", "FINISHED"} /\ phase' = phase
    BY <1>7 DEF KickParticipant, Open
  <2>. QED BY <1>7, <2>1 DEF Play, InLobby, KickAfterMatch
<1>8. CASE NightPass(p) BY <1>8, SubmitIsPlay DEF NightPass, Cast
<1>9. CASE \E t \in Ids : NightAction(p, t) BY <1>9, SubmitIsPlay DEF NightAction, Cast
<1>10. CASE StartVote(p)
  BY <1>10 DEF StartVote, StartVoting, EnterPhase, Play, BallotOpens, Cast
<1>11. CASE \E t \in Ids : Shoot(p, t) BY <1>11, ShootIsPlay
<1>12. CASE \E t \in Ids \cup {None} : Vote(p, t)
  <2>1. PICK t \in Ids \cup {None} : Vote(p, t) BY <1>12
  <2>2. CASE ResolveVote(Put(votes, p, t), alive)
    BY <2>1, <2>2 DEF Vote, Play, BallotResolved, Cast
  <2>3. CASE /\ ~AllVoted(Put(votes, p, t), alive) /\ votes' = Put(votes, p, t)
             /\ UNCHANGED <<phaseVars, alive, nightActions, lastWords, result>>
    BY <2>1, <2>3 DEF Vote, Play, BallotRecorded, Cast
  <2>. QED BY <2>1, <2>2, <2>3 DEF Vote
<1>. QED
  BY <1>1, <1>2, <1>3, <1>4, <1>5, <1>6, <1>7, <1>8, <1>9, <1>10, <1>11, <1>12
     DEF ClientEvent, RoomEvent

LEMMA NextIsPlay ==
    ASSUME [OpenNext]_vars
    PROVE  Play
<1>1. ASSUME NEW p \in Ids, Arrival(p) \/ Departure(p) PROVE Play
  <2>1. CASE \E s \in BOOLEAN : Join(p, s)
    BY <2>1 DEF Join, Play, Aside, InLobby, Cast
  <2>2. CASE Reconnect(p) \/ Disconnect(p)
    BY <2>2 DEF Reconnect, Disconnect, Play, Aside, Cast
  <2>3. CASE LeaveWaiting(p) BY <2>3 DEF LeaveWaiting, Play, InLobby
  <2>. QED BY <1>1, <2>1, <2>2, <2>3 DEF Arrival, Departure, Leave
<1>2. CASE DeadlinePasses BY <1>2 DEF DeadlinePasses, Play, Aside, Cast
<1>3. CASE PhaseTimeout
  <2>1. CASE NightTimeout
    <3>. DEFINE sheet == Complete(nightActions, NightActors)
    <3>1. sheet \in NightSheets /\ AllSubmitted(sheet)
      BY DEF NightSheets, AllSubmitted, Complete
    <3>2. phase = "NIGHT" /\ UNCHANGED Cast /\ ResolveNight(sheet)
      BY <2>1 DEF NightTimeout, Cast
    <3>. QED BY <3>1, <3>2 DEF Play, NightResolved
  <2>2. CASE phase = "DAY_DISCUSSION" /\ StartVoting
    BY <2>2 DEF StartVoting, EnterPhase, Play, BallotOpens, Cast
  <2>3. CASE VotingTimeout BY <2>3 DEF VotingTimeout, Play, BallotResolved, Cast
  <2>4. CASE LastWordsTimeout BY <2>4 DEF LastWordsTimeout, Play, SpeechEnds, Cast
  <2>. QED BY <1>3, <2>1, <2>2, <2>3, <2>4 DEF PhaseTimeout
<1>4. CASE UNCHANGED vars BY <1>4 DEF vars, Play, Aside, Cast
<1>. QED BY <1>1, <1>2, <1>3, <1>4, ClientIsPlay DEF OpenNext

---------------------------------------------------------------------------
(* How long a match lasts, and what ends it                                *)

\* Counting killers and others is asking checkWin.
LEMMA CountsDecide ==
    ASSUME NEW living \in SUBSET Ids, NEW r
    PROVE  /\ Cardinality({p \in living : r[p] = "KILLER"}) > 0
           /\ Cardinality({p \in living : r[p] = "KILLER"})
                 < Cardinality({p \in living : r[p] # "KILLER"})
           <=> ~Decided(living, r)
<1>. DEFINE K == {p \in living : r[p] = "KILLER"}
            O == {p \in living : r[p] # "KILLER"}
<1>1. IsFiniteSet(K) /\ IsFiniteSet(O)
  <2>1. IsFiniteSet(living) BY RoomAssumption, FS_Subset
  <2>. QED BY <2>1, FS_Subset
<1>2. Cardinality(K) \in Nat /\ Cardinality(O) \in Nat BY <1>1, FS_CardinalityType
<1>3. Cardinality(K) = 0 <=> K = {} BY <1>1, FS_EmptySet
<1>4. Killers(living, r) = K /\ living \ Killers(living, r) = O
  BY DEF Killers, IsKillerAligned
<1>5. Decided(living, r) <=> K = {} \/ Cardinality(K) >= Cardinality(O)
  <2>. HIDE DEF K, O
  <2>. QED BY <1>4 DEF Decided
<1>. HIDE DEF K, O
<1>6. Cardinality(K) > 0 /\ Cardinality(K) < Cardinality(O) <=> ~Decided(living, r)
  BY <1>2, <1>3, <1>5
<1>. QED BY <1>6 DEF K, O

\* Play that goes on is undecided, in the terms of the code.
Undecided ==
    phase \in DayPhases \/ (phase = "NIGHT" /\ round > 1) => ~Decided(alive, role)

LEMMA UndecidedCounts ==
    ASSUME Typed, Undecided
    PROVE  UndecidedPlay
<1>1. alive \in SUBSET Ids BY DEF Typed, RoomTypeOK
<1>. QED BY <1>1, CountsDecide DEF Undecided, UndecidedPlay, KillersLeft, OthersLeft

\* What advanceAfterDay leaves behind.
LEMMA AdvanceEnds ==
    ASSUME NEW living, AdvanceAfterDay(living)
    PROVE  \/ /\ phase' = "FINISHED" /\ result' = Winner(living, role)
              /\ UNCHANGED <<round, nightActions>>
           \/ /\ phase' = "NIGHT" /\ round' = round + 1 /\ nightActions' = Empty
              /\ ~Decided(living, role) /\ UNCHANGED result
  BY DEF AdvanceAfterDay, Finish, EnterPhase

LEMMA NightEnds ==
    ASSUME NEW acts, ResolveNight(acts)
    PROVE  /\ alive' = alive \ NightKilled(acts, role, alive)
           /\ nightActions' = Empty /\ UNCHANGED <<round, lastWords>>
           /\ investigations' = investigations \cup Findings(acts, role, players, round)
           /\ \/ phase' = "FINISHED" /\ result' = Winner(alive', role)
              \/ /\ phase' = "DAY_DISCUSSION" /\ votes' = Empty
                 /\ ~Decided(alive', role) /\ UNCHANGED result
  BY DEF ResolveNight, Finish, EnterPhase

\* A ballot ends in last words, in the result, or in the next night.
LEMMA BallotEnds ==
    ASSUME NEW ballots, NEW living, ResolveVote(ballots, living)
    PROVE  /\ votes' = Empty
           /\ \/ /\ phase' = "LAST_WORDS" /\ alive' = living \ {lastWords'}
                 /\ lastWords' \in living /\ UNCHANGED <<round, nightActions, result>>
              \/ /\ alive' = living /\ AdvanceAfterDay(living) /\ UNCHANGED lastWords
  BY DEF ResolveVote, Leaders, Prune, EnterPhase

LEMMA PlayUndecided ==
    ASSUME Undecided, Play
    PROVE  Undecided'
<1>. USE DEF Undecided, DayPhases, Cast
<1>1. CASE Aside BY <1>1 DEF Aside
<1>2. CASE InLobby \/ Starts BY <1>2 DEF InLobby, Starts
<1>3. CASE KickAfterMatch BY <1>3 DEF KickAfterMatch, KickParticipant
<1>4. CASE NightRecorded BY <1>4 DEF NightRecorded
<1>5. CASE NightResolved BY <1>5, NightEnds DEF NightResolved
<1>6. CASE BallotOpens BY <1>6 DEF BallotOpens
<1>7. CASE BallotRecorded BY <1>7 DEF BallotRecorded
<1>8. CASE BallotResolved BY <1>8, BallotEnds, AdvanceEnds DEF BallotResolved
<1>9. CASE ShotDecides BY <1>9 DEF ShotDecides, Shot, Finish, EnterPhase
<1>10. CASE ShotHeard BY <1>10 DEF ShotHeard, Shot
<1>11. CASE SpeechEnds BY <1>11, AdvanceEnds DEF SpeechEnds
<1>. QED
  BY <1>1, <1>2, <1>3, <1>4, <1>5, <1>6, <1>7, <1>8, <1>9, <1>10, <1>11 DEF Play

\* No day, and no night but the first, is played once checkWin could end it:
\* every way a player dies is followed by the check (resolveNight, applyShoot,
\* advanceAfterDay).
THEOREM PlayEndsWhenDecided == OpenSpec => []UndecidedPlay
<1>1. Init => Typed /\ Undecided
  BY InitTyped DEF Init, Undecided, DayPhases
<1>2. Typed /\ Undecided /\ [OpenNext]_vars => (Typed /\ Undecided)'
  BY NextTyped, NextIsPlay, PlayUndecided
<1>3. Typed /\ Undecided => UndecidedPlay BY UndecidedCounts
<1>. QED BY <1>1, <1>2, <1>3, PTL DEF OpenSpec

LEMMA PlayKeepsDead ==
    ASSUME Play
    PROVE  SameMatch => alive' \subseteq alive
<1>. USE DEF SameMatch, Cast
<1>1. CASE Aside BY <1>1 DEF Aside
<1>2. CASE InLobby \/ Starts BY <1>2 DEF InLobby, Starts
<1>3. CASE KickAfterMatch BY <1>3 DEF KickAfterMatch, KickParticipant
<1>4. CASE NightRecorded BY <1>4 DEF NightRecorded
<1>5. CASE NightResolved BY <1>5, NightEnds DEF NightResolved
<1>6. CASE BallotOpens BY <1>6 DEF BallotOpens
<1>7. CASE BallotRecorded BY <1>7 DEF BallotRecorded
<1>8. CASE BallotResolved BY <1>8, BallotEnds DEF BallotResolved
<1>9. CASE ShotDecides BY <1>9 DEF ShotDecides, Shot
<1>10. CASE ShotHeard BY <1>10 DEF ShotHeard, Shot
<1>11. CASE SpeechEnds BY <1>11 DEF SpeechEnds
<1>. QED
  BY <1>1, <1>2, <1>3, <1>4, <1>5, <1>6, <1>7, <1>8, <1>9, <1>10, <1>11 DEF Play

\* Nobody who died in a match lives again in it, not even by leaving and coming
\* back (every write of Player.Alive).
THEOREM TheDeadStayDead == OpenSpec => DeadStayDead
<1>1. [OpenNext]_vars => [SameMatch => alive' \subseteq alive]_vars
  BY NextIsPlay, PlayKeepsDead
<1>. QED BY <1>1, PTL DEF OpenSpec, DeadStayDead

LEMMA PlayResult ==
    ASSUME Play
    PROVE  /\ InGame /\ phase' = "FINISHED" =>
                  result' = IF \E p \in alive' : role[p] = "KILLER"
                            THEN "KILLERS" ELSE "VILLAGERS"
           /\ phase = "FINISHED" /\ phase' # "WAITING" => UNCHANGED <<result, phase>>
<1>. USE DEF InGame, TimedPhases, DayPhases, Winner, Killers, IsKillerAligned, Cast
<1>1. CASE Aside BY <1>1 DEF Aside
<1>2. CASE InLobby \/ Starts BY <1>2 DEF InLobby, Starts
<1>3. CASE KickAfterMatch BY <1>3 DEF KickAfterMatch, KickParticipant
<1>4. CASE NightRecorded BY <1>4 DEF NightRecorded
<1>5. CASE NightResolved BY <1>5, NightEnds DEF NightResolved
<1>6. CASE BallotOpens BY <1>6 DEF BallotOpens
<1>7. CASE BallotRecorded BY <1>7 DEF BallotRecorded
<1>8. CASE BallotResolved
  <2>1. phase = "DAY_VOTING" BY <1>8 DEF BallotResolved
  <2>2. phase' = "FINISHED" => result' = Winner(alive', role)
    BY <1>8, BallotEnds, AdvanceEnds DEF BallotResolved
  <2>. QED BY <2>1, <2>2
<1>9. CASE ShotDecides BY <1>9 DEF ShotDecides, Shot, Finish
<1>10. CASE ShotHeard BY <1>10 DEF ShotHeard, Shot
<1>11. CASE SpeechEnds BY <1>11, AdvanceEnds DEF SpeechEnds
<1>. QED
  BY <1>1, <1>2, <1>3, <1>4, <1>5, <1>6, <1>7, <1>8, <1>9, <1>10, <1>11 DEF Play

\* However a match ends, the side that wins is the one its survivors are on, and
\* nothing but the return to the lobby takes the result back (finish, checkWin).
THEOREM ResultFitsSurvivors == OpenSpec => ResultIsRight
<1>1. [OpenNext]_vars =>
         [ /\ InGame /\ phase' = "FINISHED" =>
                  result' = IF \E p \in alive' : role[p] = "KILLER"
                            THEN "KILLERS" ELSE "VILLAGERS"
           /\ phase = "FINISHED" /\ phase' # "WAITING" => UNCHANGED <<result, phase>> ]_vars
  BY NextIsPlay, PlayResult
<1>. QED BY <1>1, PTL DEF OpenSpec, ResultIsRight

---------------------------------------------------------------------------
(* Sheets and ballots.  The invariant joins what is on them, who is heard, *)
(* who is waited for and that play is undecided: a ballot opens with       *)
(* somebody to wait for only because play that goes on has a killer left.  *)

PlayInv == Typed /\ Quiet /\ Undecided /\ BallotsLive /\ SomeoneToWaitFor

LEMMA PruneIsLive ==
    ASSUME NEW b, NEW living
    PROVE  /\ DOMAIN Prune(b, living) \subseteq living
           /\ \A v \in DOMAIN Prune(b, living) : Prune(b, living)[v] \in living \cup {None}
           /\ DOMAIN b = {} => Prune(b, living) = Empty
  BY DEF Prune, Empty

LEMMA SheetIsLive ==
    ASSUME BallotsLive, phase = "NIGHT", NEW acts \in NightSheets
    PROVE  /\ DOMAIN acts \subseteq NightActors
           /\ \A q \in DOMAIN acts : acts[q] \in alive \cup {None}
<1>1. \A q \in DOMAIN nightActions :
         q \in NightActors /\ nightActions[q] \in alive \cup {None}
  BY DEF BallotsLive
<1>2. CASE acts = Complete(nightActions, NightActors)
  BY <1>1, <1>2 DEF Complete
<1>3. ASSUME NEW p \in NightActors, NEW v \in alive \cup {None}, acts = Put(nightActions, p, v)
      PROVE  /\ DOMAIN acts \subseteq NightActors
             /\ \A q \in DOMAIN acts : acts[q] \in alive \cup {None}
  BY <1>1, <1>3 DEF Put
<1>. QED BY <1>2, <1>3 DEF NightSheets

LEMMA EmptyBoth ==
    ASSUME BallotsLive
    PROVE  /\ phase # "NIGHT" => DOMAIN nightActions = {}
           /\ phase \notin {"DAY_VOTING", "FINISHED"} => votes = Empty
  BY DEF BallotsLive

\* Both are empty.
LEMMA NothingIsLive ==
    /\ DOMAIN Empty = {}
    /\ nightActions' = Empty /\ votes' = Empty => BallotsLive'
    /\ DOMAIN nightActions' = {} /\ phase' = "FINISHED" => BallotsLive'
    /\ DOMAIN nightActions' = {} /\ votes' = Empty => BallotsLive'
  BY DEF BallotsLive, Empty

LEMMA PlayBallots ==
    ASSUME BallotsLive, Typed', Play
    PROVE  BallotsLive'
<1>. USE DEF Cast
<1>1. CASE Aside BY <1>1 DEF Aside, BallotsLive, NightActors
<1>2. CASE InLobby
  <2>1. nightActions' = Empty /\ votes' = Empty
    BY <1>2 DEF InLobby, Typed, CleanLobby
  <2>. QED BY <2>1, NothingIsLive
<1>3. CASE Starts BY <1>3, NothingIsLive DEF Starts
<1>4. CASE KickAfterMatch
  <2>1. phase' = "FINISHED" /\ DOMAIN nightActions' \subseteq DOMAIN nightActions
    BY <1>4 DEF KickAfterMatch, KickParticipant
  <2>. QED BY <1>4, <2>1, EmptyBoth, NothingIsLive DEF KickAfterMatch
<1>5. CASE NightRecorded
  <2>1. /\ phase = "NIGHT" /\ nightActions' \in NightSheets
        /\ UNCHANGED <<phase, role, alive, votes>>
    BY <1>5 DEF NightRecorded
  <2>2. NightActors' = NightActors BY <2>1 DEF NightActors
  <2>3. /\ DOMAIN nightActions' \subseteq NightActors'
        /\ \A q \in DOMAIN nightActions' : nightActions'[q] \in alive' \cup {None}
    BY <2>1, <2>2, SheetIsLive
  <2>4. votes' = Empty BY <2>1, EmptyBoth
  <2>. QED BY <2>1, <2>3, <2>4 DEF BallotsLive, Empty
<1>6. CASE NightResolved
  <2>1. /\ nightActions' = Empty
        /\ phase' = "FINISHED" \/ votes' = Empty
    BY <1>6, NightEnds DEF NightResolved
  <2>. QED BY <2>1, NothingIsLive
<1>7. CASE BallotOpens
  <2>1. DOMAIN nightActions' = {} /\ votes' = Empty BY <1>7, EmptyBoth DEF BallotOpens
  <2>. QED BY <2>1, NothingIsLive
<1>8. CASE BallotRecorded
  <2>1. /\ phase' = "DAY_VOTING" /\ DOMAIN nightActions' = {} /\ UNCHANGED alive
    BY <1>8, EmptyBoth DEF BallotRecorded
  <2>2. PICK p \in alive, t \in alive \cup {None} : votes' = Put(votes, p, t)
    BY <1>8 DEF BallotRecorded
  <2>3. \A v \in DOMAIN votes : v \in alive /\ votes[v] \in alive \cup {None}
    BY <1>8 DEF BallotRecorded, BallotsLive
  <2>4. \A v \in DOMAIN votes' : v \in alive' /\ votes'[v] \in alive' \cup {None}
    BY <2>1, <2>2, <2>3 DEF Put
  <2>. QED BY <2>1, <2>4 DEF BallotsLive
<1>9. CASE BallotResolved
  <2>1. DOMAIN nightActions' = {} /\ votes' = Empty
    BY <1>9, EmptyBoth, BallotEnds, AdvanceEnds, NothingIsLive DEF BallotResolved
  <2>. QED BY <2>1, NothingIsLive
<1>10. CASE ShotDecides
  <2>1. DOMAIN nightActions' = {} /\ phase' = "FINISHED"
    BY <1>10, EmptyBoth DEF ShotDecides, Shot, DayPhases, Finish, EnterPhase
  <2>. QED BY <2>1, NothingIsLive
<1>11. CASE ShotHeard
  <2>1. /\ DOMAIN nightActions' = {} /\ phase' = phase /\ phase \in DayPhases
        /\ votes' = Prune(votes, alive')
    BY <1>11, EmptyBoth DEF ShotHeard, Shot, DayPhases
  <2>2. phase = "DAY_DISCUSSION" => votes' = Empty
    BY <2>1, EmptyBoth, NothingIsLive, PruneIsLive
  <2>3. \A v \in DOMAIN votes' : v \in alive' /\ votes'[v] \in alive' \cup {None}
    BY <2>1, PruneIsLive
  <2>. QED BY <2>1, <2>2, <2>3 DEF BallotsLive, DayPhases
<1>12. CASE SpeechEnds
  <2>1. DOMAIN nightActions' = {} /\ votes' = Empty
    BY <1>12, EmptyBoth, AdvanceEnds, NothingIsLive DEF SpeechEnds
  <2>. QED BY <2>1, NothingIsLive
<1>. QED
  BY <1>1, <1>2, <1>3, <1>4, <1>5, <1>6, <1>7, <1>8, <1>9, <1>10, <1>11, <1>12 DEF Play

\* A night or a ballot that has just begun has everybody to wait for.
LEMMA FreshWaits ==
    /\ nightActions' = Empty /\ phase' = "NIGHT" => SomeoneToWaitFor'
    /\ votes' = Empty /\ phase' = "DAY_VOTING" /\ alive' # {} => SomeoneToWaitFor'
    /\ phase' \notin {"NIGHT", "DAY_VOTING"} => SomeoneToWaitFor'
  BY DEF SomeoneToWaitFor, Empty

LEMMA PlayWaits ==
    ASSUME Undecided, SomeoneToWaitFor, Play
    PROVE  SomeoneToWaitFor'
<1>. USE DEF Cast
<1>1. CASE Aside BY <1>1 DEF Aside, SomeoneToWaitFor, NightActors
<1>2. CASE InLobby BY <1>2, FreshWaits DEF InLobby
<1>3. CASE Starts BY <1>3, FreshWaits DEF Starts
<1>4. CASE KickAfterMatch BY <1>4, FreshWaits DEF KickAfterMatch, KickParticipant
<1>5. CASE NightRecorded
  <2>1. /\ phase' = "NIGHT" /\ UNCHANGED NightActors
        /\ ~(NightActors \subseteq DOMAIN nightActions')
    BY <1>5 DEF NightRecorded, AllSubmitted, NightActors
  <2>. QED BY <2>1 DEF SomeoneToWaitFor
<1>6. CASE NightResolved BY <1>6, NightEnds, FreshWaits DEF NightResolved
<1>7. CASE BallotOpens
  <2>1. ~Decided(alive, role) BY <1>7 DEF BallotOpens, Undecided, DayPhases
  <2>2. alive # {} BY <2>1 DEF Decided, Killers
  <2>. QED BY <1>7, <2>2, FreshWaits DEF BallotOpens
<1>8. CASE BallotRecorded
  <2>1. phase' = "DAY_VOTING" /\ UNCHANGED alive /\ ~(alive \subseteq DOMAIN votes')
    BY <1>8 DEF BallotRecorded, AllVoted
  <2>. QED BY <2>1 DEF SomeoneToWaitFor
<1>9. CASE BallotResolved BY <1>9, BallotEnds, AdvanceEnds, FreshWaits DEF BallotResolved
<1>10. CASE ShotDecides BY <1>10, FreshWaits DEF ShotDecides, Finish, EnterPhase
<1>11. CASE ShotHeard
  <2>1. /\ phase' \in DayPhases
        /\ phase' = "DAY_VOTING" => ~(alive' \subseteq DOMAIN votes')
    BY <1>11 DEF ShotHeard, Shot, AllVoted
  <2>. QED BY <2>1 DEF SomeoneToWaitFor, DayPhases
<1>12. CASE SpeechEnds BY <1>12, AdvanceEnds, FreshWaits DEF SpeechEnds
<1>. QED
  BY <1>1, <1>2, <1>3, <1>4, <1>5, <1>6, <1>7, <1>8, <1>9, <1>10, <1>11, <1>12 DEF Play

LEMMA InitPlayInv ==
    ASSUME Init
    PROVE  PlayInv
<1>1. Typed BY InitTyped
<1>. QED
  BY <1>1 DEF PlayInv, Init, Quiet, Undecided, DayPhases, BallotsLive, SomeoneToWaitFor, Empty

LEMMA NextPlayInv ==
    ASSUME PlayInv, [OpenNext]_vars
    PROVE  PlayInv'
<1>1. Typed' /\ Quiet' /\ Play BY NextTyped, NextQuiet, NextIsPlay DEF PlayInv
<1>. QED BY <1>1, PlayUndecided, PlayBallots, PlayWaits DEF PlayInv

\* Who dies, leaves the ballot or is voted for and dies is off it in the same
\* step; a night has only what its living actors asked; and neither sheet is
\* carried into another phase (pruneVotes, applyShoot, resolveNight).
THEOREM SheetsAreLive == OpenSpec => []BallotsLive
<1>1. Init => PlayInv BY InitPlayInv
<1>2. PlayInv /\ [OpenNext]_vars => PlayInv' BY NextPlayInv
<1>3. PlayInv => BallotsLive BY DEF PlayInv
<1>. QED BY <1>1, <1>2, <1>3, PTL DEF OpenSpec

\* However a night's actions, ballots and shots interleave, an open night or
\* ballot still lacks somebody alive: the step that takes the last one it waits
\* for, a shot included, also closes it (applyNightAction, applyVote, applyShoot).
THEOREM NobodyWaitsInVain == OpenSpec => []SomeoneToWaitFor
<1>1. Init => PlayInv BY InitPlayInv
<1>2. PlayInv /\ [OpenNext]_vars => PlayInv' BY NextPlayInv
<1>3. PlayInv => SomeoneToWaitFor BY DEF PlayInv
<1>. QED BY <1>1, <1>2, <1>3, PTL DEF OpenSpec

---------------------------------------------------------------------------
(* Last words                                                              *)

LEMMA PlaySpeaker ==
    ASSUME Typed, Quiet', SpeakerIsExecuted, Play
    PROVE  SpeakerIsExecuted'
<1>1. CASE phase' # "LAST_WORDS" BY <1>1 DEF SpeakerIsExecuted, Quiet
<1>2. CASE phase' = "LAST_WORDS"
  <2>. USE <1>2 DEF SpeakerIsExecuted, Cast
  <2>1. CASE Aside BY <2>1 DEF Aside
  <2>2. CASE BallotResolved
    <3>1. PICK living \in SUBSET alive : /\ alive' = living \ {lastWords'}
                                         /\ lastWords' \in living
      BY <2>2, BallotEnds, AdvanceEnds DEF BallotResolved
    <3>2. players' = players /\ alive \subseteq players
      BY <2>2 DEF BallotResolved, Typed, RoomTypeOK
    <3>. QED BY <3>1, <3>2
  <2>3. ~Starts /\ ~InLobby /\ ~BallotOpens BY DEF Starts, InLobby, BallotOpens
  <2>4. ~KickAfterMatch BY DEF KickAfterMatch, KickParticipant
  <2>5. ~NightRecorded /\ ~NightResolved BY NightEnds DEF NightRecorded, NightResolved
  <2>6. ~BallotRecorded BY DEF BallotRecorded
  <2>7. ~ShotDecides /\ ~ShotHeard
    BY DEF ShotDecides, ShotHeard, Shot, DayPhases, Finish, EnterPhase
  <2>8. ~SpeechEnds BY AdvanceEnds DEF SpeechEnds
  <2>. QED BY <2>1, <2>2, <2>3, <2>4, <2>5, <2>6, <2>7, <2>8 DEF Play
<1>. QED BY <1>1, <1>2

LEMMA NextSpeaker ==
    ASSUME PlayInv, SpeakerIsExecuted, [OpenNext]_vars
    PROVE  SpeakerIsExecuted'
<1>1. PlayInv' /\ Play BY NextPlayInv, NextIsPlay
<1>. QED BY <1>1, PlaySpeaker DEF PlayInv

\* Last words are those of the player just executed, and nobody speaks at any
\* other time (resolveVote, completeLastWords).
THEOREM OnlyTheExecutedSpeak == OpenSpec => []SpeakerIsExecuted
<1>1. Init => PlayInv /\ SpeakerIsExecuted
  BY InitPlayInv DEF Init, SpeakerIsExecuted
<1>2. PlayInv /\ SpeakerIsExecuted /\ [OpenNext]_vars => (PlayInv /\ SpeakerIsExecuted)'
  BY NextPlayInv, NextSpeaker
<1>. QED BY <1>1, <1>2, PTL DEF OpenSpec

---------------------------------------------------------------------------
(* Investigations                                                          *)

\* While a night is open, nothing has been learnt in it yet.
Investigated ==
    \A i \in investigations :
        /\ role[i.by] = "DETECTIVE" /\ i.round <= round
        /\ phase = "NIGHT" => i.round < round
        /\ i.target \in players => i.killer = (role[i.target] = "KILLER")
        /\ \A j \in investigations : i.by = j.by /\ i.round = j.round => i = j

\* What one night teaches.
LEMMA FindingsAreTrue ==
    ASSUME NEW acts, NEW n
    PROVE  \A i \in Findings(acts, role, players, n) :
              /\ role[i.by] = "DETECTIVE" /\ i.round = n
              /\ i.by \notin Blocked(acts, role)
              /\ i.killer = (role[i.target] = "KILLER")
              /\ \A j \in Findings(acts, role, players, n) : i.by = j.by => i = j
  BY DEF Findings, IsKillerAligned

LEMMA PlayInvestigated ==
    ASSUME Typed, Typed', Investigated, Play
    PROVE  Investigated'
<1>. USE DEF Investigated, Cast
<1>1. /\ round \in Nat
      /\ investigations \subseteq
            [by : players, round : Nat, target : Ids, killer : BOOLEAN]
  BY DEF Typed, RoomTypeOK
<1>2. CASE Aside BY <1>2 DEF Aside
<1>3. CASE InLobby BY <1>3 DEF InLobby, Typed, CleanLobby
<1>4. CASE Starts BY <1>4 DEF Starts
<1>5. CASE KickAfterMatch
  <2>1. PICK t \in Ids : /\ phase' = "FINISHED" /\ round' = round
                         /\ players' = players \ {t}
                         /\ role' = [q \in DOMAIN role \ {t} |-> role[q]]
                         /\ investigations' = {i \in investigations : i.by # t}
    BY <1>5 DEF KickAfterMatch, KickParticipant, Remove
  <2>2. DOMAIN role = players
    BY <1>5 DEF KickAfterMatch, Typed, RoomTypeOK
  <2>3. \A q \in players' : role'[q] = role[q] BY <2>1, <2>2
  <2>4. \A i \in investigations' : i \in investigations /\ i.by \in players'
    BY <1>1, <2>1
  <2>. QED BY <2>1, <2>3, <2>4
<1>6. CASE NightRecorded BY <1>6 DEF NightRecorded
<1>7. CASE NightResolved
  <2>1. PICK acts : ResolveNight(acts) BY <1>7 DEF NightResolved
  <2>. DEFINE new == Findings(acts, role, players, round)
  <2>2. /\ investigations' = investigations \cup new /\ phase' # "NIGHT"
        /\ UNCHANGED <<round, players, role>> /\ phase = "NIGHT"
    BY <1>7, <2>1, NightEnds DEF NightResolved
  <2>3. \A i \in new : /\ role[i.by] = "DETECTIVE" /\ i.round = round
                       /\ i.killer = (role[i.target] = "KILLER")
                       /\ \A j \in new : i.by = j.by => i = j
    BY FindingsAreTrue
  <2>. HIDE DEF new
  <2>4. \A i \in investigations : /\ role[i.by] = "DETECTIVE"
                                  /\ i.round < round /\ i.round \in Nat
    BY <1>1, <2>2
  <2>5. \A i \in investigations : \A j \in new : i.round # j.round
    BY <1>1, <2>3, <2>4
  <2>6. \A i, j \in investigations' : i.by = j.by /\ i.round = j.round => i = j
    BY <2>2, <2>3, <2>5
  <2>7. \A i \in investigations' : /\ role[i.by] = "DETECTIVE" /\ i.round <= round
                                   /\ i.target \in players =>
                                         i.killer = (role[i.target] = "KILLER")
    BY <1>1, <2>2, <2>3, <2>4
  <2>. QED BY <2>2, <2>6, <2>7
<1>8. CASE BallotOpens BY <1>8 DEF BallotOpens
<1>9. CASE BallotRecorded BY <1>9 DEF BallotRecorded
<1>10. ASSUME UNCHANGED <<players, role, investigations>>,
              (round' = round /\ phase' # "NIGHT") \/ round' = round + 1
       PROVE  Investigated'
  <2>1. \A i \in investigations : i.round \in Nat /\ i.round <= round BY <1>1
  <2>2. \A i \in investigations : /\ i.round <= round'
                                  /\ phase' = "NIGHT" => i.round < round'
    BY <1>1, <1>10, <2>1
  <2>. QED BY <1>10, <2>2
<1>11. CASE BallotResolved
  BY <1>11, <1>10, BallotEnds, AdvanceEnds DEF BallotResolved
<1>12. CASE ShotDecides
  BY <1>12, <1>10 DEF ShotDecides, Shot, Finish, EnterPhase
<1>13. CASE ShotHeard BY <1>13 DEF ShotHeard, Shot
<1>14. CASE SpeechEnds
  BY <1>14, <1>10, AdvanceEnds DEF SpeechEnds
<1>. QED
  BY <1>2, <1>3, <1>4, <1>5, <1>6, <1>7, <1>8, <1>9, <1>11, <1>12, <1>13, <1>14 DEF Play

\* A detective learns at most one thing a night, and never a wrong one, however
\* often roles are dealt and players are kicked (recordInvestigation).
THEOREM DetectivesLearnTheTruth == OpenSpec => []InvestigationsTrue
<1>1. Init => Typed /\ Investigated
  BY InitTyped DEF Init, Investigated
<1>2. Typed /\ Investigated /\ [OpenNext]_vars => (Typed /\ Investigated)'
  BY NextTyped, NextIsPlay, PlayInvestigated
<1>3. Investigated => InvestigationsTrue BY DEF Investigated, InvestigationsTrue
<1>. QED BY <1>1, <1>2, <1>3, PTL DEF OpenSpec

---------------------------------------------------------------------------
(* What a night does.  Whoever submits last had not submitted before,      *)
(* since the night was still open: so nothing on the sheet is rewritten by *)
(* the step that closes it.                                                *)

LEMMA SheetIsKept ==
    ASSUME SomeoneToWaitFor, phase = "NIGHT", NEW acts \in NightSheets, AllSubmitted(acts)
    PROVE  \A q \in DOMAIN nightActions : q \in DOMAIN acts /\ acts[q] = nightActions[q]
<1>1. CASE acts = Complete(nightActions, NightActors) BY <1>1 DEF Complete
<1>2. ASSUME NEW p \in NightActors, NEW v \in alive \cup {None}, acts = Put(nightActions, p, v)
      PROVE  \A q \in DOMAIN nightActions : q \in DOMAIN acts /\ acts[q] = nightActions[q]
  <2>1. PICK w \in NightActors : w \notin DOMAIN nightActions BY DEF SomeoneToWaitFor
  <2>2. w = p BY <1>2, <2>1 DEF AllSubmitted, Put
  <2>. QED BY <1>2, <2>1, <2>2 DEF Put
<1>. QED BY <1>1, <1>2 DEF NightSheets

NightToll ==
    /\ Cardinality(alive \ alive') <= 1
    /\ (\E k \in alive : role[k] = "KILLER" /\ Blocking(k)) => alive' = alive
    /\ \A i \in investigations' \ investigations : ~Blocking(i.by)
    /\ \A d \in DOMAIN nightActions :
          role[d] = "DOCTOR" /\ ~Blocking(d) /\ ~MayStillBlock
              => nightActions[d] \notin alive \ alive'

LEMMA NightTolls ==
    ASSUME PlayInv, OneKiller, NightResolved
    PROVE  NightToll
<1>1. PICK acts \in NightSheets : AllSubmitted(acts) /\ ResolveNight(acts)
  BY DEF NightResolved
<1>. DEFINE killed == NightKilled(acts, role, alive)
<1>2. phase = "NIGHT" /\ InGame /\ alive' = alive \ killed
  BY <1>1, NightEnds DEF NightResolved, InGame, TimedPhases
<1>3. /\ DOMAIN acts \subseteq NightActors
      /\ \A q \in DOMAIN acts : acts[q] \in alive \cup {None}
      /\ \A q \in DOMAIN nightActions : q \in DOMAIN acts /\ acts[q] = nightActions[q]
  BY <1>1, <1>2, SheetIsLive, SheetIsKept DEF PlayInv
<1>4. alive \subseteq players /\ players \subseteq Ids /\ None \notin Ids
  BY RoomAssumption DEF PlayInv, Typed, RoomTypeOK
<1>5. PICK k : \A q \in players : role[q] = "KILLER" <=> q = k
  BY <1>2 DEF OneKiller
<1>6. \A t \in killed :
         /\ t \in alive /\ t \notin Protected(acts, role)
         /\ k \in DOMAIN acts /\ k \notin Blocked(acts, role) /\ t = acts[k]
  <2>1. DOMAIN acts \subseteq players BY <1>3, <1>4 DEF NightActors
  <2>. QED BY <2>1, <1>5 DEF NightKilled, Targets
<1>7. \A q : Blocking(q) /\ q \in Ids => q \in Blocked(acts, role)
  BY <1>3, <1>4 DEF Blocking, Blocked, Targets
<1>8. Cardinality(alive \ alive') <= 1
  <2>1. alive \ alive' = {} \/ alive \ alive' = {acts[k]} BY <1>2, <1>6
  <2>2. Cardinality({}) = 0 /\ Cardinality({acts[k]}) = 1 BY FS_EmptySet, FS_Singleton
  <2>. QED BY <2>1, <2>2
<1>9. ASSUME NEW q \in alive, role[q] = "KILLER", Blocking(q) PROVE alive' = alive
  <2>1. q = k /\ q \in Blocked(acts, role) BY <1>4, <1>5, <1>7, <1>9
  <2>. QED BY <1>2, <1>6, <2>1
<1>10. ASSUME NEW i \in investigations' \ investigations PROVE ~Blocking(i.by)
  <2>1. i \in Findings(acts, role, players, round) BY <1>1, NightEnds
  <2>2. i.by \in Ids BY <2>1, <1>3, <1>4 DEF Findings, NightActors
  <2>. QED BY <2>1, <2>2, <1>7, FindingsAreTrue
<1>11. ASSUME NEW d \in DOMAIN nightActions, role[d] = "DOCTOR", ~Blocking(d), ~MayStillBlock
       PROVE  nightActions[d] \notin alive \ alive'
  <2>1. d \in DOMAIN acts /\ acts[d] = nightActions[d] BY <1>3
  <2>2. d \notin Blocked(acts, role)
    BY <1>3, <1>11 DEF Blocked, Targets, Blocking, MayStillBlock
  <2>3. acts[d] # None => acts[d] \in Protected(acts, role)
    BY <2>1, <2>2, <1>11 DEF Protected, Targets
  <2>. QED BY <1>2, <1>4, <1>6, <2>1, <2>3
<1>. QED BY <1>8, <1>9, <1>10, <1>11 DEF NightToll

LEMMA PlayNight ==
    ASSUME PlayInv, OneKiller, Play, phase = "NIGHT",
           phase' \in {"DAY_DISCUSSION", "FINISHED"}
    PROVE  NightToll
<1>1. ~Aside /\ ~InLobby /\ ~Starts /\ ~KickAfterMatch /\ ~NightRecorded
  BY DEF Aside, InLobby, Starts, KickAfterMatch, NightRecorded
<1>2. ~BallotOpens /\ ~BallotRecorded /\ ~BallotResolved
  BY DEF BallotOpens, BallotRecorded, BallotResolved
<1>3. ~ShotDecides /\ ~ShotHeard /\ ~SpeechEnds
  BY DEF ShotDecides, ShotHeard, Shot, DayPhases, SpeechEnds
<1>. QED BY <1>1, <1>2, <1>3, NightTolls DEF Play

\* In whatever order a night's actions come in, and whether the last of them or
\* the deadline ends it: one dies at most, a blocked killer or detective achieves
\* nothing, and an unblocked doctor's charge lives (resolveNight).
THEOREM NightKeepsItsRules == OpenSpec => NightOutcome
<1>1. Init => PlayInv /\ MatchInv BY InitPlayInv, InitMatches
<1>2. PlayInv /\ MatchInv /\ [OpenNext]_vars => (PlayInv /\ MatchInv)'
  BY NextPlayInv, NextMatchInv
<1>3. PlayInv /\ MatchInv /\ [OpenNext]_vars =>
         [phase = "NIGHT" /\ phase' \in {"DAY_DISCUSSION", "FINISHED"} => NightToll]_vars
  BY NextIsPlay, PlayNight DEF MatchInv
<1>. QED BY <1>1, <1>2, <1>3, PTL DEF OpenSpec, NightOutcome, NightToll

---------------------------------------------------------------------------
(* The night as the loop it is.  What a turn of the loop leaves is known   *)
(* from the acts before it; a recursion is unfolded, and a set sorted, by  *)
(* looking at the least length for which it could not be.                  *)

OneEach == InGame => \A p, q \in players : role[p] = role[q] /\ role[p] \in Specials => p = q

\* A deck holds a special role once or not at all (RoleDeck).
LEMMA NextOneEach ==
    ASSUME Typed, OneEach, [OpenNext]_vars
    PROVE  OneEach'
<1>1. CASE InGame
  <2>1. InGame' => phase' # "WAITING" BY DEF InGame, TimedPhases
  <2>. QED BY <1>1, <2>1, NextKeepsSeats DEF OneEach
<1>2. CASE ~InGame /\ InGame'
  <2>1. OpenNext BY <1>2 DEF vars, InGame
  <2>2. PICK p \in Ids, deal \in Deals(players, settings.specials) : StartGame(p, deal)
    BY <1>2, <2>1, OnlyStartOpensMatch
  <2>3. players' = players /\ role' = deal BY <2>2 DEF StartGame
  <2>4. \A a, b \in players : deal[a] = deal[b] /\ deal[a] \in Specials => a = b
    BY DEF Deals, Specials
  <2>. QED BY <2>3, <2>4 DEF OneEach
<1>. QED BY <1>1, <1>2 DEF OneEach

ByOne(S) == \A a, b \in S : a.by = b.by => a = b

Actors(S) == \A a \in S : a.by \in Nat

LEMMA HasFirstAct ==
    ASSUME NEW S, S # {}, Actors(S), ByOne(S)
    PROVE  \E a \in S : \A b \in S \ {a} : ActsBefore(a, b)
<1>1. \A type : Priority(type) \in {10, 20, 30, 40, 50} BY DEF Priority
<1>2. PICK n \in {Priority(a.type) : a \in S} : \A m \in {Priority(a.type) : a \in S} : n <= m
  <2>1. {Priority(a.type) : a \in S} \in SUBSET Nat BY <1>1
  <2>2. {Priority(a.type) : a \in S} # {} OBVIOUS
  <2>. QED BY <2>1, <2>2, HasLeast
<1>3. PICK p \in {a.by : a \in {b \in S : Priority(b.type) = n}} :
         \A q \in {a.by : a \in {b \in S : Priority(b.type) = n}} : p <= q
  BY <1>2, HasLeast DEF Actors
<1>4. PICK a \in S : Priority(a.type) = n /\ a.by = p BY <1>3
<1>5. ASSUME NEW b \in S \ {a} PROVE ActsBefore(a, b)
  <2>1. Priority(b.type) \in Nat /\ n \in Nat /\ n <= Priority(b.type) BY <1>1, <1>2, <1>5
  <2>2. b.by \in Nat /\ p \in Nat /\ p # b.by BY <1>4, <1>5 DEF Actors, ByOne
  <2>3. Priority(b.type) = n => p <= b.by BY <1>3, <1>5
  <2>. QED BY <1>4, <2>1, <2>2, <2>3 DEF ActsBefore
<1>. QED BY <1>5

IsSorted(order, n, S) ==
    /\ order \in [1 .. n -> S]
    /\ \A i, j \in 1 .. n : i < j => ActsBefore(order[i], order[j])

\* Any acts of different players can be sorted.
LEMMA CanSort ==
    ASSUME NEW S, IsFiniteSet(S), Actors(S), ByOne(S)
    PROVE  \E order : IsSorted(order, Cardinality(S), S)
<1>. DEFINE Stuck == {n \in Nat : \E T \in SUBSET S :
                        Cardinality(T) = n /\ ~\E order : IsSorted(order, n, T)}
<1>1. ASSUME Stuck # {} PROVE FALSE
  <2>1. PICK n \in Stuck : \A m \in Stuck : n <= m BY <1>1, HasLeast
  <2>2. PICK T \in SUBSET S : Cardinality(T) = n /\ ~\E order : IsSorted(order, n, T)
    BY <2>1
  <2>3. IsFiniteSet(T) /\ n \in Nat BY <2>1, FS_Subset
  <2>4. n # 0
    <3>1. IsSorted([i \in 1 .. 0 |-> 0], 0, T) BY DEF IsSorted
    <3>. QED BY <2>2, <3>1
  <2>5. Actors(T) /\ ByOne(T) BY DEF Actors, ByOne
  <2>6. T # {} BY <2>2, <2>4, FS_EmptySet
  <2>7. PICK a \in T : \A b \in T \ {a} : ActsBefore(a, b) BY <2>5, <2>6, HasFirstAct
  <2>8. T \ {a} \in SUBSET S /\ Cardinality(T \ {a}) = n - 1 /\ n - 1 \in Nat
    BY <2>2, <2>3, <2>4, FS_RemoveElement
  <2>9. PICK rest : IsSorted(rest, n - 1, T \ {a}) BY <2>1, <2>3, <2>8
  <2>. DEFINE order == [i \in 1 .. n |-> IF i = 1 THEN a ELSE rest[i - 1]]
  <2>10. \A i \in 2 .. n : i - 1 \in 1 .. n - 1 /\ order[i] = rest[i - 1] BY <2>3
  <2>11. order[1] = a BY <2>3, <2>4
  <2>12. order \in [1 .. n -> T] BY <2>3, <2>9 DEF IsSorted
  <2>13. ASSUME NEW i \in 1 .. n, NEW j \in 1 .. n, i < j PROVE ActsBefore(order[i], order[j])
    <3>1. j \in 2 .. n BY <2>3, <2>13
    <3>2. order[j] \in T \ {a} BY <2>9, <2>10, <3>1 DEF IsSorted
    <3>3. CASE i = 1 BY <2>7, <2>11, <3>2, <3>3
    <3>4. CASE i \in 2 .. n
      <4>1. i - 1 < j - 1 BY <2>3, <2>13
      <4>. QED BY <2>9, <2>10, <3>1, <3>4, <4>1 DEF IsSorted
    <3>. QED BY <2>3, <3>3, <3>4
  <2>14. IsSorted(order, n, T) BY <2>12, <2>13 DEF IsSorted
  <2>. QED BY <2>2, <2>14
<1>2. Cardinality(S) \in Nat BY FS_CardinalityType
<1>. QED BY <1>1, <1>2

\* What the sorting loop is given, and what it gives: each act once, in order.
LEMMA OrderIsRight ==
    ASSUME NEW acts, DOMAIN acts \subseteq Ids
    PROVE  /\ Cardinality(NightActs(acts)) \in Nat
           /\ IsSorted(OrderNightActions(acts), Cardinality(NightActs(acts)), NightActs(acts))
           /\ \A a \in NightActs(acts) : \E i \in 1 .. Cardinality(NightActs(acts)) :
                 OrderNightActions(acts)[i] = a
           /\ \A i, j \in 1 .. Cardinality(NightActs(acts)) :
                 OrderNightActions(acts)[i] = OrderNightActions(acts)[j] => i = j
<1>. DEFINE S == NightActs(acts)
            n == Cardinality(S)
            order == OrderNightActions(acts)
<1>1. Actors(S) /\ ByOne(S)
  <2>1. \A a \in S : a.by \in DOMAIN acts /\ a = NightAct(a.by, acts[a.by])
    BY DEF NightActs, NightAct
  <2>. QED BY <2>1, RoomAssumption DEF Actors, ByOne
<1>2. IsFiniteSet(S)
  <2>1. IsFiniteSet(DOMAIN acts) BY RoomAssumption, FS_Subset
  <2>. DEFINE f == [p \in DOMAIN acts |-> NightAct(p, acts[p])]
  <2>2. f \in Surjection(DOMAIN acts, S) BY DEF NightActs, Surjection
  <2>. QED BY <2>1, <2>2, FS_Surjection
<1>3. n \in Nat BY <1>2, FS_CardinalityType
<1>4. IsSorted(order, n, S)
  <2>1. PICK some : IsSorted(some, n, S) BY <1>1, <1>2, CanSort
  <2>2. \A f \in [1 .. n -> S] : DOMAIN f = 1 .. n OBVIOUS
  <2>. QED BY <2>1, <2>2 DEF IsSorted, OrderNightActions
<1>5. \A a \in S : ~ActsBefore(a, a)
  BY <1>1 DEF ActsBefore, Priority, Actors
<1>6. ASSUME NEW i \in 1 .. n, NEW j \in 1 .. n, order[i] = order[j] PROVE i = j
  <2>1. ~(i < j) /\ ~(j < i) BY <1>4, <1>5, <1>6 DEF IsSorted
  <2>. QED BY <1>3, <2>1
<1>7. order \in Injection(1 .. n, S) BY <1>4, <1>6 DEF IsSorted, Injection, IsInjective
<1>8. order \in Surjection(1 .. n, S)
  <2>1. Cardinality(1 .. n) = n BY <1>3, FS_Interval
  <2>. QED BY <1>2, <1>7, <2>1, FS_Injection
<1>9. \A a \in S : \E i \in 1 .. n : order[i] = a BY <1>8 DEF Surjection
<1>. QED BY <1>3, <1>4, <1>6, <1>9

\* The recursion of Turns is well founded: it says what each turn makes of the last.
LEMMA TurnsUnfold ==
    ASSUME NEW n \in Nat, NEW S, NEW order \in [1 .. n -> S]
    PROVE  /\ Turns(order)[0] = Dusk
           /\ \A i \in 1 .. n : Turns(order)[i] = Act(Turns(order)[i - 1], order[i])
<1>. DEFINE Good(f, k) == f = [i \in {0} \cup 1 .. k |->
                                  IF i = 0 THEN Dusk ELSE Act(f[i - 1], order[i])]
            Stuck == {k \in 0 .. n : ~\E f : Good(f, k)}
<1>1. ASSUME Stuck # {} PROVE FALSE
  <2>1. Stuck \in SUBSET Nat OBVIOUS
  <2>2. PICK k \in Stuck : \A m \in Stuck : k <= m BY <1>1, <2>1, HasLeast
  <2>3. k # 0
    <3>1. Good([i \in {0} |-> Dusk], 0) OBVIOUS
    <3>. QED BY <2>2, <3>1
  <2>4. k \in 0 .. n BY <2>2
  <2>5. PICK f : Good(f, k - 1)
    <3>. HIDE DEF Good
    <3>1. k - 1 \in 0 .. n /\ ~(k <= k - 1) BY <2>3, <2>4
    <3>. QED BY <2>2, <3>1
  <2>. DEFINE g == [i \in {0} \cup 1 .. k |-> IF i = k THEN Act(f[k - 1], order[k]) ELSE f[i]]
  <2>6. \A i \in {0} \cup 1 .. k - 1 : g[i] = f[i] BY <2>3, <2>4
  <2>7. ASSUME NEW i \in {0} \cup 1 .. k
        PROVE  g[i] = IF i = 0 THEN Dusk ELSE Act(g[i - 1], order[i])
    <3>1. CASE i = 0 BY <2>3, <2>4, <2>5, <3>1
    <3>2. CASE i = k BY <2>3, <2>4, <2>6, <3>2
    <3>3. CASE i \in 1 .. k - 1
      <4>1. i - 1 \in {0} \cup 1 .. k - 1 BY <2>4, <3>3
      <4>2. f[i] = Act(f[i - 1], order[i]) BY <2>5, <3>3
      <4>. QED BY <2>4, <2>6, <3>3, <4>1, <4>2
    <3>. QED BY <2>4, <3>1, <3>2, <3>3
  <2>8. Good(g, k) BY <2>7
  <2>. QED BY <2>2, <2>8
<1>2. \E f : Good(f, n)
  <2>. HIDE DEF Good
  <2>1. n \in 0 .. n OBVIOUS
  <2>2. n \notin Stuck BY <1>1
  <2>. QED BY <2>1, <2>2
<1>3. Good(Turns(order), n) BY <1>2 DEF Turns
<1>. QED BY <1>3

\* The acts of one kind among the first i, and what they leave: the blocked of the
\* loop grow to B before anybody else acts, and its protected to P before a kill.
Done(order, i, type) == {order[j] : j \in {k \in 1 .. i : order[k].type = type}}

Stops(order, i)       == {a.target : a \in Done(order, i, "ESCORT")}
Shields(order, i, B)  == {a.target : a \in {b \in Done(order, i, "DOCTOR") : b.by \notin B}}
Hits(order, i, B, P)  == {a.target : a \in {b \in Done(order, i, "KILLER") :
                                               b.by \notin B /\ b.target \notin P}}
Finding(a)            == [by |-> a.by, round |-> round, target |-> a.target,
                          killer |-> IsKillerAligned(role[a.target])]
Learns(order, i, B)   == {Finding(a) : a \in {b \in Done(order, i, "DETECTIVE") :
                                               b.by \notin B /\ b.target \in players}}

Left(order, i, B, P) ==
    [blocked   |-> Stops(order, i),
     protected |-> Shields(order, i, B),
     living    |-> alive \ Hits(order, i, B, P),
     learned   |-> Learns(order, i, B)]

LEMMA DoneGrows ==
    ASSUME NEW n \in Nat, NEW i \in 1 .. n, NEW order, NEW type
    PROVE  Done(order, i, type) =
             Done(order, i - 1, type) \cup (IF order[i].type = type THEN {order[i]} ELSE {})
<1>1. \A j : j \in 1 .. i <=> j \in 1 .. i - 1 \/ j = i OBVIOUS
<1>. QED BY <1>1 DEF Done

\* Once something of another kind acts, all of the kinds before it have acted.
LEMMA EarlierAreDone ==
    ASSUME NEW n \in Nat, NEW S, NEW order, IsSorted(order, n, S), NEW i \in 1 .. n
    PROVE  /\ order[i].type # "ESCORT" => Done(order, i - 1, "ESCORT") = Done(order, n, "ESCORT")
           /\ order[i].type \notin {"ESCORT", "DOCTOR"} =>
                 Done(order, i - 1, "DOCTOR") = Done(order, n, "DOCTOR")
<1>1. \A j \in 1 .. n : j \in 1 .. i - 1 \/ j = i \/ i < j OBVIOUS
<1>2. \A j \in 1 .. n : i < j => Priority(order[i].type) <= Priority(order[j].type)
  BY DEF IsSorted, ActsBefore, Priority
<1>3. ASSUME order[i].type # "ESCORT", NEW j \in 1 .. n, order[j].type = "ESCORT"
      PROVE  j \in 1 .. i - 1
  <2>1. ~(i < j) BY <1>2, <1>3 DEF Priority
  <2>. QED BY <1>1, <1>3, <2>1
<1>4. ASSUME order[i].type \notin {"ESCORT", "DOCTOR"}, NEW j \in 1 .. n, order[j].type = "DOCTOR"
      PROVE  j \in 1 .. i - 1
  <2>1. ~(i < j) BY <1>2, <1>4 DEF Priority
  <2>. QED BY <1>1, <1>4, <2>1
<1>5. 1 .. i - 1 \subseteq 1 .. n OBVIOUS
<1>. QED BY <1>3, <1>4, <1>5 DEF Done

OneEscortActs(order, n) ==
    \A i, j \in 1 .. n : order[i].type = "ESCORT" /\ order[j].type = "ESCORT" => i = j

LEMMA TurnLeaves ==
    ASSUME NEW n \in Nat, NEW S, NEW order, IsSorted(order, n, S), OneEscortActs(order, n),
           NEW i \in 1 .. n, NEW B, B = Stops(order, n), NEW P, P = Shields(order, n, B)
    PROVE  Act(Left(order, i - 1, B, P), order[i]) = Left(order, i, B, P)
<1>. DEFINE a == order[i]
            before(type) == Done(order, i - 1, type)
<1>1. \A type : Done(order, i, type) = before(type) \cup (IF a.type = type THEN {a} ELSE {})
  BY DoneGrows
<1>2. a.type # "ESCORT" => Stops(order, i - 1) = B BY EarlierAreDone DEF Stops
<1>3. a.type \notin {"ESCORT", "DOCTOR"} => Shields(order, i - 1, B) = P
  BY EarlierAreDone DEF Shields
<1>4. CASE a.type = "ESCORT"
  <2>1. before("ESCORT") = {} BY <1>4 DEF Done, OneEscortActs
  <2>2. Stops(order, i - 1) = {} /\ Stops(order, i) = {a.target} BY <1>1, <1>4, <2>1 DEF Stops
  <2>3. /\ Shields(order, i, B) = Shields(order, i - 1, B)
        /\ Hits(order, i, B, P) = Hits(order, i - 1, B, P)
        /\ Learns(order, i, B) = Learns(order, i - 1, B)
    BY <1>1, <1>4 DEF Shields, Hits, Learns
  <2>. QED BY <1>4, <2>2, <2>3 DEF Act, Left
<1>5. CASE a.type = "DOCTOR"
  <2>1. /\ Stops(order, i) = Stops(order, i - 1)
        /\ Hits(order, i, B, P) = Hits(order, i - 1, B, P)
        /\ Learns(order, i, B) = Learns(order, i - 1, B)
    BY <1>1, <1>5 DEF Stops, Hits, Learns
  <2>2. Shields(order, i, B) =
           Shields(order, i - 1, B) \cup (IF a.by \in B THEN {} ELSE {a.target})
    BY <1>1, <1>5 DEF Shields
  <2>. QED BY <1>2, <1>5, <2>1, <2>2 DEF Act, Left
<1>6. CASE a.type = "KILLER"
  <2>1. /\ Stops(order, i) = Stops(order, i - 1)
        /\ Shields(order, i, B) = Shields(order, i - 1, B)
        /\ Learns(order, i, B) = Learns(order, i - 1, B)
    BY <1>1, <1>6 DEF Stops, Shields, Learns
  <2>2. Hits(order, i, B, P) = Hits(order, i - 1, B, P)
           \cup (IF a.by \in B \/ a.target \in P THEN {} ELSE {a.target})
    BY <1>1, <1>6 DEF Hits
  <2>. QED BY <1>2, <1>3, <1>6, <2>1, <2>2 DEF Act, Left
<1>7. CASE a.type = "DETECTIVE"
  <2>1. /\ Stops(order, i) = Stops(order, i - 1)
        /\ Shields(order, i, B) = Shields(order, i - 1, B)
        /\ Hits(order, i, B, P) = Hits(order, i - 1, B, P)
    BY <1>1, <1>7 DEF Stops, Shields, Hits
  <2>2. Learns(order, i, B) = Learns(order, i - 1, B)
           \cup (IF a.by \in B \/ a.target \notin players THEN {} ELSE {Finding(a)})
    BY <1>1, <1>7 DEF Learns
  <2>. QED BY <1>2, <1>7, <2>1, <2>2 DEF Act, Left, Finding
<1>8. CASE a.type \notin {"ESCORT", "DOCTOR", "KILLER", "DETECTIVE"}
  <2>1. /\ Stops(order, i) = Stops(order, i - 1)
        /\ Shields(order, i, B) = Shields(order, i - 1, B)
        /\ Hits(order, i, B, P) = Hits(order, i - 1, B, P)
        /\ Learns(order, i, B) = Learns(order, i - 1, B)
    BY <1>1, <1>8 DEF Stops, Shields, Hits, Learns
  <2>. QED BY <1>8, <2>1 DEF Act, Left
<1>. QED BY <1>4, <1>5, <1>6, <1>7, <1>8

LEMMA LoopLeaves ==
    ASSUME NEW n \in Nat, NEW S, NEW order, IsSorted(order, n, S), OneEscortActs(order, n),
           NEW B, B = Stops(order, n), NEW P, P = Shields(order, n, B)
    PROVE  Turns(order)[n] = Left(order, n, B, P)
<1>. DEFINE Wrong == {i \in 0 .. n : Turns(order)[i] # Left(order, i, B, P)}
<1>1. Left(order, 0, B, P) = Dusk
  <2>1. \A type : Done(order, 0, type) = {} BY DEF Done
  <2>. QED BY <2>1 DEF Left, Stops, Shields, Hits, Learns, Dusk
<1>2. /\ Turns(order)[0] = Dusk
      /\ \A i \in 1 .. n : Turns(order)[i] = Act(Turns(order)[i - 1], order[i])
  BY TurnsUnfold DEF IsSorted
<1>3. ASSUME Wrong # {} PROVE FALSE
  <2>1. Wrong \in SUBSET Nat OBVIOUS
  <2>2. PICK i \in Wrong : \A j \in Wrong : i <= j BY <1>3, <2>1, HasLeast
  <2>3. i \in 1 .. n BY <1>1, <1>2, <2>2
  <2>4. i - 1 \in 0 .. n /\ ~(i <= i - 1) BY <2>3
  <2>5. Turns(order)[i - 1] = Left(order, i - 1, B, P) BY <2>2, <2>4
  <2>6. Act(Left(order, i - 1, B, P), order[i]) = Left(order, i, B, P) BY <2>3, TurnLeaves
  <2>. QED BY <1>2, <2>2, <2>3, <2>5, <2>6
<1>. QED BY <1>3

\* After the last turn all acts are done, and what is left is what the stages leave.
LEMMA StagesAgree ==
    ASSUME Typed, BallotsLive, OneEach
    PROVE  NightIsStaged
<1>. SUFFICES ASSUME phase = "NIGHT"
              PROVE  LET acts == Complete(nightActions, NightActors)
                         end  == Walk(acts)
                     IN  /\ end.living = alive \ NightKilled(acts, role, alive)
                         /\ end.learned = Findings(acts, role, players, round)
  BY DEF NightIsStaged
<1>. DEFINE acts == Complete(nightActions, NightActors)
            S == NightActs(acts)
            n == Cardinality(S)
            order == OrderNightActions(acts)
            B == Blocked(acts, role)
            P == Protected(acts, role)
<1>1. alive \subseteq players /\ players \subseteq Ids /\ InGame
  BY DEF Typed, RoomTypeOK, InGame, TimedPhases
<1>2. DOMAIN acts \subseteq NightActors BY SheetIsLive DEF NightSheets
<1>3. DOMAIN acts \subseteq players BY <1>1, <1>2 DEF NightActors
<1>. HIDE DEF acts
<1>4. /\ n \in Nat /\ IsSorted(order, n, S)
      /\ \A a \in S : \E i \in 1 .. n : order[i] = a
      /\ \A i, j \in 1 .. n : order[i] = order[j] => i = j
  BY <1>1, <1>3, OrderIsRight
<1>5. ASSUME NEW type \in Roles
      PROVE  Done(order, n, type) =
               {NightAct(p, acts[p]) : p \in {q \in DOMAIN acts : role[q] = type /\ acts[q] # None}}
  <2>1. \A p \in DOMAIN acts : NightAct(p, acts[p]).type = type
           <=> role[p] = type /\ acts[p] # None
    BY RoomAssumption DEF NightAct
  <2>2. Done(order, n, type) = {a \in S : a.type = type} BY <1>4 DEF Done, IsSorted
  <2>. QED BY <2>1, <2>2 DEF NightActs
<1>6. \A p, t : NightAct(p, t).by = p /\ NightAct(p, t).target = t BY DEF NightAct
<1>7. {"ESCORT", "DOCTOR", "KILLER", "DETECTIVE"} \subseteq Roles BY DEF Roles, Specials
<1>8. OneEscortActs(order, n)
  <2>1. \A i \in 1 .. n : order[i].type = "ESCORT" => order[i] \in Done(order, n, "ESCORT")
    BY DEF Done
  <2>2. \A a, b \in Done(order, n, "ESCORT") : a = b
    BY <1>1, <1>3, <1>5, <1>7 DEF OneEach, Specials
  <2>. QED BY <1>4, <2>1, <2>2 DEF OneEscortActs
<1>9. B = Stops(order, n) BY <1>5, <1>6, <1>7 DEF Stops, Blocked, Targets
<1>10. P = Shields(order, n, B)
  BY <1>5, <1>6, <1>7 DEF Shields, Protected, Targets
<1>11. alive \ Hits(order, n, B, P) = alive \ NightKilled(acts, role, alive)
  BY <1>5, <1>6, <1>7 DEF Hits, NightKilled, Targets
<1>12. Learns(order, n, B) = Findings(acts, role, players, round)
  <2>. DEFINE asking == {q \in DOMAIN acts : role[q] = "DETECTIVE" /\ q \notin B
                                             /\ acts[q] \in players}
  <2>1. None \notin players BY <1>1, RoomAssumption
  <2>2. {b \in Done(order, n, "DETECTIVE") : b.by \notin B /\ b.target \in players}
           = {NightAct(q, acts[q]) : q \in asking}
    BY <1>5, <1>6, <1>7, <2>1
  <2>3. Learns(order, n, B) = {Finding(NightAct(q, acts[q])) : q \in asking}
    BY <2>2 DEF Learns
  <2>. QED BY <1>6, <2>3 DEF Finding, Findings
<1>13. Walk(acts) = Left(order, n, B, P)
  <2>1. Turns(order)[n] = Left(order, n, B, P) BY <1>4, <1>8, <1>9, <1>10, LoopLeaves
  <2>. QED BY <2>1 DEF Walk
<1>. QED BY <1>11, <1>12, <1>13 DEF Left, acts

\* Whatever has been submitted when a night ends, for any number of players: the loop
\* over the sorted actions leaves the living and the findings that the four stages
\* do, so that what is proved of the stages is proved of the loop (resolveNight).
THEOREM LoopIsStaged == OpenSpec => []NightIsStaged
<1>1. Init => PlayInv /\ OneEach BY InitPlayInv DEF Init, OneEach, InGame, TimedPhases
<1>2. PlayInv /\ OneEach /\ [OpenNext]_vars => (PlayInv /\ OneEach)'
  BY NextPlayInv, NextOneEach DEF PlayInv
<1>3. PlayInv /\ OneEach => NightIsStaged BY StagesAgree DEF PlayInv
<1>. QED BY <1>1, <1>2, <1>3, PTL DEF OpenSpec

=============================================================================
