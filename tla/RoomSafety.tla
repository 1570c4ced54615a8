----------------------------- MODULE RoomSafety -----------------------------
(***************************************************************************)
(* The properties of one room: what RoomState must keep true.              *)
(***************************************************************************)
EXTENDS RoomState

Seated     == players \cup spectators
InGame     == phase \in TimedPhases
SameMatch  == phase # "WAITING" /\ phase' # "WAITING"

PartialMaps(D, R) == UNION {[A -> R] : A \in SUBSET D}

\* What the types are whoever sends the events.
RoomTypeOK ==
    /\ phase \in Phases /\ round \in Nat
    /\ deadline \in IF InGame THEN {"pending", "reached"} ELSE {"none"}
    /\ players \subseteq Ids /\ spectators \subseteq Ids
    /\ players \cap spectators = {}
    /\ connected \subseteq Seated /\ afk \subseteq Seated
    /\ ready \subseteq players /\ alive \subseteq players
    /\ shooterUsed \subseteq players
    /\ owner \in Ids \cup {None} /\ locked \in BOOLEAN
    /\ maxPlayers \in MinPlayersToStart .. MaxPlayersAllowed
    /\ settings \in Settings
    /\ role \in [(IF phase = "WAITING" THEN {} ELSE players) -> Roles]
    /\ nightActions \in PartialMaps(players, Ids \cup {None})
    /\ votes \in PartialMaps(players, Ids \cup {None})
    /\ investigations \subseteq
          [by : players, round : Nat, target : Ids, killer : BOOLEAN]
    /\ lastWords \in Ids \cup {None}
    /\ result \in {None, "VILLAGERS", "KILLERS"}

\* Every variable has its type, flags belong to seats, nobody offline is away, and
\* exactly the timed phases have a deadline (state.go: State, enterPhase).
TypeOK == RoomTypeOK /\ afk \subseteq connected

---------------------------------------------------------------------------
(* Membership                                                              *)

\* A room with players has one of them as its owner, an empty one nobody
\* (applyJoin, applyLeave, applyKickParticipant, applyReturnToWaiting).
OwnerSeated == owner \in IF players = {} THEN {None} ELSE players

\* While a match is on or its result is shown, an offline owner never keeps the
\* room from a connected player (ensureConnectedOwner).
MatchHasOnlineOwner ==
    phase # "WAITING" /\ players \cap connected # {} => owner \in connected

\* Whoever sends the events: only a return to a lobby that no player is shown online
\* to enter can leave a room without its owner (applyReturnToWaiting).
OwnerKept ==
    [][ OwnerSeated /\ (phase = "WAITING" \/ players \cap connected # {})
        => OwnerSeated' ]_vars

\* The same in every phase, as docs/architecture.md has it: "When the owner
\* disconnects in any phase, ownership moves to another connected seated player
\* when one exists".
OnlineOwner ==
    [][ (owner \in connected) /\ owner' # owner /\ players' \cap connected' # {}
        => owner' \in connected' ]_vars

\* No sequence of joins, limit changes and settings overfills the room, or
\* leaves settings that it can never seat (applyJoin, applySetPlayerLimit,
\* applySetGameSettings).
Capacity ==
    /\ Cardinality(players) <= maxPlayers
    /\ Cardinality(spectators) <= MaxSpectators
    /\ settings.minimum <= maxPlayers

\* Nothing of a match survives into the lobby (applyReturnToWaiting).
CleanLobby ==
    phase = "WAITING" =>
        /\ alive = players /\ shooterUsed = {} /\ round = 0
        /\ nightActions = Empty /\ votes = Empty /\ investigations = {}
        /\ lastWords = None /\ result = None

\* During a match nobody gains or loses a seat or a role, whoever leaves,
\* disconnects or comes back (applyLeave, applyJoin, applyKickParticipant).
SeatsFixed ==
    [][ InGame /\ phase' # "WAITING" => players' = players /\ role' = role ]_vars

\* The dead stay dead until the lobby (every write of Player.Alive).
DeadStayDead == [][ SameMatch => alive' \subseteq alive ]_vars

---------------------------------------------------------------------------
(* The match                                                               *)

KillersLeft == Cardinality({p \in alive : role[p] = "KILLER"})
OthersLeft  == Cardinality({p \in alive : role[p] # "KILLER"})

\* Play goes on only while the match is open: a killer lives and is outnumbered.
\* A game may be dealt already decided, so the first night is exempt, and last
\* words are heard before anyone looks (checkWin and its callers).
UndecidedPlay ==
    phase \in DayPhases \/ (phase = "NIGHT" /\ round > 1)
        => KillersLeft > 0 /\ KillersLeft < OthersLeft

\* A night or a ballot that is still open waits for someone who is alive:
\* otherwise only the deadline could end it (applyNightAction, applyVote, and
\* applyShoot killing the last player a ballot waited for).
SomeoneToWaitFor ==
    /\ phase = "NIGHT" /\ NightActors # {} => \E p \in NightActors : p \notin DOMAIN nightActions
    /\ phase = "DAY_VOTING" => \E p \in alive : p \notin DOMAIN votes

\* An open ballot has only ballots of the living for the living, or blank ones;
\* a night has only actions of its living actors against the living; neither
\* is carried into another phase (pruneVotes, applyShoot, resolveNight).
BallotsLive ==
    /\ \A v \in DOMAIN votes : phase = "DAY_VOTING" =>
          v \in alive /\ votes[v] \in alive \cup {None}
    /\ \A q \in DOMAIN nightActions : phase = "NIGHT" /\
          q \in NightActors /\ nightActions[q] \in alive \cup {None}
    /\ phase \notin {"DAY_VOTING", "FINISHED"} => votes = Empty

\* Somebody is speaking exactly during last words, and is a dead player
\* (resolveVote, completeLastWords).
SpeakerIsExecuted ==
    IF phase = "LAST_WORDS" THEN lastWords \in players \ alive ELSE lastWords = None

\* A detective has at most one result a night, and each is true
\* (recordInvestigation).
InvestigationsTrue ==
    \A i \in investigations :
        /\ role[i.by] = "DETECTIVE" /\ i.round <= round
        /\ i.target \in players => i.killer = (role[i.target] = "KILLER")
        /\ \A j \in investigations : i.by = j.by /\ i.round = j.round => i = j

Blocking(p) == \E e \in DOMAIN nightActions :
                  role[e] = "ESCORT" /\ nightActions[e] = p

MayStillBlock == \E e \in NightActors \ DOMAIN nightActions : role[e] = "ESCORT"

\* However the night's actions came in, at most one player dies; a blocked
\* killer or detective achieves nothing; and who an unblocked doctor guards
\* survives (resolveNight, OrderNightActions).
NightOutcome ==
    [][ phase = "NIGHT" /\ phase' \in {"DAY_DISCUSSION", "FINISHED"} =>
        /\ Cardinality(alive \ alive') <= 1
        /\ (\E k \in alive : role[k] = "KILLER" /\ Blocking(k)) => alive' = alive
        /\ \A i \in investigations' \ investigations : ~Blocking(i.by)
        /\ \A d \in DOMAIN nightActions :
              role[d] = "DOCTOR" /\ ~Blocking(d) /\ ~MayStillBlock
                  => nightActions[d] \notin alive \ alive' ]_vars

\* A match ends with the result the living decide, and the result then stands
\* (finish, checkWin).
ResultIsRight ==
    [][ /\ InGame /\ phase' = "FINISHED" =>
              result' = IF \E p \in alive' : role[p] = "KILLER"
                        THEN "KILLERS" ELSE "VILLAGERS"
        /\ phase = "FINISHED" /\ phase' # "WAITING" => UNCHANGED <<result, phase>> ]_vars

\* No phase of a match needs a player's help to end: the deadline is enough
\* (enterPhase, applyPhaseTimeout).
EveryPhaseEnds ==
    \A ph \in TimedPhases : []<>(phase # ph)

---------------------------------------------------------------------------
(* RoomState implements CouncilMatch.  A closed match forgets who lived:   *)
(* the owner may still kick players then.                                  *)

Match == INSTANCE CouncilMatch WITH
            People  <- Ids,
            stage   <- phase,
            night   <- round,
            living  <- IF InGame THEN alive ELSE {},
            killers <- IF InGame THEN {p \in players : role[p] = "KILLER"} ELSE {},
            speaker <- lastWords,
            winner  <- result

\* Whatever the players and the timer do, the room plays a CouncilMatch
\* (state.go as a whole).
ImplementsMatch == Match!MatchSpec

=============================================================================
