----------------------------- MODULE RoomState -----------------------------
(***************************************************************************)
(* One room: State.Apply of internal/room/state.go, one action per event.  *)
(*                                                                         *)
(* An event the code answers with an error changes nothing, so it is an    *)
(* action that is not enabled.  The duplicate-sequence check in front of   *)
(* the handlers, the log, names and timestamps are left out; durations are *)
(* left out but for whether the phase deadline has been reached.  Tokens   *)
(* appear only as the difference between Join (a new seat) and Reconnect   *)
(* (the holder of the seat's token).                                       *)
(***************************************************************************)
EXTENDS RoomRules

CONSTANTS
    Ids,                \* participant ids; only their order matters
    MinPlayersToStart,
    MaxPlayersAllowed,
    DefaultMaxPlayers,
    MaxSpectators,
    Settings,           \* the settings an owner may submit
    PresetSettings,     \* what GameSettingsForPreset can return
    StandardSettings    \* StandardGameSettings

\* what ValidateWithRuleSet accepts, the player limit aside
ValidSettings == [minimum  : MinPlayersToStart .. MaxPlayersAllowed,
                  specials : {S \in SUBSET Specials : "KILLER" \in S},
                  reveal   : BOOLEAN]

ASSUME RoomAssumption ==
    /\ Ids \subseteq Nat /\ IsFiniteSet(Ids) /\ None \notin Ids
    /\ None \notin Roles
    /\ MinPlayersToStart \in Nat /\ MinPlayersToStart >= 2
    /\ DefaultMaxPlayers \in MinPlayersToStart .. MaxPlayersAllowed
    /\ MaxPlayersAllowed \in Nat
    /\ MaxSpectators \in Nat \ {0}
    /\ Settings \subseteq ValidSettings
    /\ PresetSettings \subseteq Settings
    /\ StandardSettings \in Settings
    /\ StandardSettings.minimum = MinPlayersToStart

VARIABLES
    phase, deadline, round,                       \* the phase machine
    players, spectators, connected, afk, ready,   \* who is here
    owner, locked, maxPlayers, settings,          \* room administration
    role, alive, shooterUsed,                     \* the game
    nightActions, votes, investigations, lastWords, result

phaseVars  == <<phase, deadline, round>>
memberVars == <<players, spectators, connected, afk, ready>>
adminVars  == <<locked, maxPlayers, settings>>
nightVars  == <<nightActions, investigations>>
gameVars   == <<role, alive, shooterUsed, nightVars, votes, lastWords, result>>
vars       == <<phaseVars, memberVars, owner, adminVars, gameVars>>

TimedPhases == {"NIGHT", "DAY_DISCUSSION", "DAY_VOTING", "LAST_WORDS"}
Phases      == TimedPhases \cup {"WAITING", "FINISHED"}
DayPhases   == {"DAY_DISCUSSION", "DAY_VOTING"}
Anytime     == phase \in Phases                             \* variant
Open        == phase \in {"WAITING", "FINISHED"}

Empty == [x \in {} |-> None]       \* a fresh map

\* m[k] = v
Put(m, k, v) == [x \in DOMAIN m \cup {k} |-> IF x = k THEN v ELSE m[x]]

First(S) == CHOOSE p \in S : \A q \in S : p <= q

Init ==
    /\ phase = "WAITING" /\ deadline = "none" /\ round = 0
    /\ players = {} /\ spectators = {} /\ connected = {} /\ afk = {} /\ ready = {}
    /\ owner = None /\ locked = FALSE /\ maxPlayers = DefaultMaxPlayers
    /\ settings = StandardSettings
    /\ role = Empty /\ alive = {} /\ shooterUsed = {}
    /\ nightActions = Empty /\ votes = Empty /\ investigations = {}
    /\ lastWords = None /\ result = None

---------------------------------------------------------------------------
(* Membership and ownership                                                *)

KeepOwner(own, seated, online) == own                       \* variant

\* ensureConnectedOwner: a connected owner stays, else the first connected
\* seat takes over, else nothing changes.
EnsureConnectedOwner(own, seated, online) ==
    IF own \in seated \cap online \/ seated \cap online = {}
    THEN own ELSE First(seated \cap online)

NoSuccessor(seated) == None                                 \* variant

NextOwner(seated) == IF seated = {} THEN None ELSE First(seated)

\* applyJoin for an id that has no seat
Join(p, asSpectator) ==
    /\ p \notin players \cup spectators
    /\ ~locked
    /\ \/ /\ asSpectator
          /\ Cardinality(spectators) < MaxSpectators
          /\ spectators' = spectators \cup {p}
          /\ UNCHANGED <<players, owner, alive>>
       \/ /\ ~asSpectator
          /\ phase = "WAITING"
          /\ Cardinality(players) < maxPlayers
          /\ players' = players \cup {p}
          /\ alive' = alive \cup {p}
          /\ owner' = IF owner = None THEN p ELSE owner
          /\ UNCHANGED spectators
    /\ connected' = connected \cup {p}
    /\ UNCHANGED <<phaseVars, afk, ready, adminVars, role, shooterUsed, nightVars,
                   votes, lastWords, result>>

\* variant: a returning player is seated afresh
ReconnectRevives(p) ==
    /\ p \in players \cup spectators
    /\ connected' = connected \cup {p}
    /\ afk' = afk \ {p}
    /\ alive' = alive \cup ({p} \cap players)
    /\ UNCHANGED <<phaseVars, players, spectators, ready, owner, adminVars, role,
                   shooterUsed, nightVars, votes, lastWords, result>>

\* applyJoin with the token and the type of an existing seat
Reconnect(p) ==
    /\ p \in players \cup spectators
    /\ connected' = connected \cup {p}
    /\ afk' = afk \ {p}
    /\ owner' = IF p \in players
                THEN EnsureConnectedOwner(owner, players, connected') ELSE owner
    /\ UNCHANGED <<phaseVars, players, spectators, ready, adminVars, gameVars>>

\* applyDisconnect, and applyLeave outside WAITING
Disconnect(p) ==
    /\ p \in players \cup spectators
    /\ connected' = connected \ {p}
    /\ afk' = afk \ {p}
    /\ owner' = IF p \in players /\ owner = p
                THEN EnsureConnectedOwner(owner, players, connected') ELSE owner
    /\ UNCHANGED <<phaseVars, players, spectators, ready, adminVars, gameVars>>

\* variant: the presence flags outlive the seat
RemoveSeatOnly(gone) ==
    /\ players' = players \ gone
    /\ spectators' = spectators \ gone
    /\ UNCHANGED <<connected, afk>>

\* delete(s.players, p) or delete(s.spectators, p) for every p in gone
Remove(gone) ==
    /\ players' = players \ gone
    /\ spectators' = spectators \ gone
    /\ connected' = connected \ gone
    /\ afk' = afk \ gone

LeaveWaiting(p) ==
    /\ phase = "WAITING"
    /\ p \in players \cup spectators
    /\ Remove({p})
    /\ ready' = ready \ {p}
    /\ alive' = alive \ {p}
    /\ owner' = IF p \in players /\ owner = p THEN NextOwner(players') ELSE owner
    /\ UNCHANGED <<phaseVars, adminVars, role, shooterUsed, nightVars, votes,
                   lastWords, result>>

Leave(p) == LeaveWaiting(p) \/ (phase # "WAITING" /\ Disconnect(p))

Ready(p, b) ==
    /\ phase = "WAITING" /\ p \in players
    /\ ready' = IF b THEN ready \cup {p} ELSE ready \ {p}
    /\ UNCHANGED <<phaseVars, players, spectators, connected, afk, owner, adminVars, gameVars>>

Presence(p, b) ==
    /\ p \in players \cup spectators
    /\ afk' = IF b THEN afk \cup {p} ELSE afk \ {p}
    /\ UNCHANGED <<phaseVars, players, spectators, connected, ready, owner, adminVars, gameVars>>

---------------------------------------------------------------------------
(* Room administration, by the owner                                       *)

TransferOwner(p, t) ==
    /\ p = owner
    /\ t \in players \cap connected
    /\ owner' = t
    /\ UNCHANGED <<phaseVars, memberVars, adminVars, gameVars>>

SetRoomLocked(p, b) ==
    /\ p = owner
    /\ locked' = b
    /\ UNCHANGED <<phaseVars, memberVars, owner, maxPlayers, settings, gameVars>>

FitsMinimum(n) == n >= settings.minimum                     \* variant

FitsRoom(n) == n >= Cardinality(players) /\ n >= settings.minimum

SetPlayerLimit(p, n) ==
    /\ p = owner /\ Open
    /\ n \in MinPlayersToStart .. MaxPlayersAllowed
    /\ FitsRoom(n)
    /\ maxPlayers' = n
    /\ UNCHANGED <<phaseVars, memberVars, owner, locked, settings, gameVars>>

KeepReadiness == UNCHANGED ready                            \* variant

ClearReadiness == ready' = ready \cap {owner}

\* applySetGameSettings; applySetGamePreset draws s from PresetSettings
SetGameSettings(p, s) ==
    /\ p = owner /\ Open
    /\ s.minimum <= maxPlayers
    /\ settings' = s
    /\ ClearReadiness
    /\ UNCHANGED <<phaseVars, players, spectators, connected, afk, owner, locked,
                   maxPlayers, gameVars>>

SetGamePreset(p, s) == s \in PresetSettings /\ SetGameSettings(p, s)

KickParticipant(p, t) ==
    /\ p = owner /\ Open
    /\ t # owner /\ t \in players \cup spectators
    /\ Remove({t})
    /\ ready' = ready \ {t}
    /\ alive' = alive \ {t}
    /\ shooterUsed' = shooterUsed \ {t}
    /\ role' = [q \in DOMAIN role \ {t} |-> role[q]]
    /\ nightActions' = [q \in DOMAIN nightActions \ {t} |-> nightActions[q]]
    /\ votes' = [v \in DOMAIN votes \ {t} |-> IF votes[v] = t THEN None ELSE votes[v]]
    /\ investigations' = {i \in investigations : i.by # t}
    /\ UNCHANGED <<phaseVars, owner, adminVars, lastWords, result>>

---------------------------------------------------------------------------
(* The phase machine                                                       *)

\* variant: last words have no duration
EnterPhaseUntimedSpeech(ph) ==
    /\ phase' = ph
    /\ deadline' = IF ph \in TimedPhases \ {"LAST_WORDS"} THEN "pending" ELSE "none"

EnterPhase(ph) ==
    /\ phase' = ph
    /\ deadline' = IF ph \in TimedPhases THEN "pending" ELSE "none"

\* the wall clock reaches phaseDeadline
DeadlinePasses ==
    /\ deadline = "pending"
    /\ deadline' = "reached"
    /\ UNCHANGED <<phase, round, memberVars, owner, adminVars, gameVars>>

Finish(living) ==
    /\ Decided(living, role)
    /\ EnterPhase("FINISHED")
    /\ result' = Winner(living, role)

StartGame(p, deal) ==
    /\ phase = "WAITING" /\ p = owner
    /\ settings.minimum <= maxPlayers
    /\ Cardinality(players) >= settings.minimum
    /\ players \ {owner} \subseteq ready
    /\ role' = deal
    /\ alive' = players
    /\ shooterUsed' = {}
    /\ EnterPhase("NIGHT")
    /\ round' = 1
    /\ nightActions' = Empty /\ votes' = Empty /\ investigations' = {}
    /\ lastWords' = None /\ result' = None
    /\ UNCHANGED <<memberVars, owner, adminVars>>

\* variant: the last result stays on show
ReturnKeepsResult(p) ==
    /\ p = owner /\ phase # "WAITING"
    /\ Remove((players \cup spectators) \ connected)
    /\ ready' = {}
    /\ role' = Empty /\ alive' = players' /\ shooterUsed' = {}
    /\ owner' = EnsureConnectedOwner(owner, players', connected)
    /\ EnterPhase("WAITING")
    /\ round' = 0
    /\ nightActions' = Empty /\ votes' = Empty /\ investigations' = {}
    /\ lastWords' = None
    /\ UNCHANGED <<adminVars, result>>

ReturnToWaiting(p) ==
    /\ p = owner /\ phase # "WAITING"
    /\ Remove((players \cup spectators) \ connected)
    /\ ready' = {}
    /\ role' = Empty /\ alive' = players' /\ shooterUsed' = {}
    /\ owner' = EnsureConnectedOwner(owner, players', connected)
    /\ EnterPhase("WAITING")
    /\ round' = 0
    /\ nightActions' = Empty /\ votes' = Empty /\ investigations' = {}
    /\ lastWords' = None /\ result' = None
    /\ UNCHANGED adminVars

---------------------------------------------------------------------------
(* Night                                                                   *)

NightActors == {q \in alive : HasNightAction(role[q])}

ResolveNight(acts) ==
    LET living == alive \ NightKilled(acts, role, alive) IN
    /\ alive' = living
    /\ investigations' = investigations \cup Findings(acts, role, players, round)
    /\ nightActions' = Empty
    /\ \/ /\ Finish(living)
          /\ votes' = Prune(votes, living)
       \/ /\ ~Decided(living, role)
          /\ EnterPhase("DAY_DISCUSSION")
          /\ votes' = Empty
          /\ UNCHANGED result
    /\ UNCHANGED <<round, lastWords>>

\* allNightActionsSubmitted
AllSubmitted(acts) == NightActors \subseteq DOMAIN acts

SubmitNight(acts) ==
    \/ /\ AllSubmitted(acts)
       /\ ResolveNight(acts)
    \/ /\ ~AllSubmitted(acts)
       /\ nightActions' = acts
       /\ UNCHANGED <<phaseVars, alive, investigations, votes, lastWords, result>>

NightAction(p, t) ==
    /\ phase = "NIGHT" /\ p \in NightActors
    /\ t \in alive /\ (t = p => AllowSelfTarget(role[p]))
    /\ SubmitNight(Put(nightActions, p, t))
    /\ UNCHANGED <<memberVars, owner, adminVars, role, shooterUsed>>

NightPass(p) ==
    /\ phase = "NIGHT" /\ p \in NightActors
    /\ SubmitNight(Put(nightActions, p, None))
    /\ UNCHANGED <<memberVars, owner, adminVars, role, shooterUsed>>

---------------------------------------------------------------------------
(* Day                                                                     *)

StartVoting ==
    /\ EnterPhase("DAY_VOTING")
    /\ votes' = Empty
    /\ UNCHANGED <<round, memberVars, owner, adminVars, role, alive, shooterUsed,
                   nightVars, lastWords, result>>

StartVote(p) == phase = "DAY_DISCUSSION" /\ p = owner /\ StartVoting

\* variant: the win check belongs to the vote alone
AdvanceUnchecked(living) ==
    /\ round' = round + 1
    /\ EnterPhase("NIGHT")
    /\ nightActions' = Empty
    /\ UNCHANGED result

\* advanceAfterDay
AdvanceAfterDay(living) ==
    \/ Finish(living) /\ UNCHANGED <<round, nightActions>>
    \/ /\ ~Decided(living, role)
       /\ round' = round + 1
       /\ EnterPhase("NIGHT")
       /\ nightActions' = Empty
       /\ UNCHANGED result

ResolveVote(ballots, living) ==
    LET top == Leaders(Prune(ballots, living)) IN
    /\ votes' = Empty
    /\ \/ \E t \in top :
             /\ top = {t}
             /\ alive' = living \ {t}
             /\ lastWords' = t
             /\ EnterPhase("LAST_WORDS")
             /\ UNCHANGED <<round, nightActions, result>>
       \/ /\ \A t \in top : top # {t}
          /\ alive' = living
          /\ AdvanceAfterDay(living)
          /\ UNCHANGED lastWords

\* variant: a blank ballot is no ballot
AllNamed(ballots, living) == living \subseteq {v \in DOMAIN ballots : ballots[v] # None}

\* allLivingPlayersVoted
AllVoted(ballots, living) == living \subseteq DOMAIN ballots

Vote(p, t) ==
    LET ballots == Put(votes, p, t) IN
    /\ phase = "DAY_VOTING" /\ p \in alive /\ t \in alive \cup {None}
    /\ \/ AllVoted(ballots, alive) /\ ResolveVote(ballots, alive)
       \/ /\ ~AllVoted(ballots, alive)
          /\ votes' = ballots
          /\ UNCHANGED <<phaseVars, alive, nightActions, lastWords, result>>
    /\ UNCHANGED <<memberVars, owner, adminVars, role, shooterUsed, investigations>>

Shoot(p, t) ==
    LET living  == alive \ {t}
        ballots == Prune(votes, living)
        tally   == phase = "DAY_VOTING" /\ AllVoted(ballots, living)
    IN
    /\ phase \in DayPhases /\ p \in alive
    /\ CanShoot(role[p]) /\ p \notin shooterUsed
    /\ t \in alive \ {p}
    /\ shooterUsed' = shooterUsed \cup {p}
    /\ \/ /\ Finish(living)
          /\ alive' = living /\ votes' = ballots
          /\ UNCHANGED <<round, nightActions, lastWords>>
       \/ ~Decided(living, role) /\ tally /\ ResolveVote(ballots, living)
       \/ /\ ~Decided(living, role) /\ ~tally
          /\ alive' = living /\ votes' = ballots
          /\ UNCHANGED <<phaseVars, nightActions, lastWords, result>>
    /\ UNCHANGED <<memberVars, owner, adminVars, role, investigations>>

---------------------------------------------------------------------------
(* applyPhaseTimeout: missing actions become passes, missing ballots blank *)

Complete(m, who) == [x \in DOMAIN m \cup who |-> IF x \in DOMAIN m THEN m[x] ELSE None]

NightTimeout ==
    /\ phase = "NIGHT"
    /\ ResolveNight(Complete(nightActions, NightActors))
    /\ UNCHANGED <<memberVars, owner, adminVars, role, shooterUsed>>

VotingTimeout ==
    /\ phase = "DAY_VOTING"
    /\ ResolveVote(Complete(votes, alive), alive)
    /\ UNCHANGED <<memberVars, owner, adminVars, role, shooterUsed, investigations>>

LastWordsTimeout ==
    /\ phase = "LAST_WORDS"
    /\ lastWords' = None
    /\ AdvanceAfterDay(alive)
    /\ UNCHANGED <<memberVars, owner, adminVars, role, alive, shooterUsed,
                   votes, investigations>>

PhaseTimeout ==
    /\ deadline = "reached"
    /\ \/ NightTimeout
       \/ phase = "DAY_DISCUSSION" /\ StartVoting
       \/ VotingTimeout
       \/ LastWordsTimeout

---------------------------------------------------------------------------
(* The environment.  The actor applies the events of its subscribers.      *)

\* Every event of a client's but the kick, which also cuts a connection.
RoomEvent(p) ==
    \/ \E b \in BOOLEAN : Ready(p, b) \/ Presence(p, b) \/ SetRoomLocked(p, b)
    \/ \E t \in Ids : TransferOwner(p, t)
    \/ \E n \in MinPlayersToStart .. MaxPlayersAllowed : SetPlayerLimit(p, n)
    \/ \E s \in Settings : SetGameSettings(p, s) \/ SetGamePreset(p, s)
    \/ \E deal \in Deals(players, settings.specials) : StartGame(p, deal)
    \/ ReturnToWaiting(p)
    \/ NightPass(p) \/ StartVote(p)
    \/ \E t \in Ids : NightAction(p, t) \/ Shoot(p, t)
    \/ \E t \in Ids \cup {None} : Vote(p, t)

ClientEvent(p) == RoomEvent(p) \/ \E t \in Ids : KickParticipant(p, t)

Arrival(p)   == (\E s \in BOOLEAN : Join(p, s)) \/ Reconnect(p)
Departure(p) == Leave(p) \/ Disconnect(p)

\* Whoever sends an event or goes is shown online.
Next ==
    \/ \E p \in connected : ClientEvent(p) \/ Departure(p)
    \/ \E p \in Ids : Arrival(p)
    \/ DeadlinePasses
    \/ PhaseTimeout

Spec == Init /\ [][Next]_vars

\* Only the server's clock and timer are sure to run; no player need act.
FairSpec == Spec /\ WF_vars(DeadlinePasses) /\ WF_vars(PhaseTimeout)

\* The open room: any id sends anything at any time.  The races of RoomActor let
\* a subscriber act that has no seat, or whose seat is shown offline.
OpenNext ==
    \/ \E p \in Ids : ClientEvent(p) \/ Departure(p) \/ Arrival(p)
    \/ DeadlinePasses
    \/ PhaseTimeout

OpenSpec == Init /\ [][OpenNext]_vars

=============================================================================
