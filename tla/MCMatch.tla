------------------------------ MODULE MCMatch ------------------------------
(***************************************************************************)
(* Matches of more players and roles than MCRoom can afford.  Everybody    *)
(* has joined, is ready and stays; the owner may call a match off and deal *)
(* the next one.                                                           *)
(***************************************************************************)
EXTENDS RoomSafety, RoomViews, NightLoop

CONSTANTS
    MaxRound,
    Enabled,    \* the special roles of every match
    Reveals,    \* whether the roles of the dead become public
    Owners,     \* who may own the room
    Ballots     \* who may be voted for

Dealer     == [minimum |-> 2, specials |-> Enabled, reveal |-> FALSE]
MCSettings == {[Dealer EXCEPT !.reveal = b] : b \in BOOLEAN}

\* Only the owner's identity sets the players of the lobby apart, so one deal
\* with every possible owner stands for all deals with one owner.  No handler
\* compares an owner with a role, so a few owners stand for every one.
MCDeal == CHOOSE d \in Deals(Ids, Enabled) : TRUE

MCInit ==
    /\ phase = "WAITING" /\ deadline = "none" /\ round = 0
    /\ players = Ids /\ spectators = {} /\ connected = Ids /\ afk = {} /\ ready = Ids
    /\ owner \in Owners /\ locked = FALSE /\ maxPlayers = DefaultMaxPlayers
    /\ settings \in {s \in Settings : s.reveal \in Reveals}
    /\ role = Empty /\ alive = Ids /\ shooterUsed = {}
    /\ nightActions = Empty /\ votes = Empty /\ investigations = {}
    /\ lastWords = None /\ result = None

Play(p) ==
    \/ Ready(p, TRUE)
    \/ StartGame(p, MCDeal)
    \/ ReturnToWaiting(p)
    \/ NightPass(p) \/ StartVote(p)
    \/ \E t \in Ids : NightAction(p, t) \/ Shoot(p, t)
    \/ \E t \in Ballots : Vote(p, t)

MCNext ==
    /\ \/ \E p \in connected : Play(p)
       \/ PhaseTimeout
       \/ DeadlinePasses
    /\ round' <= MaxRound

MCSpec == MCInit /\ [][MCNext]_vars

\* Only the server's clock and its timer are sure to run; one waits for the other.
MCFairSpec == MCSpec /\ WF_vars(DeadlinePasses \/ PhaseTimeout)

=============================================================================
