----------------------------- MODULE RoomViews -----------------------------
(***************************************************************************)
(* What a room shows its participants: Snapshot, PrivateView and           *)
(* EnvelopeForPlayer of internal/room/state.go.  A view is taken as a      *)
(* function of the roles r, so that it can be asked what it would be had   *)
(* the roles been dealt otherwise.                                         *)
(*                                                                         *)
(* Names, tokens, timestamps and the log are left out; a deadline is shown *)
(* as a time, which does not change when it is reached.                    *)
(***************************************************************************)
EXTENDS RoomState

\* variant: the setting is forgotten
ShownForDeath(q) ==
    \/ phase = "FINISHED"
    \/ phase # "WAITING" /\ q \notin alive

\* whose role everybody sees
RoleShown(q) ==
    \/ phase = "FINISHED"
    \/ settings.reveal /\ phase # "WAITING" /\ q \notin alive

ShownAlive(q) == phase = "WAITING" \/ q \in alive

\* PlayerView
PlayerView(q, r) ==
    [ready |-> q \in ready, connected |-> q \in connected, owner |-> q = owner,
     alive |-> ShownAlive(q), afk |-> q \in afk,
     role  |-> IF RoleShown(q) THEN r[q] ELSE None]

\* variant: everybody sees how many have submitted
SnapshotCounting(r) ==
    [owner |-> owner, phase |-> phase, timed |-> deadline # "none", round |-> round,
     players |-> [q \in players |-> PlayerView(q, r)],
     submitted |-> Cardinality(DOMAIN nightActions)]

Snapshot(r) ==
    [owner |-> owner, phase |-> phase, timed |-> deadline # "none", round |-> round,
     players |-> [q \in players |-> PlayerView(q, r)],
     spectators |-> [q \in spectators |-> [connected |-> q \in connected, afk |-> q \in afk]],
     locked |-> locked, maxPlayers |-> maxPlayers, settings |-> settings,
     lastWords |-> lastWords, result |-> result]

RoleIn(p, r) == IF p \in DOMAIN r THEN r[p] ELSE None

ActsAtNight(p, r) == phase = "NIGHT" /\ p \in alive /\ HasNightAction(RoleIn(p, r))
CanVote(p)        == phase = "DAY_VOTING" /\ p \in alive

\* variant: a shot does not use up the ability
MayShootAgain(p, r) == phase \in DayPhases /\ p \in alive /\ CanShoot(RoleIn(p, r))

MayShoot(p, r) ==
    phase \in DayPhases /\ p \in alive /\ CanShoot(RoleIn(p, r)) /\ p \notin shooterUsed

\* PrivatePlayerView.Available
Available(p, r) ==
    (IF ActsAtNight(p, r) THEN {"night_action", "night_pass"} ELSE {})
        \cup (IF CanVote(p) THEN {"vote"} ELSE {})
        \cup (IF MayShoot(p, r) THEN {"shoot"} ELSE {})

PrivateView(p, r) ==
    IF p \in players
    THEN [alive |-> ShownAlive(p),
          role  |-> IF phase = "WAITING" THEN None ELSE RoleIn(p, r),
          actionRequired |-> ActsAtNight(p, r) /\ p \notin DOMAIN nightActions,
          votedFor  |-> IF CanVote(p) /\ p \in DOMAIN votes THEN votes[p] ELSE None,
          available |-> Available(p, r),
          investigations |-> {i \in investigations : i.by = p}]
    ELSE [spectator |-> p \in spectators]

\* EnvelopeForPlayer
View(p, r) == <<Snapshot(r), PrivateView(p, r)>>

---------------------------------------------------------------------------

\* Two roles exchanged
Swap(r, a, b) == [r EXCEPT ![a] = r[b], ![b] = r[a]]

\* Until the match is over nobody is shown anything that two other players'
\* exchanging their roles would change, unless a death has made one of the roles
\* public: the projection boundary (Snapshot, PrivateView).
RolesSecret ==
    phase \in TimedPhases =>
        \A p \in Ids :
            \A a, b \in {q \in players \ {p} : ~(settings.reveal /\ q \notin alive)} :
                a < b => View(p, Swap(role, a, b)) = View(p, role)

Submits(p) ==
    \E t \in Ids \cup {None} :
        nightActions' = Put(nightActions, p, t) \/ votes' = Put(votes, p, t)

\* While a night or a ballot stays open, nobody dies and the owner changes no
\* setting, nobody sees a change but who has just submitted, and that one only in
\* private (applyNightAction, applyVote and what is broadcast after them).
OthersSeeNothing ==
    /\ UNCHANGED Snapshot(role)
    /\ \A p \in Ids : UNCHANGED PrivateView(p, role) \/ Submits(p)

HiddenMoves ==
    [][ /\ phase \in {"NIGHT", "DAY_VOTING"}
        /\ UNCHANGED <<phase, alive, memberVars, owner, adminVars>>
        => OthersSeeNothing ]_vars

\* What a player is offered is exactly what the room would accept of it just then
\* (PrivateView's Available against the guards of the handlers).
OffersHonoured ==
    \A p \in Ids :
        LET offered == IF p \in players THEN Available(p, role) ELSE {} IN
        /\ "night_action" \in offered <=> ENABLED \E t \in Ids : NightAction(p, t)
        /\ "night_pass" \in offered <=> ENABLED NightPass(p)
        /\ "vote" \in offered <=> ENABLED \E t \in Ids \cup {None} : Vote(p, t)
        /\ "shoot" \in offered <=> ENABLED \E t \in Ids : Shoot(p, t)

=============================================================================
