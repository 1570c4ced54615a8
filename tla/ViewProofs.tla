----------------------------- MODULE ViewProofs -----------------------------
(***************************************************************************)
(* What the participants of a room are shown, for every room and match.    *)
(***************************************************************************)
EXTENDS PlayProofs, RoomViews

USE DEF phaseVars, memberVars, adminVars, nightVars, gameVars

---------------------------------------------------------------------------
(* Roles                                                                   *)

\* Two other players' exchanged roles, neither of them public, look the same.
LEMMA SwapLooksSame ==
    ASSUME Typed, phase \in TimedPhases, NEW p \in Ids,
           NEW a \in players \ {p}, NEW b \in players \ {p}, ~RoleShown(a), ~RoleShown(b)
    PROVE  View(p, Swap(role, a, b)) = View(p, role)
<1>. DEFINE swapped == Swap(role, a, b)
<1>1. DOMAIN role = players
  BY DEF Typed, RoomTypeOK, TimedPhases
<1>2. /\ DOMAIN swapped = players
      /\ \A q \in players \ {a, b} : swapped[q] = role[q]
  BY <1>1 DEF Swap
<1>. HIDE DEF swapped
<1>3. \A q \in players : PlayerView(q, swapped) = PlayerView(q, role)
  <2>1. ASSUME NEW q \in players, RoleShown(q) PROVE swapped[q] = role[q]
    BY <1>2, <2>1
  <2>. QED BY <2>1 DEF PlayerView
<1>4. Snapshot(swapped) = Snapshot(role) BY <1>3, Zenon DEF Snapshot
<1>5. RoleIn(p, swapped) = RoleIn(p, role) BY <1>1, <1>2 DEF RoleIn
<1>6. PrivateView(p, swapped) = PrivateView(p, role)
  BY <1>5 DEF PrivateView, ActsAtNight, Available, MayShoot
<1>. QED BY <1>4, <1>6 DEF View, swapped

\* While a match is on, nothing a participant is shown tells two other players'
\* roles apart, unless a death has made one of them public: neither the snapshot
\* nor the private view leaks a role (Snapshot, PrivateView).
THEOREM RolesStaySecret == OpenSpec => []RolesSecret
<1>1. Typed => RolesSecret
  <2>. SUFFICES ASSUME Typed, phase \in TimedPhases, NEW p \in Ids,
                       NEW a \in {q \in players \ {p} : ~(settings.reveal /\ q \notin alive)},
                       NEW b \in {q \in players \ {p} : ~(settings.reveal /\ q \notin alive)}
                PROVE  View(p, Swap(role, a, b)) = View(p, role)
    BY DEF RolesSecret
  <2>1. ~RoleShown(a) /\ ~RoleShown(b) BY DEF RoleShown, TimedPhases
  <2>. QED BY <2>1, SwapLooksSame
<1>2. Init => Typed BY InitTyped
<1>3. Typed /\ [OpenNext]_vars => Typed' BY NextTyped
<1>. QED BY <1>1, <1>2, <1>3, PTL DEF OpenSpec

---------------------------------------------------------------------------
(* Moves                                                                   *)

\* All that a snapshot shows, and all that a private view adds to it.
LEMMA SameSnapshot ==
    ASSUME UNCHANGED <<phase, round, memberVars, owner, adminVars, role, alive,
                       lastWords, result>>,
           (deadline # "none") = (deadline' # "none")
    PROVE  UNCHANGED Snapshot(role)
<1>1. \A q : UNCHANGED PlayerView(q, role)
  BY DEF PlayerView, ShownAlive, RoleShown
<1>. QED BY <1>1 DEF Snapshot

LEMMA SamePrivateView ==
    ASSUME UNCHANGED <<phase, players, spectators, role, alive, shooterUsed, investigations>>,
           NEW p,
           p \in DOMAIN nightActions' <=> p \in DOMAIN nightActions,
           p \in DOMAIN votes' <=> p \in DOMAIN votes,
           p \in DOMAIN votes => votes'[p] = votes[p]
    PROVE  UNCHANGED PrivateView(p, role)
  BY DEF PrivateView, ShownAlive, RoleIn, ActsAtNight, CanVote, MayShoot, Available

HandsIn ==
    /\ phase \in {"NIGHT", "DAY_VOTING"}
    /\ UNCHANGED <<phase, alive, memberVars, owner, adminVars>>

\* Such a step is somebody's submission, or none that the match notices.
LEMMA HandsInOnly ==
    ASSUME Play, HandsIn
    PROVE  Aside \/ NightRecorded \/ BallotRecorded
<1>. USE DEF HandsIn
<1>1. ~InLobby /\ ~Starts /\ ~KickAfterMatch /\ ~SpeechEnds
  BY DEF InLobby, Starts, KickAfterMatch, SpeechEnds
<1>2. ~NightResolved BY NightEnds DEF NightResolved
<1>3. ~BallotOpens BY DEF BallotOpens
<1>4. ~BallotResolved BY BallotEnds, AdvanceEnds DEF BallotResolved
<1>5. ~ShotDecides /\ ~ShotHeard BY DEF ShotDecides, ShotHeard, Shot
<1>. QED BY <1>1, <1>2, <1>3, <1>4, <1>5 DEF Play

LEMMA HandingInIsPrivate ==
    ASSUME Typed, Typed', Play, HandsIn
    PROVE  OthersSeeNothing
<1>1. Aside \/ NightRecorded \/ BallotRecorded BY HandsInOnly
<1>2. UNCHANGED <<phase, round, memberVars, owner, adminVars, role, alive, shooterUsed,
                  investigations, lastWords, result>>
  BY <1>1 DEF HandsIn, Aside, NightRecorded, BallotRecorded, Cast
<1>3. (deadline # "none") = (deadline' # "none")
  BY <1>2 DEF Typed, RoomTypeOK, InGame
<1>4. UNCHANGED Snapshot(role) BY <1>2, <1>3, SameSnapshot
<1>5. alive \subseteq Ids /\ NightActors \subseteq Ids
  BY DEF Typed, RoomTypeOK, NightActors
<1>6. ASSUME NEW p \in Ids PROVE UNCHANGED PrivateView(p, role) \/ Submits(p)
  <2>1. CASE Aside BY <1>2, <2>1, SamePrivateView DEF Aside
  <2>2. CASE NightRecorded
    <3>1. nightActions' # Complete(nightActions, NightActors)
      BY <2>2 DEF NightRecorded, AllSubmitted, Complete
    <3>2. PICK q \in NightActors, v \in alive \cup {None} :
             nightActions' = Put(nightActions, q, v)
      BY <2>2, <3>1 DEF NightRecorded, NightSheets
    <3>3. CASE q = p BY <1>5, <3>2, <3>3 DEF Submits
    <3>4. CASE q # p
      <4>1. p \in DOMAIN nightActions' <=> p \in DOMAIN nightActions
        BY <3>2, <3>4 DEF Put
      <4>. QED BY <1>2, <2>2, <4>1, SamePrivateView DEF NightRecorded
    <3>. QED BY <3>3, <3>4
  <2>3. CASE BallotRecorded
    <3>1. PICK q \in alive, v \in alive \cup {None} : votes' = Put(votes, q, v)
      BY <2>3 DEF BallotRecorded
    <3>2. CASE q = p BY <1>5, <3>1, <3>2 DEF Submits
    <3>3. CASE q # p
      <4>1. /\ p \in DOMAIN votes' <=> p \in DOMAIN votes
            /\ p \in DOMAIN votes => votes'[p] = votes[p]
        BY <3>1, <3>3 DEF Put
      <4>. QED BY <1>2, <2>3, <4>1, SamePrivateView DEF BallotRecorded
    <3>. QED BY <3>2, <3>3
  <2>. QED BY <1>1, <2>1, <2>2, <2>3
<1>. QED BY <1>4, <1>6 DEF OthersSeeNothing

\* However many submit, and in whatever order, an open night or ballot shows the
\* others nothing: that somebody has acted or voted is seen by that player alone
\* (applyNightAction, applyVote and what is broadcast after them).
THEOREM MovesStayHidden == OpenSpec => HiddenMoves
<1>1. Init => Typed BY InitTyped
<1>2. Typed /\ [OpenNext]_vars => Typed' BY NextTyped
<1>3. Typed /\ Typed' /\ [OpenNext]_vars => [HandsIn => OthersSeeNothing]_vars
  BY NextIsPlay, HandingInIsPrivate
<1>. QED BY <1>1, <1>2, <1>3, PTL DEF OpenSpec, HiddenMoves, HandsIn

=============================================================================
