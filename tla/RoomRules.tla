----------------------------- MODULE RoomRules -----------------------------
(***************************************************************************)
(* The role registry of internal/room/rules.go (defaultRuleSet): what each *)
(* role may do, the deck a game is dealt from, and what one night does.    *)
(* Only pure operators; RoomState is the state machine built on them.      *)
(***************************************************************************)
EXTENDS Naturals, FiniteSets

CONSTANT None    \* Go's empty string: no owner, an abstention, a pass

Specials == {"KILLER", "DETECTIVE", "DOCTOR", "ESCORT", "SHOOTER"}
Roles    == Specials \cup {"VILLAGER"}

HasNightAction(r)  == r \in {"KILLER", "DETECTIVE", "DOCTOR", "ESCORT"}
AllowSelfTarget(r) == r = "DOCTOR"
CanShoot(r)        == r = "SHOOTER"
IsKillerAligned(r) == r = "KILLER"

---------------------------------------------------------------------------
(* Dealing: deckOrder, one seat kept for a villager, then a shuffle.       *)

DeckRank == [r \in Specials |->
                CASE r = "KILLER"    -> 1
                  [] r = "DETECTIVE" -> 2
                  [] r = "DOCTOR"    -> 3
                  [] r = "ESCORT"    -> 4
                  [] r = "SHOOTER"   -> 5]

\* The special roles that fit n seats: the first n - 1 enabled ones.
Dealt(n, enabled) ==
    {r \in enabled : Cardinality({q \in enabled : DeckRank[q] < DeckRank[r]}) < n - 1}

\* Every shuffle of the deck over the seats P.
Deals(P, enabled) ==
    LET special == Dealt(Cardinality(P), enabled)
    IN  {d \in [P -> special \cup {"VILLAGER"}] :
            \A r \in special : \E p \in P : {q \in P : d[q] = r} = {p}}

---------------------------------------------------------------------------
(* One night.  acts maps each submitter to its target, None for a pass.    *)
(* resolveNight walks the actions in priority order, skipping blocked      *)
(* players: block (10), protect (20), kill (30), investigate (40).  The    *)
(* deck holds one player per special role, so the walk is these four       *)
(* stages.                                                                 *)

Targets(acts, role, r, blocked) ==
    {acts[p] : p \in {q \in DOMAIN acts : role[q] = r /\ q \notin blocked}} \ {None}

NobodyBlocked(acts, role) == {}                             \* variant

Blocked(acts, role)   == Targets(acts, role, "ESCORT", {})
Protected(acts, role) == Targets(acts, role, "DOCTOR", Blocked(acts, role))
NightKilled(acts, role, living) ==
    (Targets(acts, role, "KILLER", Blocked(acts, role))
        \ Protected(acts, role)) \cap living

\* variant: the alignment is the detective's own
FindingsOfSelf(acts, role, seated, night) ==
    {[by |-> d, round |-> night, target |-> acts[d],
      killer |-> IsKillerAligned(role[d])] :
        d \in {q \in DOMAIN acts : role[q] = "DETECTIVE" /\ acts[q] \in seated}}

\* The detectives' results.  The killer acts before them, so a detective
\* killed this night still learns what it asked.
Findings(acts, role, seated, night) ==
    {[by |-> d, round |-> night, target |-> acts[d],
      killer |-> IsKillerAligned(role[acts[d]])] :
        d \in {q \in DOMAIN acts : /\ role[q] = "DETECTIVE"
                                   /\ q \notin Blocked(acts, role)
                                   /\ acts[q] \in seated}}

---------------------------------------------------------------------------
(* Votes: topVoteTarget.  A ballot of None abstains.                       *)

Tally(ballots, t) == Cardinality({v \in DOMAIN ballots : ballots[v] = t})

Leaders(ballots) ==
    LET named == {ballots[v] : v \in DOMAIN ballots} \ {None}
    IN  {t \in named : \A u \in named : Tally(ballots, u) <= Tally(ballots, t)}

PruneNothing(ballots, living) == ballots                    \* variant

\* pruneVotes: ballots of the dead go, ballots for the dead become blank.
Prune(ballots, living) ==
    [v \in DOMAIN ballots \cap living |->
        IF ballots[v] \in living THEN ballots[v] ELSE None]

---------------------------------------------------------------------------
(* Win detection: checkWin.                                                *)

Killers(living, role) == {p \in living : IsKillerAligned(role[p])}

\* variant: a draw in numbers plays on
DecidedByMajority(living, role) ==
    \/ Killers(living, role) = {}
    \/ Cardinality(Killers(living, role)) > Cardinality(living \ Killers(living, role))

Decided(living, role) ==
    \/ Killers(living, role) = {}
    \/ Cardinality(Killers(living, role)) >= Cardinality(living \ Killers(living, role))

WinnerSwapped(living, role) ==                              \* variant
    IF Killers(living, role) = {} THEN "KILLERS" ELSE "VILLAGERS"

Winner(living, role) ==
    IF Killers(living, role) = {} THEN "VILLAGERS" ELSE "KILLERS"

=============================================================================
