----------------------------- MODULE NightLoop -----------------------------
(***************************************************************************)
(* resolveNight of internal/room/state.go as the loop it is: the night's   *)
(* actions in the order OrderNightActions (rules.go) gives them, each      *)
(* acting on what the ones before it left.                                 *)
(***************************************************************************)
EXTENDS RoomState

\* nightActionPriority; a pass comes after everything else
Priority(type) ==
    CASE type = "ESCORT"    -> 10
      [] type = "DOCTOR"    -> 20
      [] type = "KILLER"    -> 30
      [] type = "DETECTIVE" -> 40
      [] OTHER              -> 50

NightAct(p, t) == [by |-> p, target |-> t, type |-> IF t = None THEN None ELSE role[p]]

NightActs(acts) == {NightAct(p, acts[p]) : p \in DOMAIN acts}

ActsBefore(a, b) ==
    \/ Priority(a.type) < Priority(b.type)
    \/ Priority(a.type) = Priority(b.type) /\ a.by < b.by

\* variant: by player id alone
ById(acts) ==
    CHOOSE order \in [1 .. Cardinality(NightActs(acts)) -> NightActs(acts)] :
        \A i, j \in DOMAIN order : i < j => order[i].by < order[j].by

\* All of them in order.  No two players are the same, so there is one order.
OrderNightActions(acts) ==
    CHOOSE order \in [1 .. Cardinality(NightActs(acts)) -> NightActs(acts)] :
        \A i, j \in DOMAIN order : i < j => ActsBefore(order[i], order[j])

\* the body of the loop
Act(night, a) ==
    IF a.by \in night.blocked THEN night
    ELSE CASE a.type = "ESCORT" -> [night EXCEPT !.blocked = @ \cup {a.target}]
           [] a.type = "DOCTOR" -> [night EXCEPT !.protected = @ \cup {a.target}]
           [] a.type = "KILLER" /\ a.target \notin night.protected
                                -> [night EXCEPT !.living = @ \ {a.target}]
           [] a.type = "DETECTIVE" /\ a.target \in players
                                -> [night EXCEPT !.learned = @ \cup
                                      {[by |-> a.by, round |-> round, target |-> a.target,
                                        killer |-> IsKillerAligned(role[a.target])]}]
           [] OTHER             -> night

Dusk == [blocked |-> {}, protected |-> {}, living |-> alive, learned |-> {}]

\* What each turn of the loop leaves; turn 0 is what it finds.
Turns(order) ==
    LET turn[i \in {0} \cup DOMAIN order] ==
            IF i = 0 THEN Dusk ELSE Act(turn[i - 1], order[i])
    IN  turn

Walk(acts) == Turns(OrderNightActions(acts))[Cardinality(NightActs(acts))]

---------------------------------------------------------------------------

\* Whatever has been submitted when the night ends, and in whatever order the map
\* yields it, the loop does what RoomState's four stages do, by which the room's
\* properties are checked and proved (resolveNight, OrderNightActions).
NightIsStaged ==
    phase = "NIGHT" =>
        LET acts == Complete(nightActions, NightActors)
            end  == Walk(acts)
        IN  /\ end.living = alive \ NightKilled(acts, role, alive)
            /\ end.learned = Findings(acts, role, players, round)

=============================================================================
