---------------------------- MODULE ActorSafety ----------------------------
(***************************************************************************)
(* The properties of the actor and its connections.  Those about the room  *)
(* as the subscribers see it hold when the actor is free, between two      *)
(* commands.                                                               *)
(***************************************************************************)
EXTENDS RoomActor, RoomSafety

\* Every variable of the actor has its type, and a channel is never over its
\* capacity, which would block the actor (actor.go: run, broadcast).
ActorTypeOK ==
    /\ pc \in [Conns -> {"idle", "joined", "open", "lost", "left"}]
    /\ subs \subseteq {c \in Conns : pc[c] \in {"open", "lost", "left"}}
    /\ backlog \in [Conns -> 0 .. QueueSize]
    /\ \A c \in Conns :
          IF c \in subs THEN last[c] \notin {None, Terminal}
          ELSE last[c] \in {None, Terminal}
    /\ dropped \subseteq Ids /\ tokens \subseteq Seats
    /\ ticking \in BOOLEAN /\ idleArmed \in BOOLEAN /\ closed \in BOOLEAN

\* However connections for one seat overlap, it has one subscription: the
\* newer replaces the older (disconnectParticipant in run).
OneSubscriptionPerSeat ==
    \A c, d \in subs : who[c] = who[d] => c = d

\* Whoever is subscribed has been sent the room as it is now: no step changes
\* what the room shows without telling every subscriber (run, broadcast).
SubscribersHearLatest ==
    Free => \A c \in subs : last[c] = PublicView

\* Nobody is shown online without a connection: there is a subscription, one
\* is on its way, or the disconnect of a dropped one is (run, broadcast).
OnlineIsBacked ==
    ~closed => \A p \in connected :
        p \in dropped \/ \E c \in Conns : who[c] = p /\ (c \in subs \/ pc[c] = "joined")

\* Between two commands the idle timer runs exactly while nobody is subscribed:
\* else the room would close on somebody, or never (resetIdleTimer).
IdleTimerArmed ==
    Free => (idleArmed <=> subs = {})

\* Whatever connections, clients and timers do, the room takes only the steps of
\* its own handlers, one at a time, each with all that it does: what holds of an
\* open room holds under the actor (run, DispatchFrom, disconnectParticipant).
ServesRoom == OpenSpec

\* A connection that lost its subscription, or its client, comes to its end
\* (writePump, readPump, unsubscribe).
ConnectionsWindDown ==
    \A c \in Conns :
        pc[c] \in {"lost", "left"} \/ (pc[c] = "open" /\ c \notin subs) ~> pc[c] = "idle"

\* A room that everybody has left closes, unless somebody comes (run: idleC).
EmptyRoomCloses ==
    (\A c \in Conns : pc[c] = "idle") ~> (closed \/ \E c \in Conns : pc[c] # "idle")

---------------------------------------------------------------------------
(* What the documents and tests say, and the races break                   *)

\* A removed participant's connection is cut: docs/websocket-protocol.md has
\* "Being kicked sends `removed from room by the owner` and closes the socket".
SubscribersSeated ==
    Free => \A c \in subs : who[c] \in Seats

\* A reconnect replaces the older connection whole: docs/architecture.md has it
\* "atomically replaces that subscription", and reliability_test.go calls it a
\* failure if a "stale disconnect marked replacement offline".
SubscribersOnline ==
    Free => \A c \in subs : who[c] \in Seats => who[c] \in connected

\* docs/websocket-protocol.md: "The first seated player becomes owner".
FirstSeatedOwns ==
    [][ players = {} /\ players' # {} => owner' \in players' ]_actorVars

=============================================================================
