----------------------------- MODULE RoomActor -----------------------------
(***************************************************************************)
(* The actor that owns a room (internal/room/actor.go) and the connection  *)
(* handlers around it (internal/ws/handler.go).                            *)
(*                                                                         *)
(* The actor serves one command at a time.  A handler gives it two to open *)
(* a connection, a join and then a subscription, so that anything may      *)
(* happen between them, and one to end it.  Every change of the room is    *)
(* sent to all subscribers; one whose channel is full loses its            *)
(* subscription.  An envelope is abstracted to the part of the public      *)
(* state it shows; chat, acknowledgements and error replies, which touch   *)
(* neither the room nor the subscriptions, are left out, and so are pings. *)
(***************************************************************************)
EXTENDS RoomState

CONSTANTS
    Conns,       \* connection handlers; a finished one serves again
    who,         \* the participant id a connection is for
    QueueSize,   \* the capacity of a subscriber's channel
    Terminal     \* "replaced by a newer session" or "removed by the owner"

\* what an envelope can show of the room; no envelope, and a last word, are neither
PublicViews == Phases \X (Ids \cup {None}) \X (SUBSET Ids) \X (SUBSET Ids) \X (SUBSET Ids)

ASSUME ActorAssumption ==
    /\ who \in [Conns -> Ids]
    /\ QueueSize \in Nat \ {0}
    /\ Terminal # None
    /\ None \notin PublicViews /\ Terminal \notin PublicViews

VARIABLES
    pc,          \* where each handler is
    subs,        \* the connections that are subscribed
    backlog,     \* envelopes waiting in each connection's channel
    last,        \* the last envelope put in it; None once it is closed without one
    dropped,     \* ids whose slow subscription was just dropped, still to disconnect
    ticking,     \* whether that happened while the actor served its phase timer
    idleArmed,   \* whether the idle timer runs
    closed,
    tokens       \* the ids whose browser knows the reconnect token of its seat

roomVars  == vars
connVars  == <<subs, backlog, last, dropped>>
timerVars == <<ticking, idleArmed>>
actorVars == <<roomVars, pc, connVars, timerVars, closed, tokens>>

Seats    == players \cup spectators
PublicView     == <<phase, owner, players, spectators, connected>>

\* The actor is at its select statement.
Free == dropped = {} /\ ~closed

ActorInit ==
    /\ Init
    /\ pc = [c \in Conns |-> "idle"]
    /\ subs = {} /\ dropped = {}
    /\ backlog = [c \in Conns |-> 0] /\ last = [c \in Conns |-> None]
    /\ ticking = FALSE /\ idleArmed = TRUE /\ closed = FALSE
    /\ tokens = {}

Goto(c, place) == pc' = [pc EXCEPT ![c] = place]

Of(p) == {c \in subs : who[c] = p}

---------------------------------------------------------------------------
(* Sending                                                                 *)

\* variant: the full channel is not drained for the last word
ChannelsUndrained(fed, cut) ==
    /\ backlog' = [c \in Conns |->
          IF pc'[c] = "idle" THEN 0
          ELSE IF c \in fed \cup cut THEN backlog[c] + 1 ELSE backlog[c]]
    /\ last' = [c \in Conns |->
          IF pc'[c] = "idle" THEN None
          ELSE IF c \in cut THEN Terminal
          ELSE IF c \in fed THEN PublicView'
          ELSE IF c \in subs \ subs' THEN None ELSE last[c]]

\* The channels after a step that leaves the subscriptions subs', puts the new
\* state into those in fed, and ends those in cut with a last word.
Channels(fed, cut) ==
    /\ backlog' = [c \in Conns |->
          IF pc'[c] = "idle" THEN 0
          ELSE IF c \in cut THEN 1
          ELSE IF c \in fed THEN backlog[c] + 1 ELSE backlog[c]]
    /\ last' = [c \in Conns |->
          IF pc'[c] = "idle" THEN None
          ELSE IF c \in cut THEN Terminal
          ELSE IF c \in fed THEN PublicView'
          ELSE IF c \in subs \ subs' THEN None ELSE last[c]]

\* variant: who is dropped stays online
BroadcastForgets(S, cut, due) ==
    LET slow == {c \in S : backlog[c] = QueueSize} IN
    /\ subs' = S \ slow
    /\ Channels(S \ slow, cut)
    /\ dropped' = due

\* broadcast to the subscriptions S: a full channel is closed at once, its
\* participant disconnected when the rest have been served.
Broadcast(S, cut, due) ==
    LET slow == {c \in S : backlog[c] = QueueSize} IN
    /\ subs' = S \ slow
    /\ Channels(S \ slow, cut)
    /\ dropped' = due \cup {who[c] : c \in slow}

\* variant: a tick never touches the idle timer
RearmOnCommand(tick) ==
    /\ ticking' = (tick /\ dropped' # {})
    /\ idleArmed' = IF dropped' # {} \/ tick THEN idleArmed ELSE subs' = {}

\* variant: a new subscriber stops the timer for good
RearmNever(tick) ==
    /\ ticking' = (tick /\ dropped' # {})
    /\ idleArmed' = (idleArmed /\ subs' = {})

\* resetIdleTimer, once the actor is done: always after a command; after a tick
\* only if the tick lost the last subscriber.
Rearm(tick) ==
    /\ ticking' = (tick /\ dropped' # {})
    /\ idleArmed' = IF dropped' # {} THEN idleArmed
                    ELSE IF tick THEN idleArmed \/ (ticking /\ subs' = {})
                    ELSE subs' = {}

\* A seat that is deleted takes its token with it.
ForgetTokens == tokens' = tokens \cap Seats'

\* variant: the seat is marked offline without the rest of a disconnect
MarkOffline(p) ==
    /\ p \in dropped
    /\ UNCHANGED pc
    /\ connected' = connected \ {p}
    /\ UNCHANGED <<phaseVars, players, spectators, afk, ready, owner, adminVars, gameVars>>
    /\ Broadcast(subs, {}, dropped \ {p})
    /\ Rearm(ticking)
    /\ UNCHANGED <<closed, tokens>>

\* The nested part of broadcast: the next dropped participant disconnects.
DisconnectDropped(p) ==
    /\ p \in dropped
    /\ UNCHANGED pc
    /\ \/ Disconnect(p) /\ Broadcast(subs, {}, dropped \ {p})
       \/ /\ p \notin Seats
          /\ dropped' = dropped \ {p}
          /\ UNCHANGED <<roomVars, subs, backlog, last>>
    /\ Rearm(ticking)
    /\ UNCHANGED <<closed, tokens>>

---------------------------------------------------------------------------
(* Commands                                                                *)

\* ServeHTTP: Dispatch of the join.  Only who knows the token gets a seat back.
DispatchJoin(c) ==
    /\ Free /\ pc[c] = "idle"
    /\ \/ \E s \in BOOLEAN : Join(who[c], s)
       \/ who[c] \in tokens /\ Reconnect(who[c])
    /\ Goto(c, "joined")
    /\ Broadcast(subs, {}, {})
    /\ Rearm(FALSE)
    /\ UNCHANGED <<closed, tokens>>

\* variant: the older subscription of the seat stays
SubscribeBeside(c) ==
    /\ Free /\ pc[c] = "joined"
    /\ Goto(c, "open") /\ UNCHANGED roomVars
    /\ subs' = subs \cup {c}
    /\ Channels({c}, {})
    /\ dropped' = {}
    /\ Rearm(FALSE)
    /\ UNCHANGED <<closed, tokens>>

\* SubscribeConnection: replaces the seat's subscription, whoever has the seat.
Subscribe(c) ==
    /\ Free /\ pc[c] = "joined"
    /\ Goto(c, "open") /\ UNCHANGED roomVars
    /\ subs' = (subs \ Of(who[c])) \cup {c}
    /\ Channels({c}, Of(who[c]))
    /\ dropped' = {}
    /\ Rearm(FALSE)
    /\ UNCHANGED <<closed, tokens>>

\* DispatchFrom: only a subscribed connection is heard.  A kick also cuts the
\* connection of its target.
FromClient(c) ==
    /\ Free /\ pc[c] = "open" /\ c \in subs
    /\ UNCHANGED pc
    /\ \/ RoomEvent(who[c]) /\ Broadcast(subs, {}, {})
       \/ \E t \in Ids : /\ KickParticipant(who[c], t)
                         /\ Broadcast(subs \ Of(t), Of(t), {})
    /\ Rearm(FALSE)
    /\ ForgetTokens
    /\ UNCHANGED closed

\* variant: the others are not told
UnsubscribeQuietly(c) ==
    /\ Free /\ pc[c] \in {"lost", "left"}
    /\ Goto(c, "idle")
    /\ \/ c \in subs /\ (IF pc[c] = "left" THEN Leave(who[c]) ELSE Disconnect(who[c]))
       \/ ~(c \in subs /\ who[c] \in Seats) /\ UNCHANGED roomVars
    /\ dropped' = {}
    /\ subs' = subs \ {c}
    /\ Channels({}, {})
    /\ Rearm(FALSE)
    /\ ForgetTokens
    /\ UNCHANGED closed

\* The unsubscribe command; nothing for a connection that was replaced, removed
\* or dropped.
Unsubscribe(c) ==
    /\ Free /\ pc[c] \in {"lost", "left"}
    /\ Goto(c, "idle")
    /\ \/ /\ c \in subs
          /\ IF pc[c] = "left" THEN Leave(who[c]) ELSE Disconnect(who[c])
          /\ Broadcast(subs \ {c}, {}, {})
       \/ /\ ~(c \in subs /\ who[c] \in Seats)
          /\ UNCHANGED roomVars
          /\ subs' = subs \ {c} /\ dropped' = {}
          /\ Channels({}, {})
    /\ Rearm(FALSE)
    /\ ForgetTokens
    /\ UNCHANGED closed

---------------------------------------------------------------------------
(* Timers                                                                  *)

PhaseTick ==
    /\ Free
    /\ PhaseTimeout
    /\ UNCHANGED pc
    /\ Broadcast(subs, {}, {})
    /\ Rearm(TRUE)
    /\ UNCHANGED <<closed, tokens>>

TimePasses ==
    /\ ~closed /\ DeadlinePasses
    /\ UNCHANGED <<pc, connVars, timerVars, closed, tokens>>

IdleClose ==
    /\ Free /\ idleArmed
    /\ closed' = TRUE /\ idleArmed' = FALSE
    /\ UNCHANGED <<roomVars, pc, connVars, ticking, tokens>>

---------------------------------------------------------------------------
(* The connection's own goroutines                                         *)

\* variant: a channel closed without a last word leaves the connection open
WriteOpenOnly(c) ==
    /\ pc[c] = "open" /\ backlog[c] > 0
    /\ backlog' = [backlog EXCEPT ![c] = @ - 1]
    /\ tokens' = IF last[c] # Terminal THEN tokens \cup ({who[c]} \cap Seats) ELSE tokens
    /\ IF last[c] = Terminal THEN Goto(c, "lost") ELSE UNCHANGED pc
    /\ UNCHANGED <<roomVars, subs, last, dropped, timerVars, closed>>

\* writePump: after a last word, or when the channel is closed and drained, it
\* closes the connection, and readPump returns.
Write(c) ==
    /\ pc[c] = "open"
    /\ \/ /\ backlog[c] > 0
          /\ backlog' = [backlog EXCEPT ![c] = @ - 1]
          /\ tokens' = IF last[c] # Terminal
                       THEN tokens \cup ({who[c]} \cap Seats) ELSE tokens
          /\ IF last[c] = Terminal THEN Goto(c, "lost") ELSE UNCHANGED pc
       \/ /\ backlog[c] = 0 /\ c \notin subs
          /\ Goto(c, "lost")
          /\ UNCHANGED <<backlog, tokens>>
    /\ UNCHANGED <<roomVars, subs, last, dropped, timerVars, closed>>

\* readPump returns: the client leaves for good, or the transport is lost.
ConnectionEnds(c) ==
    /\ pc[c] = "open"
    /\ \E end \in {"lost", "left"} : Goto(c, end)
    /\ UNCHANGED <<roomVars, connVars, timerVars, closed, tokens>>

\* A handler whose command finds the actor closed gives up.
GiveUp(c) ==
    /\ closed /\ pc[c] \in {"joined", "lost", "left"}
    /\ Goto(c, "idle")
    /\ backlog' = [backlog EXCEPT ![c] = 0]
    /\ last' = [last EXCEPT ![c] = None]
    /\ UNCHANGED <<roomVars, subs, dropped, timerVars, closed, tokens>>

---------------------------------------------------------------------------

Handler(c) ==
    \/ DispatchJoin(c) \/ Subscribe(c) \/ FromClient(c) \/ Unsubscribe(c)
    \/ Write(c) \/ ConnectionEnds(c) \/ GiveUp(c)

ActorNext ==
    \/ \E c \in Conns : Handler(c)
    \/ \E p \in Ids : DisconnectDropped(p)
    \/ PhaseTick \/ TimePasses \/ IdleClose

ActorSpec == ActorInit /\ [][ActorNext]_actorVars

\* Goroutines run; commands waiting for the actor's unbuffered inbox are served
\* in turn, so that none waits for ever while others are served; the idle timer
\* fires.  Nothing is assumed of clients or of the network.
ActorFairness ==
    /\ \A c \in Conns :
          /\ SF_actorVars(Subscribe(c)) /\ SF_actorVars(Unsubscribe(c))
          /\ WF_actorVars(Write(c)) /\ WF_actorVars(GiveUp(c))
    /\ WF_actorVars(\E p \in Ids : DisconnectDropped(p))
    /\ WF_actorVars(IdleClose)

=============================================================================
