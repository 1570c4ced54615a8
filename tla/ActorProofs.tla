---------------------------- MODULE ActorProofs ----------------------------
(***************************************************************************)
(* Theorems about RoomActor, for any number of participants, connections   *)
(* and envelopes in a channel.                                             *)
(*                                                                         *)
(* For the room, the actor is one environment among those of an open room: *)
(* what is proved of the open room holds under the actor.  What holds only *)
(* if senders are shown online does not, and the races show it.            *)
(***************************************************************************)
EXTENDS ActorSafety, ViewProofs

USE DEF phaseVars, memberVars, adminVars, nightVars, gameVars, vars,
        roomVars, connVars, timerVars

---------------------------------------------------------------------------
(* The actor implements the open room                                      *)

\* Each step of the actor, of its clocks and of its connections is one event of the
\* room, or none.
LEMMA ActorMovesRoom ==
    ASSUME [ActorNext]_actorVars
    PROVE  [OpenNext]_vars
<1>1. ASSUME NEW c \in Conns, Handler(c) PROVE [OpenNext]_vars
  <2>1. who[c] \in Ids BY ActorAssumption
  <2>2. CASE DispatchJoin(c) BY <2>1, <2>2 DEF DispatchJoin, OpenNext, Arrival
  <2>3. CASE FromClient(c) BY <2>1, <2>3 DEF FromClient, OpenNext, ClientEvent
  <2>4. CASE Unsubscribe(c) BY <2>1, <2>4 DEF Unsubscribe, OpenNext, Departure
  <2>5. CASE Subscribe(c) \/ Write(c) \/ ConnectionEnds(c) \/ GiveUp(c)
    BY <2>5 DEF Subscribe, Write, ConnectionEnds, GiveUp
  <2>. QED BY <1>1, <2>2, <2>3, <2>4, <2>5 DEF Handler
<1>2. ASSUME NEW p \in Ids, DisconnectDropped(p) PROVE [OpenNext]_vars
  BY <1>2 DEF DisconnectDropped, OpenNext, Departure
<1>3. CASE PhaseTick BY <1>3 DEF PhaseTick, OpenNext
<1>4. CASE TimePasses BY <1>4 DEF TimePasses, OpenNext
<1>5. CASE IdleClose BY <1>5 DEF IdleClose
<1>6. CASE UNCHANGED actorVars BY <1>6 DEF actorVars
<1>. QED BY <1>1, <1>2, <1>3, <1>4, <1>5, <1>6 DEF ActorNext

\* However connections overlap, break and are replaced, however slow subscribers are
\* dropped in the middle of a broadcast, the room below sees whole events of its own,
\* one at a time (run, DispatchFrom, broadcast).
THEOREM ActorServesRoom == ActorSpec => ServesRoom
<1>1. ActorInit => Init BY DEF ActorInit
<1>2. [ActorNext]_actorVars => [OpenNext]_vars BY ActorMovesRoom
<1>. QED BY <1>1, <1>2, PTL DEF ActorSpec, ServesRoom, OpenSpec

\* So the races of the actor spoil no match: a room played over real connections
\* plays a CouncilMatch (actor.go and state.go together).
THEOREM ActorPlaysMatch == ActorSpec => ImplementsMatch
  BY ActorServesRoom, RoomPlaysMatch DEF ServesRoom

\* Nor its secrets, its limits, its seats and what is on its ballots; and the owner is
\* lost only as RoomKeepsOwner says (actor.go and state.go together).
THEOREM RacesSpoilNoMatch ==
    ActorSpec => /\ []UndecidedPlay /\ []SomeoneToWaitFor /\ []BallotsLive
                 /\ []SpeakerIsExecuted /\ []InvestigationsTrue /\ []NightIsStaged
                 /\ DeadStayDead /\ ResultIsRight /\ NightOutcome
                 /\ []RolesSecret /\ HiddenMoves
                 /\ SeatsFixed /\ []Capacity /\ OwnerKept
<1>1. OpenSpec => /\ []UndecidedPlay /\ []SomeoneToWaitFor /\ []BallotsLive
                  /\ []SpeakerIsExecuted /\ []InvestigationsTrue /\ []NightIsStaged
  BY PlayEndsWhenDecided, NobodyWaitsInVain, SheetsAreLive, OnlyTheExecutedSpeak,
     DetectivesLearnTheTruth, LoopIsStaged
<1>2. OpenSpec => DeadStayDead /\ ResultIsRight /\ NightOutcome /\ []RolesSecret /\ HiddenMoves
  BY TheDeadStayDead, ResultFitsSurvivors, NightKeepsItsRules, RolesStaySecret, MovesStayHidden
<1>3. OpenSpec => SeatsFixed /\ []Capacity /\ OwnerKept
  BY SeatsAreFixed, RoomKeepsWithinLimits, RoomKeepsOwner
<1>. QED BY <1>1, <1>2, <1>3, ActorServesRoom DEF ServesRoom

---------------------------------------------------------------------------
(* Who is online after an event of the room                                *)

\* Between its commands and within them, the actor's room is well typed.
LEMMA RoomUnderActorTyped == ActorSpec => []Typed
<1>1. RoomTypeOK /\ CleanLobby => Typed BY DEF Typed
<1>. QED BY <1>1, ActorServesRoom, TypesHold, PTL DEF ServesRoom

SeatsTyped ==
    /\ phase \in Phases
    /\ players \subseteq Ids /\ spectators \subseteq Ids
    /\ connected \subseteq Seats
    /\ owner \in Ids \cup {None}

LEMMA TypedSeats ==
    /\ Typed => SeatsTyped
    /\ Typed' => SeatsTyped'
  BY DEF Typed, RoomTypeOK, SeatsTyped, Seats, Seated

LEMMA ViewTyped ==
    /\ SeatsTyped => PublicView \in PublicViews
    /\ SeatsTyped' => PublicView' \in PublicViews
<1>1. ASSUME SeatsTyped PROVE PublicView \in PublicViews
  <2>1. players \in SUBSET Ids /\ spectators \in SUBSET Ids /\ connected \in SUBSET Ids
    BY <1>1 DEF SeatsTyped, Seats
  <2>. QED BY <1>1, <2>1 DEF SeatsTyped, PublicView, PublicViews
<1>2. ASSUME SeatsTyped' PROVE PublicView' \in PublicViews
  <2>1. players' \in SUBSET Ids /\ spectators' \in SUBSET Ids /\ connected' \in SUBSET Ids
    BY <1>2 DEF SeatsTyped, Seats
  <2>. QED BY <1>2, <2>1 DEF SeatsTyped, PublicView, PublicViews
<1>. QED BY <1>1, <1>2

\* The phase timer touches no seat.
LEMMA TimeoutSeats ==
    ASSUME PhaseTimeout
    PROVE  UNCHANGED memberVars
  BY DEF PhaseTimeout, NightTimeout, StartVoting, VotingTimeout, LastWordsTimeout

\* No event of a client's puts anybody online.
LEMMA RoomEventSeats ==
    ASSUME NEW p, RoomEvent(p)
    PROVE  connected' \subseteq connected
<1>1. CASE \E b \in BOOLEAN : Ready(p, b) \/ Presence(p, b) \/ SetRoomLocked(p, b)
  BY <1>1 DEF Ready, Presence, SetRoomLocked
<1>2. CASE \E t \in Ids : TransferOwner(p, t) BY <1>2 DEF TransferOwner
<1>3. CASE \E n \in MinPlayersToStart .. MaxPlayersAllowed : SetPlayerLimit(p, n)
  BY <1>3 DEF SetPlayerLimit
<1>4. CASE \E s \in Settings : SetGameSettings(p, s) \/ SetGamePreset(p, s)
  BY <1>4 DEF SetGameSettings, SetGamePreset
<1>5. CASE \E deal \in Deals(players, settings.specials) : StartGame(p, deal)
  BY <1>5 DEF StartGame
<1>6. CASE ReturnToWaiting(p) BY <1>6 DEF ReturnToWaiting, Remove
<1>7. CASE NightPass(p) \/ \E t \in Ids : NightAction(p, t)
  BY <1>7 DEF NightPass, NightAction
<1>8. CASE StartVote(p) BY <1>8 DEF StartVote, StartVoting
<1>9. CASE \E t \in Ids : Shoot(p, t) BY <1>9 DEF Shoot
<1>10. CASE \E t \in Ids \cup {None} : Vote(p, t) BY <1>10 DEF Vote
<1>. QED BY <1>1, <1>2, <1>3, <1>4, <1>5, <1>6, <1>7, <1>8, <1>9, <1>10 DEF RoomEvent

LEMMA KickSeats ==
    ASSUME NEW p, NEW t, KickParticipant(p, t)
    PROVE  connected' = connected \ {t}
  BY DEF KickParticipant, Remove

LEMMA JoinSeats ==
    ASSUME NEW p, (\E s \in BOOLEAN : Join(p, s)) \/ Reconnect(p)
    PROVE  connected' = connected \cup {p} /\ Seats \subseteq Seats'
  BY DEF Join, Reconnect, Seats

LEMMA DepartureSeats ==
    ASSUME NEW p
    PROVE  /\ Disconnect(p) => connected' = connected \ {p} /\ Seats' = Seats
           /\ Leave(p) => connected' = connected \ {p}
  BY DEF Disconnect, Leave, LeaveWaiting, Remove, Seats

---------------------------------------------------------------------------
(* Channels                                                                *)

Places == {"idle", "joined", "open", "lost", "left"}

\* A subscription belongs to an open connection or to one that still has to
\* unsubscribe; a channel nobody has subscribed yet is empty; and a subscriber was
\* last sent the room as it is, in the middle of a broadcast too.
ChannelsTyped ==
    /\ pc \in [Conns -> Places]
    /\ subs \subseteq {c \in Conns : pc[c] \in {"open", "lost", "left"}}
    /\ backlog \in [Conns -> 0 .. QueueSize]
    /\ \A c \in Conns : pc[c] \in {"idle", "joined"} => backlog[c] = 0
    /\ last \in [Conns -> PublicViews \cup {None, Terminal}]
    /\ \A c \in Conns :
          IF c \in subs THEN last[c] = PublicView ELSE last[c] \in {None, Terminal}

\* Sending keeps the channels typed, if everybody still subscribed is sent the room
\* or it did not change.
LEMMA ChannelsKeepType ==
    ASSUME ChannelsTyped, PublicView' \in PublicViews,
           pc' \in [Conns -> Places],
           \A c \in Conns : pc'[c] = "joined" => pc[c] \in {"idle", "joined"},
           subs' \subseteq {c \in Conns : pc'[c] \in {"open", "lost", "left"}},
           NEW fed, fed \subseteq subs', \A c \in fed : backlog[c] < QueueSize,
           NEW cut, cut \subseteq subs, cut \cap subs' = {},
           \A c \in subs' : c \in fed \/ (c \in subs /\ PublicView' = PublicView),
           Channels(fed, cut)
    PROVE  ChannelsTyped'
<1>. USE ActorAssumption DEF ChannelsTyped, Places
<1>1. ASSUME NEW c \in Conns
      PROVE  /\ backlog'[c] = IF pc'[c] = "idle" THEN 0
                              ELSE IF c \in cut THEN 1
                              ELSE IF c \in fed THEN backlog[c] + 1 ELSE backlog[c]
             /\ last'[c] = IF pc'[c] = "idle" THEN None
                           ELSE IF c \in cut THEN Terminal
                           ELSE IF c \in fed THEN PublicView'
                           ELSE IF c \in subs \ subs' THEN None ELSE last[c]
  BY <1>1 DEF Channels
<1>2. DOMAIN backlog' = Conns /\ DOMAIN last' = Conns
      /\ backlog' = [c \in Conns |-> backlog'[c]] /\ last' = [c \in Conns |-> last'[c]]
  BY DEF Channels
<1>3. \A c \in Conns : backlog'[c] \in 0 .. QueueSize BY <1>1
<1>4. \A c \in Conns : pc'[c] \in {"idle", "joined"} => backlog'[c] = 0 BY <1>1
<1>5. \A c \in Conns : last'[c] \in PublicViews \cup {None, Terminal} BY <1>1
<1>6. \A c \in Conns :
         IF c \in subs' THEN last'[c] = PublicView' ELSE last'[c] \in {None, Terminal}
  BY <1>1
<1>. QED BY <1>2, <1>3, <1>4, <1>5, <1>6

LEMMA BroadcastKeepsType ==
    ASSUME ChannelsTyped, PublicView' \in PublicViews,
           pc' \in [Conns -> Places],
           \A c \in Conns : pc'[c] = "joined" => pc[c] \in {"idle", "joined"},
           NEW S, S \subseteq subs, \A c \in S : pc'[c] \in {"open", "lost", "left"},
           NEW cut, cut \subseteq subs, cut \cap S = {}, NEW due,
           Broadcast(S, cut, due)
    PROVE  ChannelsTyped'
<1>. DEFINE slow == {c \in S : backlog[c] = QueueSize}
<1>1. subs' = S \ slow /\ Channels(S \ slow, cut) BY DEF Broadcast
<1>2. \A c \in S \ slow : backlog[c] < QueueSize BY ActorAssumption DEF ChannelsTyped
<1>3. S \subseteq Conns BY DEF ChannelsTyped
<1>4. subs' \subseteq {c \in Conns : pc'[c] \in {"open", "lost", "left"}} BY <1>1, <1>3
<1>. HIDE DEF slow
<1>. QED BY <1>1, <1>2, <1>4, ChannelsKeepType

---------------------------------------------------------------------------
(* The actor between and within its commands                               *)

\* Whoever is online is connected, about to subscribe, or about to be taken
\* offline; also after the actor has closed.
Backed ==
    \A p \in connected :
        p \in dropped \/ \E c \in Conns : who[c] = p /\ (c \in subs \/ pc[c] = "joined")

\* The idle timer runs exactly while nobody is subscribed, but during the nested
\* broadcasts of a command; those of a tick have it stopped.  A closed actor has
\* nobody left.
TimersTyped ==
    /\ ticking \in BOOLEAN /\ idleArmed \in BOOLEAN /\ closed \in BOOLEAN
    /\ IF dropped = {} THEN ~ticking ELSE ticking => ~idleArmed
    /\ IdleTimerArmed
    /\ closed => subs = {} /\ dropped = {}

ActorInv ==
    /\ SeatsTyped
    /\ ChannelsTyped
    /\ TimersTyped
    /\ dropped \subseteq Ids /\ tokens \subseteq Seats
    /\ OneSubscriptionPerSeat
    /\ closed \/ Backed

LEMMA InitActorInv ==
    ASSUME ActorInit
    PROVE  ActorInv
<1>. USE RoomAssumption, ActorAssumption DEF ActorInit, Init
<1>1. SeatsTyped BY DEF SeatsTyped, Seats, Phases
<1>2. ChannelsTyped BY DEF ChannelsTyped, Places
<1>3. TimersTyped BY DEF TimersTyped, IdleTimerArmed, Free
<1>4. OneSubscriptionPerSeat /\ Backed BY DEF OneSubscriptionPerSeat, Backed
<1>. QED BY <1>1, <1>2, <1>3, <1>4 DEF ActorInv, Seats

\* What a command, a tick, and each nested broadcast after either do to the timers.
LEMMA RearmKeepsTimers ==
    ASSUME TimersTyped, ~closed, UNCHANGED closed, NEW tick \in BOOLEAN, Rearm(tick),
           \/ dropped = {} /\ ~tick
           \/ dropped = {} /\ tick /\ Broadcast(subs, {}, {})
           \/ dropped # {} /\ tick = ticking
    PROVE  TimersTyped'
<1>. USE DEF TimersTyped, IdleTimerArmed, Free, Rearm
<1>1. CASE dropped = {} /\ ~tick BY <1>1
<1>2. CASE dropped = {} /\ tick /\ Broadcast(subs, {}, {})
  <2>1. dropped' = {} => subs' = subs BY <1>2 DEF Broadcast
  <2>2. dropped' # {} => subs # {} BY <1>2 DEF Broadcast
  <2>. QED BY <1>2, <2>1, <2>2
<1>3. CASE dropped # {} /\ tick = ticking BY <1>3
<1>. QED BY <1>1, <1>2, <1>3

\* A subscriber that is sent the room keeps its subscription, or is dropped.
LEMMA BroadcastReaches ==
    ASSUME NEW S, NEW cut, NEW due, Broadcast(S, cut, due)
    PROVE  /\ subs' \subseteq S /\ due \subseteq dropped'
           /\ \A c \in S : c \in subs' \/ who[c] \in dropped'
           /\ dropped' \subseteq due \cup {who[c] : c \in S}
  BY DEF Broadcast

LEMMA JoinKeepsInv ==
    ASSUME ActorInv, SeatsTyped', NEW c \in Conns, DispatchJoin(c)
    PROVE  ActorInv'
<1>. USE ActorAssumption DEF ActorInv, DispatchJoin
<1>1. connected' = connected \cup {who[c]} /\ Seats \subseteq Seats'
  BY JoinSeats
<1>2. /\ dropped = {} /\ ~closed /\ ~closed' /\ pc[c] = "idle" /\ c \notin subs
      /\ pc' = [pc EXCEPT ![c] = "joined"] /\ pc'[c] = "joined"
      /\ \A d \in Conns \ {c} : pc'[d] = pc[d]
  BY DEF Free, Goto, ChannelsTyped
<1>3. ChannelsTyped'
  <2>1. PublicView' \in PublicViews BY <1>1, ViewTyped
  <2>2. pc' \in [Conns -> Places] BY <1>2 DEF ChannelsTyped, Places
  <2>. QED BY <1>2, <2>1, <2>2, BroadcastKeepsType DEF ChannelsTyped
<1>4. TimersTyped' BY <1>2, RearmKeepsTimers
<1>5. /\ subs' \subseteq subs
      /\ \A d \in subs : d \in subs' \/ who[d] \in dropped'
      /\ dropped' \subseteq {who[d] : d \in subs}
  BY BroadcastReaches
<1>6. Backed'
  <2>. SUFFICES ASSUME NEW p \in connected'
                PROVE  p \in dropped' \/ \E d \in Conns :
                            who[d] = p /\ (d \in subs' \/ pc'[d] = "joined")
    BY DEF Backed
  <2>1. CASE p = who[c] BY <1>2, <2>1
  <2>2. CASE p \in connected
    <3>1. PICK d \in Conns : who[d] = p /\ (d \in subs \/ pc[d] = "joined")
      BY <1>2, <2>2 DEF Backed
    <3>. QED BY <1>2, <1>5, <3>1
  <2>. QED BY <1>1, <2>1, <2>2
<1>7. OneSubscriptionPerSeat' BY <1>5 DEF OneSubscriptionPerSeat
<1>8. dropped' \subseteq Ids BY <1>5 DEF ChannelsTyped
<1>. QED BY <1>1, <1>3, <1>4, <1>6, <1>7, <1>8

LEMMA SubscribeKeepsInv ==
    ASSUME ActorInv, SeatsTyped', NEW c \in Conns, Subscribe(c)
    PROVE  ActorInv'
<1>. USE ActorAssumption DEF ActorInv, Subscribe
<1>1. SeatsTyped' /\ PublicView' = PublicView /\ PublicView' \in PublicViews
      /\ UNCHANGED <<connected, tokens>>
      /\ Seats' = Seats
  BY ViewTyped DEF SeatsTyped, Seats, PublicView
<1>2. /\ dropped = {} /\ ~closed /\ ~closed' /\ pc[c] = "joined" /\ c \notin subs
      /\ pc' = [pc EXCEPT ![c] = "open"] /\ pc'[c] = "open"
      /\ \A d \in Conns \ {c} : pc'[d] = pc[d]
      /\ subs' = (subs \ Of(who[c])) \cup {c}
  BY DEF Free, Goto, ChannelsTyped
<1>3. ChannelsTyped'
  <2>1. pc' \in [Conns -> Places] BY <1>2 DEF ChannelsTyped, Places
  <2>2. Of(who[c]) \subseteq subs /\ Of(who[c]) \cap subs' = {} BY <1>2 DEF Of
  <2>3. backlog[c] < QueueSize BY <1>2 DEF ChannelsTyped
  <2>. QED BY <1>1, <1>2, <2>1, <2>2, <2>3, ChannelsKeepType DEF ChannelsTyped
<1>4. TimersTyped' BY <1>2, RearmKeepsTimers
<1>5. Backed' BY <1>1, <1>2 DEF Backed, Of
<1>6. OneSubscriptionPerSeat' BY <1>2 DEF OneSubscriptionPerSeat, Of
<1>. QED BY <1>1, <1>3, <1>4, <1>5, <1>6

\* A command that broadcasts to the subscribers S, and leaves nobody else online.
LEMMA BroadcastBacks ==
    ASSUME Backed, dropped = {}, NEW S \in SUBSET subs, NEW cut, NEW due, Broadcast(S, cut, due),
           \A d \in Conns : pc[d] = "joined" => pc'[d] = "joined",
           connected' \subseteq connected,
           \A d \in subs \ S : who[d] \notin connected'
    PROVE  Backed'
<1>. SUFFICES ASSUME NEW p \in connected'
              PROVE  p \in dropped' \/ \E d \in Conns :
                          who[d] = p /\ (d \in subs' \/ pc'[d] = "joined")
  BY DEF Backed
<1>1. PICK d \in Conns : who[d] = p /\ (d \in subs \/ pc[d] = "joined") BY DEF Backed
<1>. QED BY <1>1, BroadcastReaches

LEMMA FromClientKeepsInv ==
    ASSUME ActorInv, SeatsTyped', NEW c \in Conns, FromClient(c)
    PROVE  ActorInv'
<1>. USE ActorAssumption DEF ActorInv, FromClient
<1>1. /\ dropped = {} /\ ~closed /\ UNCHANGED <<pc, closed>> /\ subs \subseteq Conns
      /\ pc' \in [Conns -> Places] /\ \A d \in subs : pc'[d] \in {"open", "lost", "left"}
  BY DEF Free, ChannelsTyped
<1>2. tokens' \subseteq Seats' BY DEF ForgetTokens
<1>3. TimersTyped' BY <1>1, RearmKeepsTimers
<1>4. ASSUME NEW S \in SUBSET subs, NEW cut \in SUBSET subs, cut \cap S = {},
             Broadcast(S, cut, {}), connected' \subseteq connected,
             \A d \in subs \ S : who[d] \notin connected'
      PROVE  ActorInv'
  <2>1. PublicView' \in PublicViews BY <1>4, ViewTyped
  <2>2. ChannelsTyped' BY <1>1, <1>4, <2>1, BroadcastKeepsType
  <2>3. Backed' BY <1>1, <1>4, BroadcastBacks
  <2>4. subs' \subseteq subs /\ dropped' \subseteq {who[d] : d \in subs}
    BY <1>4, BroadcastReaches
  <2>5. OneSubscriptionPerSeat' BY <2>4 DEF OneSubscriptionPerSeat
  <2>6. dropped' \subseteq Ids BY <1>1, <2>4
  <2>. QED BY <1>2, <1>3, <1>4, <2>2, <2>3, <2>5, <2>6
<1>5. CASE RoomEvent(who[c]) /\ Broadcast(subs, {}, {})
  BY <1>4, <1>5, RoomEventSeats
<1>6. ASSUME NEW t \in Ids, KickParticipant(who[c], t), Broadcast(subs \ Of(t), Of(t), {})
      PROVE  ActorInv'
  <2>1. connected' = connected \ {t} BY <1>6, KickSeats
  <2>2. \A d \in subs \ (subs \ Of(t)) : who[d] \notin connected' BY <2>1 DEF Of
  <2>3. Of(t) \in SUBSET subs /\ Of(t) \cap (subs \ Of(t)) = {} BY DEF Of
  <2>. QED BY <1>4, <1>6, <2>1, <2>2, <2>3
<1>. QED BY <1>5, <1>6

LEMMA UnsubscribeKeepsInv ==
    ASSUME ActorInv, SeatsTyped', NEW c \in Conns, Unsubscribe(c)
    PROVE  ActorInv'
<1>. USE ActorAssumption DEF ActorInv, Unsubscribe
<1>1. /\ dropped = {} /\ ~closed /\ UNCHANGED closed /\ subs \subseteq Conns
      /\ pc[c] \in {"lost", "left"} /\ pc' = [pc EXCEPT ![c] = "idle"]
      /\ pc' \in [Conns -> Places] /\ \A d \in Conns \ {c} : pc'[d] = pc[d]
      /\ pc'[c] = "idle"
  BY DEF Free, ChannelsTyped, Goto, Places
<1>2. tokens' \subseteq Seats' BY DEF ForgetTokens
<1>3. TimersTyped' BY <1>1, RearmKeepsTimers
<1>4. \A d \in subs \ {c} : pc'[d] \in {"open", "lost", "left"} BY <1>1 DEF ChannelsTyped
<1>5. CASE /\ c \in subs
           /\ IF pc[c] = "left" THEN Leave(who[c]) ELSE Disconnect(who[c])
           /\ Broadcast(subs \ {c}, {}, {})
  <2>1. connected' = connected \ {who[c]} BY <1>5, DepartureSeats
  <2>2. PublicView' \in PublicViews BY <2>1, ViewTyped
  <2>3. ChannelsTyped' BY <1>1, <1>4, <1>5, <2>2, BroadcastKeepsType
  <2>4. \A d \in subs \ (subs \ {c}) : who[d] \notin connected' BY <2>1
  <2>5. Backed' BY <1>1, <1>5, <2>1, <2>4, BroadcastBacks
  <2>6. subs' \subseteq subs /\ dropped' \subseteq {who[d] : d \in subs}
    BY <1>5, BroadcastReaches
  <2>7. OneSubscriptionPerSeat' BY <2>6 DEF OneSubscriptionPerSeat
  <2>8. dropped' \subseteq Ids BY <1>1, <2>6
  <2>. QED BY <1>2, <1>3, <2>1, <2>3, <2>5, <2>7, <2>8
<1>6. CASE /\ ~(c \in subs /\ who[c] \in Seats)
           /\ UNCHANGED roomVars
           /\ subs' = subs \ {c} /\ dropped' = {}
           /\ Channels({}, {})
  <2>1. SeatsTyped' /\ PublicView' = PublicView /\ PublicView' \in PublicViews
      /\ UNCHANGED connected
    BY <1>6, ViewTyped DEF SeatsTyped, Seats, PublicView
  <2>2. ChannelsTyped' BY <1>1, <1>4, <1>6, <2>1, ChannelsKeepType DEF ChannelsTyped
  <2>3. Backed'
    <3>1. c \in subs => who[c] \notin connected BY <1>6 DEF SeatsTyped
    <3>. QED BY <1>1, <1>6, <2>1, <3>1 DEF Backed
  <2>4. OneSubscriptionPerSeat' BY <1>6 DEF OneSubscriptionPerSeat
  <2>. QED BY <1>2, <1>3, <1>6, <2>1, <2>2, <2>3, <2>4
<1>. QED BY <1>5, <1>6

LEMMA TickKeepsInv ==
    ASSUME ActorInv, SeatsTyped', PhaseTick
    PROVE  ActorInv'
<1>. USE ActorAssumption DEF ActorInv, PhaseTick
<1>1. /\ dropped = {} /\ ~closed /\ UNCHANGED <<pc, closed, tokens>> /\ subs \subseteq Conns
      /\ pc' \in [Conns -> Places] /\ \A d \in subs : pc'[d] \in {"open", "lost", "left"}
  BY DEF Free, ChannelsTyped
<1>2. UNCHANGED connected /\ Seats' = Seats BY TimeoutSeats DEF Seats
<1>3. PublicView' \in PublicViews BY <1>2, ViewTyped
<1>4. ChannelsTyped' BY <1>1, <1>3, BroadcastKeepsType
<1>5. TimersTyped' BY <1>1, RearmKeepsTimers
<1>6. Backed' BY <1>1, <1>2, BroadcastBacks
<1>7. subs' \subseteq subs /\ dropped' \subseteq {who[d] : d \in subs} BY BroadcastReaches
<1>8. OneSubscriptionPerSeat' BY <1>7 DEF OneSubscriptionPerSeat
<1>9. dropped' \subseteq Ids BY <1>1, <1>7
<1>. QED BY <1>1, <1>2, <1>4, <1>5, <1>6, <1>8, <1>9

\* The nested part of a broadcast.
LEMMA DroppedKeepsInv ==
    ASSUME ActorInv, SeatsTyped', NEW p \in Ids, DisconnectDropped(p)
    PROVE  ActorInv'
<1>. USE ActorAssumption DEF ActorInv, DisconnectDropped
<1>1. /\ p \in dropped /\ ~closed /\ UNCHANGED <<pc, closed, tokens>> /\ subs \subseteq Conns
      /\ pc' \in [Conns -> Places] /\ \A d \in subs : pc'[d] \in {"open", "lost", "left"}
  BY DEF TimersTyped, ChannelsTyped
<1>2. TimersTyped' BY <1>1, RearmKeepsTimers DEF TimersTyped
<1>3. CASE Disconnect(p) /\ Broadcast(subs, {}, dropped \ {p})
  <2>1. connected' = connected \ {p} /\ Seats' = Seats BY <1>3, DepartureSeats
  <2>2. PublicView' \in PublicViews BY <2>1, ViewTyped
  <2>3. ChannelsTyped' BY <1>1, <1>3, <2>2, BroadcastKeepsType
  <2>4. /\ subs' \subseteq subs /\ dropped \ {p} \subseteq dropped'
        /\ dropped' \subseteq (dropped \ {p}) \cup {who[d] : d \in subs}
        /\ \A d \in subs : d \in subs' \/ who[d] \in dropped'
    BY <1>3, BroadcastReaches
  <2>5. Backed'
    <3>. SUFFICES ASSUME NEW q \in connected'
                  PROVE  q \in dropped' \/ \E d \in Conns :
                              who[d] = q /\ (d \in subs' \/ pc'[d] = "joined")
      BY DEF Backed
    <3>1. CASE q \in dropped BY <2>1, <2>4, <3>1
    <3>2. CASE q \notin dropped
      <4>1. PICK d \in Conns : who[d] = q /\ (d \in subs \/ pc[d] = "joined")
        BY <1>1, <2>1, <3>2 DEF Backed
      <4>. QED BY <1>1, <2>4, <4>1
    <3>. QED BY <3>1, <3>2
  <2>6. OneSubscriptionPerSeat' BY <2>4 DEF OneSubscriptionPerSeat
  <2>7. dropped' \subseteq Ids BY <1>1, <2>4
  <2>. QED BY <1>1, <1>2, <2>1, <2>3, <2>5, <2>6, <2>7
<1>4. CASE /\ p \notin Seats /\ dropped' = dropped \ {p}
           /\ UNCHANGED <<roomVars, subs, backlog, last>>
  <2>1. SeatsTyped' /\ UNCHANGED <<PublicView, connected>> /\ Seats' = Seats
    BY <1>4 DEF SeatsTyped, Seats, PublicView
  <2>2. ChannelsTyped' BY <1>1, <1>4, <2>1 DEF ChannelsTyped
  <2>3. p \notin connected BY <1>4 DEF SeatsTyped
  <2>4. Backed' BY <1>1, <1>4, <2>1, <2>3 DEF Backed
  <2>5. OneSubscriptionPerSeat' BY <1>4 DEF OneSubscriptionPerSeat
  <2>. QED BY <1>1, <1>2, <1>4, <2>1, <2>2, <2>4, <2>5
<1>. QED BY <1>3, <1>4

\* The goroutines of a connection, the clock and the idle timer leave the room as
\* it is shown.
LEMMA PumpKeepsInv ==
    ASSUME ActorInv, SeatsTyped', NEW c \in Conns, Write(c) \/ ConnectionEnds(c) \/ GiveUp(c)
    PROVE  ActorInv'
<1>. USE ActorAssumption DEF ActorInv
<1>1. UNCHANGED <<roomVars, subs, dropped, timerVars, closed>>
  BY DEF Write, ConnectionEnds, GiveUp
<1>2. SeatsTyped' /\ UNCHANGED <<PublicView, connected>> /\ Seats' = Seats
  BY <1>1 DEF SeatsTyped, Seats, PublicView
<1>3. TimersTyped' BY <1>1 DEF TimersTyped, IdleTimerArmed, Free
<1>4. OneSubscriptionPerSeat' BY <1>1 DEF OneSubscriptionPerSeat
<1>5. CASE Write(c)
  <2>1. pc[c] = "open" /\ (UNCHANGED pc \/ pc' = [pc EXCEPT ![c] = "lost"])
        /\ UNCHANGED last /\ backlog' \in [Conns -> 0 .. QueueSize]
        /\ \A d \in Conns \ {c} : backlog'[d] = backlog[d]
    BY <1>5 DEF Write, Goto, ChannelsTyped
  <2>2. ChannelsTyped' BY <1>1, <1>2, <2>1 DEF ChannelsTyped, Places
  <2>3. closed \/ Backed' BY <1>1, <1>2, <2>1 DEF Backed, ChannelsTyped
  <2>4. tokens' \subseteq Seats' BY <1>2, <1>5 DEF Write
  <2>. QED BY <1>1, <1>2, <1>3, <1>4, <2>2, <2>3, <2>4
<1>6. CASE ConnectionEnds(c)
  <2>1. /\ pc[c] = "open" /\ \E end \in {"lost", "left"} : pc' = [pc EXCEPT ![c] = end]
        /\ UNCHANGED <<backlog, last, tokens>>
    BY <1>6 DEF ConnectionEnds, Goto
  <2>2. ChannelsTyped' BY <1>1, <1>2, <2>1 DEF ChannelsTyped, Places
  <2>3. closed \/ Backed' BY <1>1, <1>2, <2>1 DEF Backed, ChannelsTyped
  <2>. QED BY <1>1, <1>2, <1>3, <1>4, <2>1, <2>2, <2>3
<1>7. CASE GiveUp(c)
  <2>1. /\ closed /\ subs = {} /\ pc' = [pc EXCEPT ![c] = "idle"]
        /\ backlog' = [backlog EXCEPT ![c] = 0] /\ last' = [last EXCEPT ![c] = None]
        /\ UNCHANGED tokens
    BY <1>7 DEF GiveUp, Goto, TimersTyped
  <2>2. ChannelsTyped' BY <1>1, <1>2, <2>1 DEF ChannelsTyped, Places
  <2>. QED BY <1>1, <1>2, <1>3, <1>4, <2>1, <2>2
<1>. QED BY <1>5, <1>6, <1>7

LEMMA ClockKeepsInv ==
    ASSUME ActorInv, SeatsTyped', TimePasses \/ IdleClose \/ UNCHANGED actorVars
    PROVE  ActorInv'
<1>. USE DEF ActorInv
<1>1. UNCHANGED <<phase, owner, players, spectators, connected, pc, connVars, ticking, tokens>>
  BY DEF TimePasses, IdleClose, DeadlinePasses, actorVars
<1>2. SeatsTyped' /\ ChannelsTyped' /\ OneSubscriptionPerSeat' /\ Seats' = Seats /\ Backed' = Backed
  BY <1>1 DEF SeatsTyped, Seats, ChannelsTyped, PublicView, OneSubscriptionPerSeat, Backed
<1>3. TimersTyped' /\ (closed => closed')
  <2>1. CASE IdleClose BY <2>1 DEF IdleClose, TimersTyped, IdleTimerArmed, Free
  <2>2. CASE UNCHANGED <<subs, dropped, timerVars, closed>>
    BY <2>2 DEF TimersTyped, IdleTimerArmed, Free
  <2>. QED BY <2>1, <2>2 DEF TimePasses, actorVars
<1>. QED BY <1>1, <1>2, <1>3

LEMMA NextActorInv ==
    ASSUME ActorInv, SeatsTyped', [ActorNext]_actorVars
    PROVE  ActorInv'
  BY JoinKeepsInv, SubscribeKeepsInv, FromClientKeepsInv, UnsubscribeKeepsInv,
     TickKeepsInv, DroppedKeepsInv, PumpKeepsInv, ClockKeepsInv
     DEF ActorNext, Handler

---------------------------------------------------------------------------
(* The theorems                                                            *)

LEMMA ActorInvHolds == ActorSpec => []ActorInv
<1>1. ActorInit => ActorInv BY InitActorInv
<1>2. Typed' /\ ActorInv /\ [ActorNext]_actorVars => ActorInv' BY TypedSeats, NextActorInv
<1>. QED BY <1>1, <1>2, RoomUnderActorTyped, PTL DEF ActorSpec

\* No channel is ever over its capacity, so that the actor never blocks on a
\* subscriber, and only seats have a token that is known (run, broadcast).
THEOREM ActorTypeCorrect == ActorSpec => []ActorTypeOK
<1>1. ActorInv => ActorTypeOK
  BY ViewTyped, ActorAssumption DEF ActorInv, ChannelsTyped, TimersTyped, ActorTypeOK, Places
<1>. QED BY <1>1, ActorInvHolds, PTL

\* However the connections of one participant overlap, one of them is subscribed
\* at most: the newer replaces the older (SubscribeConnection).
THEOREM NewerReplacesOlder == ActorSpec => []OneSubscriptionPerSeat
<1>1. ActorInv => OneSubscriptionPerSeat BY DEF ActorInv
<1>. QED BY <1>1, ActorInvHolds, PTL

\* Whatever commands, ticks and nested broadcasts come in whatever order, and
\* whoever sends them, the last thing sent to a subscriber is the room as it is.
THEOREM EverySubscriberIsCurrent == ActorSpec => []SubscribersHearLatest
<1>1. ActorInv => SubscribersHearLatest BY DEF ActorInv, ChannelsTyped, SubscribersHearLatest
<1>. QED BY <1>1, ActorInvHolds, PTL

\* Nobody is shown online with nothing behind it: for everybody who is, there is a
\* subscription, one on its way, or a disconnect (run, broadcast, handler.go).
THEOREM NobodyIsStuckOnline == ActorSpec => []OnlineIsBacked
<1>1. ActorInv => OnlineIsBacked BY DEF ActorInv, Backed, OnlineIsBacked
<1>. QED BY <1>1, ActorInvHolds, PTL

\* Between two commands the idle timer runs exactly while nobody is subscribed:
\* the room never closes on a subscriber and never outlives the last one unnoticed
\* (resetIdleTimer).
THEOREM IdleTimerIsRight == ActorSpec => []IdleTimerArmed
<1>1. ActorInv => IdleTimerArmed BY DEF ActorInv, TimersTyped
<1>. QED BY <1>1, ActorInvHolds, PTL

=============================================================================
