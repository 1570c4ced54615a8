---------------------------- MODULE ClientReplay ----------------------------
(***************************************************************************)
(* One participant's numbered events: the browser's queue of events that   *)
(* are not acknowledged (internal/webui/static/app.js), its connections    *)
(* (internal/ws/handler.go), and the cursor in its seat (State.Apply).     *)
(*                                                                         *)
(* A connection carries the numbers in increasing order, so that what is   *)
(* in flight is a set whose least is read next.  Whether the room accepts  *)
(* an event is any choice; so is a refusal by rate limit or moderation.    *)
(* A page that has lost its token comes back as somebody else, which ends  *)
(* the story told here.                                                    *)
(***************************************************************************)
EXTENDS Naturals, Sequences, FiniteSets

CONSTANTS
    Conns, None,
    MaxPending,      \* MAX_PENDING_EVENTS
    QueueSize        \* acknowledgements that fit the channel of replies; the errors
                     \* beside them are left out

ASSUME ReplayAssumption ==
    /\ MaxPending \in Nat \ {0} /\ QueueSize \in Nat \ {0}
    /\ None \notin Conns /\ IsFiniteSet(Conns)

VARIABLES
    page,            \* out (the join form), in, blocked, over (no such participant any more)
    socket, seen,    \* app.socket, and whether app.state has arrived
    next, pending,   \* nextClientSequence, pendingEvents
    stored,          \* the session in local storage
    long, huge,      \* events too long to be decoded, or for the read limit
    place,           \* where a connection's handler is
    wire, asks,      \* whether its network is up; the token it came with
    up,              \* events sent and not read
    told, out, last, \* not received: a state (the token in it), the numbers that are
                     \* acknowledged, a last word
    seat, seats,     \* the seat's token, 0 for no seat; how many there have been
    cursor,          \* LastClientSequence
    subscribed,
    handled,         \* history: events applied or refused
    applied          \* history: events applied to this seat

pageVars  == <<page, socket, seen, next, pending, stored, long, huge>>
connVars  == <<place, wire, asks, up, told, out, last>>
seatVars  == <<seat, seats, cursor, subscribed, applied>>
vars      == <<pageVars, connVars, seatVars, handled>>

\* what becomes of an event: a chat of more than MaxChatBytes does not decode
Sizes == {"short", "long", "huge"}

Least(S) == CHOOSE s \in S : \A t \in S : s <= t
After(S) == CHOOSE n \in {1} \cup {s + 1 : s \in S} : \A s \in S : s < n

Init ==
    /\ page = "in" /\ socket = None /\ seen = FALSE
    /\ next = 1 /\ pending = {}
    /\ stored = [token |-> 0, next |-> 1, pending |-> {}]
    /\ long = {} /\ huge = {}
    /\ place = [c \in Conns |-> "free"] /\ wire = [c \in Conns |-> FALSE]
    /\ asks = [c \in Conns |-> 0] /\ up = [c \in Conns |-> {}]
    /\ told = [c \in Conns |-> None] /\ out = [c \in Conns |-> {}]
    /\ last = [c \in Conns |-> None]
    /\ seat = 0 /\ seats = 0 /\ cursor = 0 /\ subscribed = None
    /\ handled = {} /\ applied = <<>>

---------------------------------------------------------------------------
(* The page                                                                *)

\* saveCurrentSession: nothing is saved without a token.
Save(token) ==
    stored' = IF token = 0 THEN stored
              ELSE [token |-> token, next |-> next', pending |-> pending']

\* The page is done with its connection.
Drop ==
    /\ socket' = None
    /\ wire' = [c \in Conns |-> wire[c] /\ c # socket]
    /\ told' = [c \in Conns |-> IF c = socket THEN None ELSE told[c]]
    /\ out' = [c \in Conns |-> IF c = socket THEN {} ELSE out[c]]
    /\ last' = [c \in Conns |-> IF c = socket THEN None ELSE last[c]]
    /\ UNCHANGED <<place, asks, up>>

Show(view) ==
    /\ page' = view
    /\ seen' = FALSE
    /\ IF view = "blocked" THEN UNCHANGED <<next, pending>> ELSE next' = 1 /\ pending' = {}

\* the form, for who can claim the seat again
Form == IF stored.token = 0 THEN "over" ELSE "out"

\* joinRoom
Enter ==
    /\ page = "out"
    /\ page' = "in"
    /\ pending' = stored.pending
    /\ next' = IF stored.next >= After(stored.pending) THEN stored.next ELSE After(stored.pending)
    /\ UNCHANGED <<socket, seen, stored, long, huge, connVars, seatVars, handled>>

\* variant: what was sent is taken to have arrived
DialOnly(c) ==
    /\ page = "in" /\ socket = None /\ place[c] = "free"
    /\ socket' = c
    /\ place' = [place EXCEPT ![c] = "upgraded"]
    /\ wire' = [wire EXCEPT ![c] = TRUE]
    /\ asks' = [asks EXCEPT ![c] = stored.token]
    /\ up' = [up EXCEPT ![c] = {}]
    /\ UNCHANGED <<page, seen, next, pending, stored, long, huge, told, out, last,
                   seatVars, handled>>

\* openSocket and its open event, which replays what is pending
Dial(c) ==
    /\ page = "in" /\ socket = None /\ place[c] = "free"
    /\ socket' = c
    /\ place' = [place EXCEPT ![c] = "upgraded"]
    /\ wire' = [wire EXCEPT ![c] = TRUE]
    /\ asks' = [asks EXCEPT ![c] = stored.token]
    /\ up' = [up EXCEPT ![c] = pending]
    /\ UNCHANGED <<page, seen, next, pending, stored, long, huge, told, out, last,
                   seatVars, handled>>

\* variant: the session is saved with the next acknowledgement
SendUnsaved(size) ==
    /\ page = "in" /\ socket # None /\ (seen \/ size = "short")
    /\ Cardinality(pending) < MaxPending
    /\ next' = next + 1
    /\ pending' = pending \cup {next}
    /\ long' = IF size = "long" THEN long \cup {next} ELSE long
    /\ huge' = IF size = "huge" THEN huge \cup {next} ELSE huge
    /\ up' = IF wire[socket] THEN [up EXCEPT ![socket] = @ \cup {next}] ELSE up
    /\ UNCHANGED <<page, socket, seen, stored, place, wire, asks, told, out, last,
                   seatVars, handled>>

\* sendEvent.  The socket may be open to the browser and already cut.
Send(size) ==
    /\ page = "in" /\ socket # None /\ (seen \/ size = "short")
    /\ Cardinality(pending) < MaxPending
    /\ next' = next + 1
    /\ pending' = pending \cup {next}
    /\ Save(stored.token)
    /\ long' = IF size = "long" THEN long \cup {next} ELSE long
    /\ huge' = IF size = "huge" THEN huge \cup {next} ELSE huge
    /\ up' = IF wire[socket] THEN [up EXCEPT ![socket] = @ \cup {next}] ELSE up
    /\ UNCHANGED <<page, socket, seen, place, wire, asks, told, out, last,
                   seatVars, handled>>

ReceiveState ==
    /\ socket # None /\ told[socket] # None
    /\ seen' = TRUE
    /\ told' = [told EXCEPT ![socket] = None]
    /\ UNCHANGED <<next, pending>>
    /\ Save(told[socket])
    /\ UNCHANGED <<page, socket, long, huge, place, wire, asks, up, out, last, seatVars, handled>>

\* handleEventAck, whatever the status
ReceiveAck ==
    /\ socket # None
    /\ \E s \in out[socket] :
          /\ pending' = pending \ {s}
          /\ out' = [out EXCEPT ![socket] = @ \ {s}]
    /\ UNCHANGED next
    /\ Save(stored.token)
    /\ UNCHANGED <<page, socket, seen, long, huge, place, wire, asks, up, told, last,
                   seatVars, handled>>

\* handleServerError for the errors that close the socket
ReceiveLast ==
    /\ socket # None /\ last[socket] # None
    /\ \/ /\ last[socket] \in {"kicked", "badToken"}         \* deleteSession
          /\ Show("over")
          /\ stored' = [token |-> 0, next |-> 1, pending |-> {}]
       \/ /\ last[socket] \in {"replaced", "refused"}
          /\ Show("blocked")
          /\ UNCHANGED stored
    /\ Drop
    /\ UNCHANGED <<long, huge, seatVars, handled>>

\* handleSocketClose: a page that has seen the room dials again.  What a last
\* word has not overtaken may be lost.
Lose ==
    /\ socket # None /\ ~wire[socket] /\ last[socket] = None
    /\ IF seen /\ stored.token # 0 THEN UNCHANGED <<page, seen, next, pending>> ELSE Show(Form)
    /\ Drop
    /\ UNCHANGED <<stored, long, huge, seatVars, handled>>

Reload ==
    /\ page \in {"in", "blocked"}
    /\ Show(Form)
    /\ Drop
    /\ UNCHANGED <<stored, long, huge, seatVars, handled>>

\* leaveRoom
Leave ==
    /\ page = "in" /\ seen
    /\ Show("over")
    /\ stored' = [token |-> 0, next |-> 1, pending |-> {}]
    /\ Drop
    /\ UNCHANGED <<long, huge, seatVars, handled>>

---------------------------------------------------------------------------
(* The handler of a connection                                             *)

Goto(c, where) == place' = [place EXCEPT ![c] = where]
Answered(c)    == asks' = [asks EXCEPT ![c] = 0]
Break(c)       == wire' = [wire EXCEPT ![c] = FALSE] /\ last' = [last EXCEPT ![c] = None]
LastWord(c, word) == last' = IF wire[c] THEN [last EXCEPT ![c] = word] ELSE last

\* variant: who comes back is seated afresh
ServeJoinAfresh(c) ==
    /\ place[c] = "upgraded"
    /\ seat = 0 \/ asks[c] = seat
    /\ seat' = (IF seat = 0 THEN seats + 1 ELSE seat)
    /\ seats' = seat'
    /\ cursor' = 0
    /\ applied' = IF seat = 0 THEN <<>> ELSE applied
    /\ Goto(c, "joined") /\ Answered(c)
    /\ UNCHANGED <<pageVars, wire, up, told, out, last, subscribed, handled>>

\* the join: a new seat, the seat of this token, or a refusal
ServeJoin(c) ==
    /\ place[c] = "upgraded"
    /\ \/ /\ seat = 0
          /\ seat' = seats + 1 /\ seats' = seats + 1
          /\ cursor' = 0 /\ applied' = <<>>
          /\ Goto(c, "joined") /\ UNCHANGED last
       \/ /\ seat # 0 /\ asks[c] = seat
          /\ Goto(c, "joined")
          /\ UNCHANGED <<seat, seats, cursor, applied, last>>
       \/ /\ seat # 0 /\ asks[c] # seat
          /\ Goto(c, "ending") /\ LastWord(c, "badToken")
          /\ UNCHANGED <<seat, seats, cursor, applied>>
       \/ /\ Goto(c, "ending") /\ LastWord(c, "refused")
          /\ UNCHANGED <<seat, seats, cursor, applied>>
    /\ Answered(c)
    /\ UNCHANGED <<pageVars, wire, up, told, out, subscribed, handled>>

\* The older subscription is cut with a last word.
ServeSubscribe(c) ==
    /\ place[c] = "joined"
    /\ Goto(c, "open")
    /\ subscribed' = c
    /\ told' = [d \in Conns |-> IF d = c /\ wire[c] THEN seat
                                ELSE IF d = subscribed THEN None ELSE told[d]]
    /\ IF subscribed = None THEN UNCHANGED last ELSE LastWord(subscribed, "replaced")
    /\ UNCHANGED <<pageVars, wire, asks, up, out, seat, seats, cursor, applied, handled>>

Reading(c, s) == place[c] = "open" /\ up[c] # {} /\ s = Least(up[c])
Taken(c, s)   == up' = [up EXCEPT ![c] = @ \ {s}]

\* A reply finds room in the channel, or the connection ends.
Reply(c, acks) ==
    \/ /\ out' = IF wire[c] THEN [out EXCEPT ![c] = @ \cup acks] ELSE out
       /\ UNCHANGED <<place, wire, last>>
    \/ /\ Cardinality(out[c]) >= QueueSize
       /\ Goto(c, "ending") /\ Break(c)
       /\ UNCHANGED out

\* It does not decode: an error, and no acknowledgement.
ReadLong(c, s) ==
    /\ Reading(c, s) /\ s \in long
    /\ Taken(c, s) /\ Reply(c, {})
    /\ UNCHANGED <<pageVars, asks, told, seatVars, handled>>

\* It exceeds the read limit, and ends the connection.
ReadHuge(c, s) ==
    /\ Reading(c, s) /\ s \in huge
    /\ Taken(c, s)
    /\ Goto(c, "ending") /\ Break(c)
    /\ UNCHANGED <<pageVars, asks, told, out, seatVars, handled>>

\* rate limit, moderation, or the room (of which a replaced connection hears nothing)
ReadRefused(c, s) ==
    /\ Reading(c, s) /\ s \notin long \cup huge
    /\ Taken(c, s) /\ Reply(c, {s})
    /\ handled' = handled \cup {s}
    /\ UNCHANGED <<pageVars, asks, told, seatVars>>

\* variant: ErrConnectionReplaced is answered like any other error
ReadStaleAcked(c, s) ==
    /\ Reading(c, s) /\ s \notin long \cup huge
    /\ subscribed # c
    /\ Taken(c, s) /\ Reply(c, {s})
    /\ UNCHANGED <<pageVars, asks, told, seatVars, handled>>

ReadStale(c, s) ==
    /\ Reading(c, s) /\ s \notin long \cup huge
    /\ subscribed # c
    /\ Taken(c, s)
    /\ UNCHANGED <<pageVars, place, wire, asks, told, out, last, seatVars, handled>>

\* variant: only news is acknowledged
ReadDuplicateSilent(c, s) ==
    /\ Reading(c, s) /\ s \notin long \cup huge
    /\ subscribed = c /\ seat # 0 /\ s <= cursor
    /\ Taken(c, s)
    /\ UNCHANGED <<pageVars, place, wire, asks, told, out, last, seatVars, handled>>

ReadDuplicate(c, s) ==
    /\ Reading(c, s) /\ s \notin long \cup huge
    /\ subscribed = c /\ seat # 0 /\ s <= cursor
    /\ Taken(c, s) /\ Reply(c, {s})
    /\ UNCHANGED <<pageVars, asks, told, seatVars, handled>>

ReadApplied(c, s) ==
    /\ Reading(c, s) /\ s \notin long \cup huge
    /\ subscribed = c /\ seat # 0 /\ s > cursor
    /\ cursor' = s
    /\ applied' = Append(applied, s)
    /\ handled' = handled \cup {s}
    /\ Taken(c, s) /\ Reply(c, {s})
    /\ UNCHANGED <<pageVars, asks, told, seat, seats, subscribed>>

Read(c) ==
    \E s \in up[c] :
        \/ ReadLong(c, s) \/ ReadHuge(c, s) \/ ReadRefused(c, s)
        \/ ReadStale(c, s) \/ ReadDuplicate(c, s) \/ ReadApplied(c, s)

ReadFails(c) ==
    /\ place[c] = "open" /\ ~wire[c]
    /\ Goto(c, "ending")
    /\ UNCHANGED <<pageVars, wire, asks, up, told, out, last, seatVars, handled>>

\* writePump, at the end of a closed channel
HangUp(c) ==
    /\ place[c] = "open" /\ subscribed # c /\ wire[c]
    /\ wire' = [wire EXCEPT ![c] = FALSE]
    /\ UNCHANGED <<pageVars, place, asks, up, told, out, last, seatVars, handled>>

\* variant: the handler returns without unsubscribing
EndSubscribed(c) ==
    /\ place[c] = "ending"
    /\ Goto(c, "free")
    /\ wire' = [wire EXCEPT ![c] = FALSE]
    /\ up' = [up EXCEPT ![c] = {}]
    /\ UNCHANGED <<pageVars, asks, told, out, last, seatVars, handled>>

\* the deferred close, and unsubscribe
End(c) ==
    /\ place[c] = "ending"
    /\ Goto(c, "free")
    /\ wire' = [wire EXCEPT ![c] = FALSE]
    /\ up' = [up EXCEPT ![c] = {}]
    /\ subscribed' = IF subscribed = c THEN None ELSE subscribed
    /\ UNCHANGED <<pageVars, asks, told, out, last, seat, seats, cursor, applied, handled>>

---------------------------------------------------------------------------
(* What goes wrong                                                         *)

Cut(c) ==
    /\ wire[c]
    /\ Break(c)
    /\ UNCHANGED <<pageVars, place, asks, up, told, out, seatVars, handled>>

\* broadcast finds the subscriber's channel full
DropSlow(c) ==
    /\ subscribed = c
    /\ subscribed' = None
    /\ UNCHANGED <<pageVars, connVars, seat, seats, cursor, applied, handled>>

\* A kick; or the return to the lobby of a room that shows the seat offline,
\* which it can for a seat that is subscribed.
Unseat ==
    /\ seat # 0
    /\ seat' = 0 /\ cursor' = 0 /\ applied' = <<>>
    /\ \/ UNCHANGED <<subscribed, told, last>>
       \/ /\ subscribed # None /\ subscribed' = None
          /\ told' = [told EXCEPT ![subscribed] = None] /\ LastWord(subscribed, "kicked")
    /\ UNCHANGED <<pageVars, place, wire, asks, up, out, seats, handled>>

---------------------------------------------------------------------------

PageStep ==
    \/ Enter \/ ReceiveState \/ ReceiveAck \/ ReceiveLast
    \/ Lose \/ Leave
    \/ \E c \in Conns : Dial(c)
    \/ \E size \in Sizes : Send(size)

HandlerStep ==
    \E c \in Conns :
        ServeJoin(c) \/ ServeSubscribe(c) \/ Read(c) \/ ReadFails(c) \/ HangUp(c) \/ End(c)

Fault == Reload \/ Unseat \/ \E c \in Conns : Cut(c) \/ DropSlow(c)

Next == PageStep \/ HandlerStep \/ Fault

Spec == Init /\ [][Next]_vars

\* A page that lost its socket dials (the timer never gives up), a handler goes
\* on, and what keeps being there to receive is received.
Fairness ==
    /\ WF_vars(Lose) /\ WF_vars(ReceiveLast)
    /\ WF_vars(ReceiveState) /\ SF_vars(ReceiveAck)
    /\ \A c \in Conns :
          /\ WF_vars(Dial(c)) /\ WF_vars(ServeJoin(c)) /\ WF_vars(ServeSubscribe(c))
          /\ WF_vars(Read(c)) /\ WF_vars(ReadFails(c)) /\ WF_vars(HangUp(c)) /\ WF_vars(End(c))

---------------------------------------------------------------------------

Places == {"free", "upgraded", "joined", "open", "ending"}

\* Nothing is numbered ahead of its time, and who is subscribed has a handler
\* that will unsubscribe it (sendEvent, ServeHTTP).
ReplayTypeOK ==
    /\ page \in {"out", "in", "blocked", "over"} /\ socket \in Conns \cup {None}
    /\ socket # None => page = "in" /\ place[socket] \in Places
    /\ pending \subseteq 1 .. next - 1 /\ stored.pending \subseteq 1 .. stored.next - 1
    /\ \A c \in Conns : up[c] \subseteq Nat /\ told[c] \in {None} \cup 0 .. seats
    /\ subscribed # None => place[subscribed] \in {"open", "ending"}
    /\ stored.token \in 0 .. seats /\ seat \in 0 .. seats

\* However often events are replayed, over however many connections, a seat sees
\* each at most once and in the order they were made (State.Apply).
AppliedInOrder ==
    \A i, j \in DOMAIN applied : i < j => applied[i] < applied[j]

\* Every event ever made is still in the queue, in memory and in storage, or the
\* server decided on it (handleEventAck, readPump, saveCurrentSession).
NothingLost ==
    /\ page \in {"in", "blocked"} => 1 .. next - 1 \subseteq pending \cup handled
    /\ stored.token # 0 => 1 .. stored.next - 1 \subseteq stored.pending \cup handled

\* A new event is never numbered like an old one: whatever page continues the
\* session, its next number is above all that the seat or a connection has
\* (sendEvent, joinRoom, persistReliabilityState).
FreshSequences ==
    /\ page \in {"in", "blocked"} => next > cursor /\ \A c \in Conns : \A s \in up[c] : s < next
    /\ stored.token # 0 => stored.next > cursor

Quiet ==
    /\ socket # None /\ wire[socket]
    /\ place[socket] = "open" /\ subscribed = socket
    /\ up[socket] = {} /\ out[socket] = {}

\* Once a connection has nothing under way, only events that do not decode are
\* still pending: no reply was forgotten (readPump's every branch).
QuietMeansSettled == Quiet => pending \subseteq long

\* As docs/websocket-protocol.md has it: "Sequenced events receive a
\* connection-private acknowledgement".
EventsAcknowledged == Quiet => pending = {}

\* A page that stays gets each event out of its queue, unless one is in the way
\* that does not decode (scheduleReconnect, replayPendingEvents).
PendingSettles ==
    \A s \in 1 .. MaxPending :
        []<>(s \notin pending \/ page # "in" \/ pending \cap (long \cup huge) # {})

---------------------------------------------------------------------------
(* ClientReplay implements EventDelivery.  While no page continues the     *)
(* session, what there is of it is in storage.                             *)

Continued == page \in {"in", "blocked"}
Over      == page = "over"

Delivery == INSTANCE EventDelivery WITH
               made     <- (IF Continued THEN next ELSE stored.next) - 1,
               hopeless <- IF Over THEN {} ELSE long \cup huge,
               queue    <- IF Continued THEN pending ELSE stored.pending,
               decided  <- IF Over THEN {} ELSE handled,
               given    <- IF Over THEN <<>> ELSE applied,
               gone     <- Over

\* Whatever becomes of pages, connections and seats, events are kept until they
\* are decided on, and a seat is given them once, in order and without a gap
\* (app.js, readPump and State.Apply together).
ImplementsDelivery == Delivery!DeliverySpec

=============================================================================
