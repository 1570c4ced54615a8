---------------------------- MODULE ReplayProofs ----------------------------
(***************************************************************************)
(* Theorems about ClientReplay: for every number of connections, events,   *)
(* reloads, cuts and kicks, and every size of the queues.                  *)
(***************************************************************************)
EXTENDS ClientReplay, TLAPS, WellFoundedInduction

USE DEF pageVars, connVars, seatVars

---------------------------------------------------------------------------
(* What the helpers return                                                 *)

\* The next number to read is the least in flight.
LEMMA LeastIsLeast ==
    ASSUME NEW S \in SUBSET Nat, S # {}
    PROVE  Least(S) \in S /\ \A t \in S : Least(S) <= t
<1>. DEFINE R == OpToRel(<, Nat)
<1>1. IsWellFoundedOn(R, Nat) BY NatLessThanWellFounded
<1>2. \A p, q \in Nat : <<q, p>> \in R <=> q < p BY DEF OpToRel
<1>3. PICK p \in S : \A q \in S : ~(<<q, p>> \in R)
  <2>. HIDE DEF R
  <2>. QED BY <1>1, WFMin
<1>4. \A q \in S : p <= q
  <2>. TAKE q \in S
  <2>1. p \in Nat /\ q \in Nat OBVIOUS
  <2>2. ~(q < p) BY <1>2, <1>3, <2>1, Zenon
  <2>. QED BY <2>1, <2>2
<1>. QED BY <1>4 DEF Least

\* The number after the last that is pending is not above the one that was saved.
LEMMA AfterFits ==
    ASSUME NEW n \in Nat \ {0}, NEW S \in SUBSET (1 .. n - 1)
    PROVE  After(S) \in 1 .. n
<1>. DEFINE T == {n - s : s \in S \cup {0}}
<1>1. T \in SUBSET Nat /\ T # {} OBVIOUS
<1>2. Least(T) \in T /\ \A t \in T : Least(T) <= t BY <1>1, LeastIsLeast
<1>3. PICK m \in S \cup {0} : Least(T) = n - m BY <1>2
<1>4. \A s \in S : s <= m
  <2>. TAKE s \in S
  <2>1. n - s \in T OBVIOUS
  <2>2. n - m <= n - s BY <1>2, <1>3, <2>1
  <2>. QED BY <2>2
<1>5. /\ m + 1 \in {1} \cup {s + 1 : s \in S}
      /\ \A s \in S : s < m + 1
  BY <1>4
<1>6. After(S) \in {1} \cup {s + 1 : s \in S} BY <1>5 DEF After
<1>. QED BY <1>6

---------------------------------------------------------------------------
(* The invariant, in parts                                                 *)

ConnsTyped ==
    /\ place \in [Conns -> Places] /\ wire \in [Conns -> BOOLEAN]
    /\ up \in [Conns -> SUBSET (Nat \ {0})] /\ out \in [Conns -> SUBSET (Nat \ {0})]
    /\ told \in [Conns -> {None} \cup 0 .. seats]
    /\ subscribed \in Conns \cup {None}
    /\ subscribed # None => place[subscribed] \in {"open", "ending"}

\* Events are numbered below the next number.
Numbered(n, events) == n \in Nat \ {0} /\ events \subseteq 1 .. n - 1

PageTyped ==
    /\ page \in {"out", "in", "blocked", "over"} /\ socket \in Conns \cup {None}
    /\ socket # None => page = "in"
    /\ Numbered(next, pending) /\ Numbered(stored.next, stored.pending)
    /\ stored \in [token : 0 .. seats, next : Nat, pending : SUBSET Nat]
    /\ page = "out" => stored.token # 0

SeatTyped ==
    /\ seats \in Nat /\ seat \in 0 .. seats /\ cursor \in Nat
    /\ applied \in Seq(Nat) /\ \A i \in DOMAIN applied : applied[i] <= cursor

Typed == ConnsTyped /\ PageTyped /\ SeatTyped

LEMMA NumberedRules ==
    /\ Numbered(1, {})
    /\ \A n, S : Numbered(n, S) => /\ n \in Nat \ {0} /\ S \in SUBSET (Nat \ {0})
                                   /\ \A T : Numbered(n, S \ T)
                                   /\ Numbered(n + 1, S \cup {n})
  BY DEF Numbered

LEMMA SavedIsTyped ==
    ASSUME NEW t \in 0 .. seats, NEW n, NEW S, Numbered(n, S),
           NEW session, session = [token |-> t, next |-> n, pending |-> S]
    PROVE  /\ Numbered(session.next, session.pending)
           /\ session \in [token : 0 .. seats, next : Nat, pending : SUBSET Nat]
<1>1. n \in Nat /\ S \in SUBSET Nat BY NumberedRules
<1>2. session.next = n /\ session.pending = S OBVIOUS
<1>3. Numbered(session.next, session.pending) BY <1>2
<1>. QED BY <1>1, <1>3

LEMMA InitTyped ==
    ASSUME Init
    PROVE  Typed
  BY ReplayAssumption, NumberedRules DEF Init, Typed, ConnsTyped, PageTyped, SeatTyped, Places

---------------------------------------------------------------------------
(* What is common to several steps                                         *)

\* The page gives its connection up: it stays, or shows something else.
GivesUp ==
    /\ Drop /\ UNCHANGED <<long, huge, seatVars, handled>>
    /\ \/ UNCHANGED <<page, next, pending, stored>>
       \/ /\ page \in {"in", "blocked"} /\ page' = "blocked"
          /\ UNCHANGED <<next, pending, stored>>
       \/ /\ page' = "out" /\ stored.token # 0
          /\ next' = 1 /\ pending' = {} /\ UNCHANGED stored
       \/ /\ page' = "over" /\ next' = 1 /\ pending' = {}
          /\ stored' \in {stored, [token |-> 0, next |-> 1, pending |-> {}]}

LEMMA WhoGivesUp ==
    ASSUME PageTyped, Reload \/ Leave \/ Lose \/ ReceiveLast
    PROVE  GivesUp
<1>1. CASE Reload BY <1>1 DEF Reload, Show, Form, GivesUp
<1>2. CASE Leave BY <1>2 DEF Leave, Show, GivesUp
<1>3. CASE Lose BY <1>3 DEF Lose, Show, Form, GivesUp
<1>4. CASE ReceiveLast BY <1>4 DEF ReceiveLast, Show, GivesUp, PageTyped
<1>. QED BY <1>1, <1>2, <1>3, <1>4

\* An event has been read: off the wire up, perhaps answered, perhaps the end of
\* its connection.
WasRead(c, s) ==
    /\ Reading(c, s) /\ Taken(c, s)
    /\ out' \in {out} \cup {[out EXCEPT ![c] = @ \cup A] : A \in {{}, {s}}}
    /\ \/ UNCHANGED <<place, wire>>
       \/ Goto(c, "ending") /\ wire' = [wire EXCEPT ![c] = FALSE]
    /\ UNCHANGED <<pageVars, told, seat, seats, subscribed>>

LEMMA ReadIsRead ==
    ASSUME NEW c \in Conns, Read(c)
    PROVE  \E s \in up[c] : WasRead(c, s)
<1>1. PICK s \in up[c] : \/ ReadLong(c, s) \/ ReadHuge(c, s) \/ ReadRefused(c, s)
                         \/ ReadStale(c, s) \/ ReadDuplicate(c, s) \/ ReadApplied(c, s)
  BY DEF Read
<1>. USE DEF WasRead, Reply, Break
<1>2. CASE ReadLong(c, s) BY <1>2 DEF ReadLong
<1>3. CASE ReadHuge(c, s) BY <1>3 DEF ReadHuge
<1>4. CASE ReadRefused(c, s) BY <1>4 DEF ReadRefused
<1>5. CASE ReadStale(c, s) BY <1>5 DEF ReadStale
<1>6. CASE ReadDuplicate(c, s) BY <1>6 DEF ReadDuplicate
<1>7. CASE ReadApplied(c, s) BY <1>7 DEF ReadApplied
<1>. QED BY <1>1, <1>2, <1>3, <1>4, <1>5, <1>6, <1>7

---------------------------------------------------------------------------
(* Types                                                                   *)

LEMMA GivesUpTyped ==
    ASSUME Typed, GivesUp
    PROVE  Typed'
<1>. USE DEF GivesUp, Drop, Typed
<1>1. ConnsTyped'
  <2>1. wire' \in [Conns -> BOOLEAN]
    <3>1. \A c \in Conns : (wire[c] /\ c # socket) \in BOOLEAN BY Zenon
    <3>. QED BY <3>1
  <2>. QED BY <2>1 DEF ConnsTyped
<1>2. PageTyped'
  <2>1. /\ page' \in {"out", "in", "blocked", "over"} /\ socket' = None
        /\ Numbered(next', pending')
        /\ page' = "out" => stored'.token # 0
    BY NumberedRules DEF PageTyped
  <2>2. /\ Numbered(stored'.next, stored'.pending)
        /\ stored' \in [token : 0 .. seats, next : Nat, pending : SUBSET Nat]
    <3>1. CASE stored' = stored BY <3>1 DEF PageTyped
    <3>2. CASE stored' = [token |-> 0, next |-> 1, pending |-> {}]
      <4>1. 0 \in 0 .. seats BY DEF SeatTyped
      <4>. QED BY <3>2, <4>1, NumberedRules
    <3>. QED BY <3>1, <3>2
  <2>. QED BY <2>1, <2>2 DEF PageTyped
<1>3. SeatTyped' BY DEF SeatTyped
<1>. QED BY <1>1, <1>2, <1>3

LEMMA ReadTyped ==
    ASSUME Typed, NEW c \in Conns, Read(c)
    PROVE  Typed'
<1>. USE DEF Typed
<1>1. PICK s \in up[c] : WasRead(c, s) BY ReadIsRead
<1>2. s \in Nat \ {0} BY DEF ConnsTyped
<1>3. ConnsTyped'
  <2>1. up' \in [Conns -> SUBSET (Nat \ {0})] BY <1>1 DEF WasRead, Taken, ConnsTyped
  <2>2. out' \in [Conns -> SUBSET (Nat \ {0})]
    <3>1. PICK A \in {{}, {s}} : out' = out \/ out' = [out EXCEPT ![c] = @ \cup A]
      BY <1>1 DEF WasRead
    <3>2. A \in SUBSET (Nat \ {0}) BY <1>2
    <3>. QED BY <3>1, <3>2 DEF ConnsTyped
  <2>3. /\ place' \in [Conns -> Places] /\ wire' \in [Conns -> BOOLEAN]
        /\ subscribed # None => place'[subscribed] \in {"open", "ending"}
    BY <1>1 DEF WasRead, Goto, Places, ConnsTyped
  <2>. QED BY <1>1, <2>1, <2>2, <2>3 DEF WasRead, ConnsTyped
<1>4. PageTyped' BY <1>1 DEF WasRead, PageTyped
<1>5. SeatTyped'
  <2>1. PICK t \in up[c] : UNCHANGED <<cursor, applied>>
                           \/ /\ t > cursor /\ cursor' = t /\ applied' = Append(applied, t)
    BY DEF Read, ReadLong, ReadHuge, ReadRefused, ReadStale, ReadDuplicate, ReadApplied
  <2>2. CASE UNCHANGED <<cursor, applied>> BY <1>1, <2>2 DEF WasRead, SeatTyped
  <2>3. CASE t > cursor /\ cursor' = t /\ applied' = Append(applied, t)
    <3>1. t \in Nat BY DEF ConnsTyped
    <3>2. applied' \in Seq(Nat) BY <2>3, <3>1 DEF SeatTyped
    <3>3. \A i \in DOMAIN applied' : applied'[i] <= cursor'
      <4>1. applied \in Seq(Nat) /\ cursor \in Nat /\ \A i \in DOMAIN applied : applied[i] <= cursor
        BY DEF SeatTyped
      <4>2. /\ DOMAIN applied' = 1 .. Len(applied) + 1 /\ Len(applied) \in Nat
            /\ DOMAIN applied = 1 .. Len(applied)
            /\ applied'[Len(applied) + 1] = t
            /\ \A i \in 1 .. Len(applied) : applied'[i] = applied[i]
        BY <2>3, <3>1, <4>1
      <4>3. \A i \in 1 .. Len(applied) : applied[i] \in Nat BY <4>1
      <4>. QED BY <2>3, <3>1, <4>1, <4>2, <4>3
    <3>. QED BY <1>1, <2>3, <3>1, <3>2, <3>3 DEF WasRead, SeatTyped
  <2>. QED BY <2>1, <2>2, <2>3
<1>. QED BY <1>3, <1>4, <1>5

LEMMA PageStepTyped ==
    ASSUME Typed, PageStep
    PROVE  Typed'
<1>. USE DEF Typed
<1>1. CASE Enter
  <2>1. After(stored.pending) \in 1 .. stored.next
    BY AfterFits DEF PageTyped, Numbered
  <2>2. next' = stored.next
    BY <1>1, <2>1 DEF Enter, PageTyped, Numbered
  <2>. QED BY <1>1, <2>2 DEF Enter, ConnsTyped, PageTyped, SeatTyped
<1>2. CASE ReceiveState
  <2>1. told[socket] \in 0 .. seats
    BY <1>2 DEF ReceiveState, ConnsTyped, PageTyped
  <2>2. ConnsTyped' BY <1>2 DEF ReceiveState, ConnsTyped
  <2>3. PageTyped'
    <3>1. stored' = stored \/ stored' = [token |-> told[socket], next |-> next, pending |-> pending]
      BY <1>2 DEF ReceiveState, Save
    <3>2. page = "in" BY <1>2 DEF ReceiveState, PageTyped
    <3>3. Numbered(next, pending) BY DEF PageTyped
    <3>4. /\ Numbered(stored'.next, stored'.pending)
          /\ stored' \in [token : 0 .. seats, next : Nat, pending : SUBSET Nat]
      <4>1. CASE stored' = stored BY <4>1 DEF PageTyped
      <4>2. CASE stored' = [token |-> told[socket], next |-> next, pending |-> pending]
        BY <2>1, <3>3, <4>2, SavedIsTyped
      <4>. QED BY <3>1, <4>1, <4>2
    <3>. QED BY <1>2, <3>2, <3>3, <3>4 DEF ReceiveState, PageTyped
  <2>. QED BY <1>2, <2>2, <2>3 DEF ReceiveState, SeatTyped
<1>3. CASE ReceiveAck
  <2>1. PICK s \in out[socket] : /\ pending' = pending \ {s}
                                 /\ out' = [out EXCEPT ![socket] = @ \ {s}]
    BY <1>3 DEF ReceiveAck
  <2>2. ConnsTyped' BY <1>3, <2>1 DEF ReceiveAck, ConnsTyped, PageTyped
  <2>3. stored' = stored \/ stored' = [token |-> stored.token, next |-> next, pending |-> pending']
    BY <1>3 DEF ReceiveAck, Save
  <2>4. Numbered(next', pending') /\ next' = next /\ next \in Nat /\ pending' \in SUBSET Nat
    BY <1>3, <2>1, NumberedRules DEF ReceiveAck, PageTyped
  <2>5. PageTyped' BY <1>3, <2>3, <2>4 DEF ReceiveAck, PageTyped
  <2>. QED BY <1>3, <2>2, <2>5 DEF ReceiveAck, SeatTyped
<1>4. CASE ReceiveLast \/ Lose \/ Leave BY <1>4, WhoGivesUp, GivesUpTyped
<1>5. ASSUME NEW c \in Conns, Dial(c) PROVE Typed'
  <2>1. pending \in SUBSET (Nat \ {0}) BY NumberedRules DEF PageTyped
  <2>2. ConnsTyped' BY <1>5, <2>1 DEF Dial, ConnsTyped, Places
  <2>. QED BY <1>5, <2>2 DEF Dial, PageTyped, SeatTyped
<1>6. ASSUME NEW size \in Sizes, Send(size) PROVE Typed'
  <2>1. ConnsTyped'
    <3>1. next \in Nat \ {0} BY DEF PageTyped, Numbered
    <3>2. up' = up \/ up' = [up EXCEPT ![socket] = @ \cup {next}] BY <1>6 DEF Send
    <3>3. up' \in [Conns -> SUBSET (Nat \ {0})] BY <3>1, <3>2 DEF ConnsTyped
    <3>. QED BY <1>6, <3>3 DEF Send, ConnsTyped
  <2>2. stored' = stored \/ stored' = [token |-> stored.token, next |-> next', pending |-> pending']
    BY <1>6 DEF Send, Save
  <2>3. /\ Numbered(next', pending') /\ next' \in Nat /\ pending' \in SUBSET Nat
    BY <1>6, NumberedRules DEF Send, PageTyped
  <2>4. /\ Numbered(stored'.next, stored'.pending)
        /\ stored' \in [token : 0 .. seats, next : Nat, pending : SUBSET Nat]
    <3>1. CASE stored' = stored BY <3>1 DEF PageTyped
    <3>2. CASE stored' = [token |-> stored.token, next |-> next', pending |-> pending']
      <4>1. stored.token \in 0 .. seats BY DEF PageTyped
      <4>. QED BY <2>3, <3>2, <4>1, SavedIsTyped
    <3>. QED BY <2>2, <3>1, <3>2
  <2>5. /\ page' = page /\ socket' = socket /\ seats' = seats /\ page = "in"
    BY <1>6 DEF Send
  <2>6. PageTyped' BY <2>3, <2>4, <2>5 DEF PageTyped
  <2>. QED BY <1>6, <2>1, <2>6 DEF Send, SeatTyped
<1>. QED BY <1>1, <1>2, <1>3, <1>4, <1>5, <1>6 DEF PageStep

LEMMA HandlerStepTyped ==
    ASSUME Typed, NEW c \in Conns,
           \/ ServeJoin(c) \/ ServeSubscribe(c) \/ Read(c) \/ ReadFails(c) \/ HangUp(c) \/ End(c)
    PROVE  Typed'
<1>. USE DEF Typed
<1>1. CASE ServeJoin(c)
  <2>1. /\ place' = [place EXCEPT ![c] = "joined"] \/ place' = [place EXCEPT ![c] = "ending"]
        /\ place[c] = "upgraded" /\ UNCHANGED <<pageVars, wire, up, told, out, subscribed>>
    BY <1>1 DEF ServeJoin, Goto
  <2>2. \/ UNCHANGED <<seat, seats, cursor, applied>>
        \/ seats' = seats + 1 /\ seat' = seats' /\ cursor' = 0 /\ applied' = <<>>
    BY <1>1 DEF ServeJoin
  <2>3. SeatTyped'
    <3>1. CASE UNCHANGED <<seat, seats, cursor, applied>> BY <3>1 DEF SeatTyped
    <3>2. CASE seats' = seats + 1 /\ seat' = seats' /\ cursor' = 0 /\ applied' = <<>>
      <4>1. applied' \in Seq(Nat) /\ DOMAIN applied' = {} BY <3>2
      <4>2. seats' \in Nat /\ seat' \in 0 .. seats' /\ cursor' \in Nat BY <3>2 DEF SeatTyped
      <4>. QED BY <4>1, <4>2 DEF SeatTyped
    <3>. QED BY <2>2, <3>1, <3>2
  <2>4. 0 .. seats \subseteq 0 .. seats' BY <2>2 DEF SeatTyped
  <2>5. ConnsTyped'
    <3>1. told' \in [Conns -> {None} \cup 0 .. seats'] BY <2>1, <2>4 DEF ConnsTyped
    <3>2. place' \in [Conns -> Places] BY <2>1 DEF ConnsTyped, Places
    <3>3. subscribed # None => place'[subscribed] \in {"open", "ending"}
      BY <2>1 DEF ConnsTyped
    <3>. QED BY <2>1, <3>1, <3>2, <3>3 DEF ConnsTyped
  <2>6. PageTyped' BY <2>1, <2>4 DEF PageTyped
  <2>. QED BY <2>3, <2>5, <2>6
<1>2. CASE ServeSubscribe(c)
  <2>1. told' \in [Conns -> {None} \cup 0 .. seats]
    BY <1>2 DEF ServeSubscribe, ConnsTyped, SeatTyped
  <2>2. ConnsTyped' BY <1>2, <2>1, ReplayAssumption DEF ServeSubscribe, Goto, ConnsTyped, Places
  <2>. QED BY <1>2, <2>2 DEF ServeSubscribe, PageTyped, SeatTyped
<1>3. CASE Read(c) BY <1>3, ReadTyped
<1>4. CASE ReadFails(c)
  BY <1>4 DEF ReadFails, Goto, ConnsTyped, Places, PageTyped, SeatTyped
<1>5. CASE HangUp(c) BY <1>5 DEF HangUp, ConnsTyped, PageTyped, SeatTyped
<1>6. CASE End(c)
  BY <1>6 DEF End, Goto, ConnsTyped, Places, PageTyped, SeatTyped
<1>. QED BY <1>1, <1>2, <1>3, <1>4, <1>5, <1>6

LEMMA FaultTyped ==
    ASSUME Typed, Fault
    PROVE  Typed'
<1>. USE DEF Typed
<1>1. CASE Reload BY <1>1, WhoGivesUp, GivesUpTyped
<1>2. CASE Unseat
  <2>1. seat' = 0 /\ cursor' = 0 /\ applied' = <<>> /\ seats' = seats BY <1>2 DEF Unseat
  <2>2. ConnsTyped'
    <3>1. \/ UNCHANGED <<subscribed, told>>
          \/ subscribed' = None /\ told' = [told EXCEPT ![subscribed] = None]
      BY <1>2 DEF Unseat
    <3>. QED BY <1>2, <3>1 DEF Unseat, ConnsTyped
  <2>3. PageTyped' BY <1>2 DEF Unseat, PageTyped
  <2>. QED BY <2>1, <2>2, <2>3 DEF SeatTyped
<1>3. ASSUME NEW c \in Conns, Cut(c) PROVE Typed'
  BY <1>3 DEF Cut, Break, ConnsTyped, PageTyped, SeatTyped
<1>4. ASSUME NEW c \in Conns, DropSlow(c) PROVE Typed'
  BY <1>4 DEF DropSlow, ConnsTyped, PageTyped, SeatTyped
<1>. QED BY <1>1, <1>2, <1>3, <1>4 DEF Fault

LEMMA NextTyped ==
    ASSUME Typed, [Next]_vars
    PROVE  Typed'
<1>1. CASE UNCHANGED vars
  BY <1>1 DEF vars, Typed, ConnsTyped, PageTyped, SeatTyped
<1>. QED BY <1>1, PageStepTyped, HandlerStepTyped, FaultTyped DEF Next, HandlerStep

\* The page, its connections and the seat keep their types, nothing is numbered
\* ahead of its time, and whoever is subscribed has a handler that will unsubscribe
\* it (sendEvent, ServeHTTP).
THEOREM ReplayTypeCorrect == Spec => []ReplayTypeOK
<1>1. Init => Typed BY InitTyped
<1>2. Typed /\ [Next]_vars => Typed' BY NextTyped
<1>3. Typed => ReplayTypeOK
  BY DEF Typed, ConnsTyped, PageTyped, SeatTyped, ReplayTypeOK, Numbered
<1>. QED BY <1>1, <1>2, <1>3, PTL DEF Spec

---------------------------------------------------------------------------
(* Numbers.  What is saved is what the page has, so that whoever continues *)
(* the session continues the numbering.                                    *)

Numbering == page \in {"in", "blocked"}

Above(n) == n > cursor /\ \A c \in Conns : \A s \in up[c] : s < n

Fresh ==
    /\ Numbering => Above(next)
    /\ stored.token # 0 => Above(stored.next)
    /\ Numbering /\ stored.token # 0 => stored.next = next /\ stored.pending = pending

---------------------------------------------------------------------------
(* What becomes of an event.  A connection whose handler may still apply   *)
(* events reads them without a gap, and owes the page an answer to every   *)
(* one of them that decodes.                                               *)

Serving(c) == place[c] \in {"upgraded", "joined"} \/ subscribed = c
Settled    == handled \cup long \cup huge

AnswersAreHandled == \A c \in Conns : out[c] \subseteq handled
CursorIsSettled   == 1 .. cursor \subseteq Settled
NoGaps == \A c \in Conns : Serving(c) =>
             \A s \in up[c] : 1 .. s \subseteq up[c] \cup Settled
Owed == socket # None /\ wire[socket] /\ Serving(socket)
           => pending \subseteq up[socket] \cup out[socket] \cup long

Kept == NothingLost /\ AnswersAreHandled /\ CursorIsSettled /\ NoGaps /\ Owed

ReplayInv == Typed /\ Fresh /\ Kept

LEMMA InitReplayInv ==
    ASSUME Init
    PROVE  ReplayInv /\ AppliedInOrder
<1>1. Typed BY InitTyped
<1>2. \A c \in Conns : up[c] = {} /\ out[c] = {} BY DEF Init
<1>3. 1 .. 0 = {} OBVIOUS
<1>. QED
  BY <1>1, <1>2, <1>3
     DEF Init, ReplayInv, Fresh, Above, Kept, NothingLost, AnswersAreHandled, CursorIsSettled,
         NoGaps, Owed, AppliedInOrder

---------------------------------------------------------------------------
(* Steps that the page takes no part in                                    *)

\* A handler's step, or a fault that is not the page's: the page is as it was,
\* nothing new is in flight, and no connection is served that was not.
Behind ==
    /\ UNCHANGED pageVars
    /\ \A c \in Conns : up'[c] \subseteq up[c]
    /\ \A c \in Conns : wire'[c] => wire[c]
    /\ \A c \in Conns : Serving(c)' => Serving(c)
    /\ cursor' \in {0, cursor} \cup UNION {up[c] : c \in Conns}

\* And no event was read; what was in flight may be gone with its connection.
Unread ==
    /\ UNCHANGED <<out, handled>> /\ cursor' \in {0, cursor}
    /\ \A c \in Conns : up'[c] = up[c] \/ (up'[c] = {} /\ ~wire'[c])

LEMMA HandlerIsBehind ==
    ASSUME Typed, NEW c \in Conns,
           ServeJoin(c) \/ ServeSubscribe(c) \/ ReadFails(c) \/ HangUp(c) \/ End(c)
    PROVE  Behind /\ Unread
<1>. USE DEF Behind, Unread, Serving, Goto, Typed, ConnsTyped
<1>1. CASE ServeJoin(c) BY <1>1, ReplayAssumption DEF ServeJoin
<1>2. CASE ServeSubscribe(c) BY <1>2, ReplayAssumption DEF ServeSubscribe
<1>3. CASE ReadFails(c) BY <1>3, ReplayAssumption DEF ReadFails
<1>4. CASE HangUp(c) BY <1>4, ReplayAssumption DEF HangUp
<1>5. CASE End(c) BY <1>5, ReplayAssumption DEF End
<1>. QED BY <1>1, <1>2, <1>3, <1>4, <1>5

LEMMA FaultIsBehind ==
    ASSUME Typed, Unseat \/ \E c \in Conns : Cut(c) \/ DropSlow(c)
    PROVE  Behind /\ Unread
<1>. USE DEF Behind, Unread, Serving, Typed, ConnsTyped
<1>1. CASE Unseat BY <1>1, ReplayAssumption DEF Unseat
<1>2. CASE \E c \in Conns : Cut(c) BY <1>2 DEF Cut, Break
<1>3. CASE \E c \in Conns : DropSlow(c) BY <1>3, ReplayAssumption DEF DropSlow
<1>. QED BY <1>1, <1>2, <1>3

LEMMA ReadIsBehind ==
    ASSUME Typed, NEW c \in Conns, NEW s \in up[c], WasRead(c, s), cursor' \in {cursor, s}
    PROVE  Behind
  BY DEF Behind, WasRead, Taken, Goto, Serving, Typed, ConnsTyped

LEMMA BehindIsFresh ==
    ASSUME Typed, Fresh, Behind
    PROVE  Fresh'
<1>1. ASSUME NEW n, Above(n), n \in Nat \ {0}
      PROVE  n > cursor' /\ \A c \in Conns : \A s \in up'[c] : s < n
  BY <1>1 DEF Above, Behind
<1>2. UNCHANGED <<page, next, pending, stored>> BY DEF Behind
<1>3. next \in Nat \ {0} /\ stored.next \in Nat \ {0}
  BY DEF Typed, PageTyped, Numbered
<1>. QED BY <1>1, <1>2, <1>3 DEF Fresh, Above, Numbering


LEMMA UnreadIsKept ==
    ASSUME Typed, Kept, Behind, Unread
    PROVE  Kept'
<1>. USE DEF Kept, Behind, Unread
<1>1. NothingLost' BY DEF NothingLost
<1>2. AnswersAreHandled' BY DEF AnswersAreHandled
<1>3. CursorIsSettled'
  <2>1. 1 .. 0 = {} OBVIOUS
  <2>. QED BY <2>1 DEF CursorIsSettled, Settled
<1>4. NoGaps' BY DEF NoGaps, Settled
<1>5. Owed' BY DEF Owed, Typed, PageTyped
<1>. QED BY <1>1, <1>2, <1>3, <1>4, <1>5

---------------------------------------------------------------------------
(* Reading                                                                 *)

\* A connection that is served hands on the next event of the session: what it
\* applies is above what was applied, and leaves nothing behind.
LEMMA ReadIsKept ==
    ASSUME ReplayInv, NEW c \in Conns, Read(c)
    PROVE  ReplayInv' /\ (AppliedInOrder => AppliedInOrder')
<1>1. PICK s \in up[c] :
         /\ Reading(c, s)
         /\ \/ ReadLong(c, s) \/ ReadHuge(c, s) \/ ReadRefused(c, s)
            \/ ReadStale(c, s) \/ ReadDuplicate(c, s) \/ ReadApplied(c, s)
  BY DEF Read, ReadLong, ReadHuge, ReadRefused, ReadStale, ReadDuplicate, ReadApplied
<1>. USE DEF ReplayInv
<1>2. /\ up[c] \in SUBSET (Nat \ {0}) /\ s \in Nat \ {0}
      /\ \A t \in up[c] : s <= t
  BY <1>1, LeastIsLeast DEF Typed, ConnsTyped, Reading
<1>3. /\ \A d \in Conns : up'[d] = IF d = c THEN up[c] \ {s} ELSE up[d]
      /\ UNCHANGED <<pageVars, subscribed>>
      /\ \A d \in Conns : Serving(d)' => Serving(d)
      /\ cursor' \in {cursor, s}
      /\ \A d \in Conns : wire'[d] => wire[d]
      /\ \A d \in Conns \ {c} : out'[d] = out[d]
      /\ handled \subseteq handled'
  <2>. USE DEF Taken, Reply, Goto, Break, Serving, Reading, Typed, ConnsTyped
  <2>1. CASE ReadLong(c, s) BY <2>1 DEF ReadLong
  <2>2. CASE ReadHuge(c, s) BY <2>2 DEF ReadHuge
  <2>3. CASE ReadRefused(c, s) BY <2>3 DEF ReadRefused
  <2>4. CASE ReadStale(c, s) BY <2>4 DEF ReadStale
  <2>5. CASE ReadDuplicate(c, s) BY <2>5 DEF ReadDuplicate
  <2>6. CASE ReadApplied(c, s) BY <2>6 DEF ReadApplied
  <2>. QED BY <1>1, <2>1, <2>2, <2>3, <2>4, <2>5, <2>6
<1>4. Typed' /\ Fresh'
  <2>1. Behind BY <1>3 DEF Behind
  <2>. QED BY <2>1, BehindIsFresh, ReadTyped
<1>5. ReadDuplicate(c, s) => s \in handled
  <2>1. ReadDuplicate(c, s) => s \in 1 .. cursor
    BY <1>2 DEF ReadDuplicate, Typed, SeatTyped
  <2>. QED BY <2>1 DEF ReadDuplicate, Kept, CursorIsSettled, Settled
<1>6. Serving(c) => /\ s \in Settled'
                    /\ out[c] \subseteq out'[c]
                    /\ wire'[c] => s \in out'[c] \cup long
  <2>. USE DEF Taken, Reply, Goto, Break, Serving, Reading, Typed, ConnsTyped, Settled
  <2>1. CASE ReadLong(c, s) BY <2>1 DEF ReadLong
  <2>2. CASE ReadHuge(c, s) BY <2>2 DEF ReadHuge
  <2>3. CASE ReadRefused(c, s) BY <2>3 DEF ReadRefused
  <2>4. CASE ReadStale(c, s) BY <2>4 DEF ReadStale
  <2>5. CASE ReadDuplicate(c, s) BY <2>5, <1>5 DEF ReadDuplicate
  <2>6. CASE ReadApplied(c, s) BY <2>6 DEF ReadApplied
  <2>. QED BY <1>1, <2>1, <2>2, <2>3, <2>4, <2>5, <2>6
<1>7. out'[c] \subseteq out[c] \cup {s} /\ (s \in out'[c] => s \in out[c] \cup handled')
  <2>. USE DEF Taken, Reply, Reading, Typed, ConnsTyped
  <2>1. CASE ReadLong(c, s) BY <2>1 DEF ReadLong
  <2>2. CASE ReadHuge(c, s) BY <2>2 DEF ReadHuge
  <2>3. CASE ReadRefused(c, s) BY <2>3 DEF ReadRefused
  <2>4. CASE ReadStale(c, s) BY <2>4 DEF ReadStale
  <2>5. CASE ReadDuplicate(c, s) BY <2>5, <1>5 DEF ReadDuplicate
  <2>6. CASE ReadApplied(c, s) BY <2>6 DEF ReadApplied
  <2>. QED BY <1>1, <2>1, <2>2, <2>3, <2>4, <2>5, <2>6
<1>8. NothingLost' BY <1>3 DEF Kept, NothingLost
<1>9. AnswersAreHandled' BY <1>3, <1>7 DEF Kept, AnswersAreHandled
<1>10. Settled \subseteq Settled' BY <1>3 DEF Settled
<1>11. CursorIsSettled'
  <2>1. CASE cursor' = cursor BY <2>1, <1>10 DEF Kept, CursorIsSettled
  <2>2. CASE cursor' = s /\ cursor # s
    <3>1. ReadApplied(c, s) BY <1>1, <2>2 DEF ReadLong, ReadHuge, ReadRefused, ReadStale, ReadDuplicate
    <3>2. Serving(c) BY <3>1 DEF ReadApplied, Serving
    <3>3. \A k \in 1 .. s : k \in up[c] => k = s BY <1>2
    <3>4. 1 .. s \subseteq up[c] \cup Settled BY <3>2 DEF Kept, NoGaps
    <3>. QED BY <2>2, <3>2, <3>3, <3>4, <1>6, <1>10 DEF CursorIsSettled
  <2>. QED BY <1>3, <2>1, <2>2
<1>12. NoGaps'
  <2>1. ASSUME NEW d \in Conns, Serving(d)', NEW t \in up'[d], NEW k \in 1 .. t
        PROVE  k \in up'[d] \cup Settled'
    <3>1. Serving(d) /\ t \in up[d] BY <1>3, <2>1
    <3>2. k \in up[d] \cup Settled BY <3>1 DEF Kept, NoGaps
    <3>. QED BY <3>1, <3>2, <1>3, <1>6, <1>10
  <2>. QED BY <2>1 DEF NoGaps
<1>13. Owed' BY <1>3, <1>6 DEF Kept, Owed, Typed, PageTyped
<1>14. AppliedInOrder => AppliedInOrder'
  <2>1. UNCHANGED applied \/ (s > cursor /\ applied' = Append(applied, s))
    BY <1>1 DEF ReadLong, ReadHuge, ReadRefused, ReadStale, ReadDuplicate, ReadApplied
  <2>2. /\ applied \in Seq(Nat) /\ cursor \in Nat
        /\ \A i \in DOMAIN applied : applied[i] <= cursor
    BY DEF Typed, SeatTyped
  <2>3. CASE s > cursor /\ applied' = Append(applied, s)
    <3>1. /\ DOMAIN applied' = 1 .. Len(applied) + 1 /\ Len(applied) \in Nat
          /\ DOMAIN applied = 1 .. Len(applied)
          /\ applied'[Len(applied) + 1] = s
          /\ \A i \in 1 .. Len(applied) : applied'[i] = applied[i]
      BY <1>2, <2>2, <2>3
    <3>2. \A i \in 1 .. Len(applied) : applied[i] \in Nat /\ applied[i] < s
      BY <1>2, <2>2, <2>3
    <3>. QED BY <3>1, <3>2 DEF AppliedInOrder
  <2>. QED BY <2>1, <2>3 DEF AppliedInOrder
<1>. QED BY <1>4, <1>8, <1>9, <1>11, <1>12, <1>13, <1>14 DEF Kept


---------------------------------------------------------------------------
(* The page                                                                *)

LEMMA GivesUpKeeps ==
    ASSUME ReplayInv, GivesUp
    PROVE  ReplayInv'
<1>. USE DEF ReplayInv
<1>1. Typed' BY GivesUpTyped
<1>2. /\ socket' = None /\ UNCHANGED <<up, place, subscribed, cursor, handled, long, huge>>
      /\ \A c \in Conns : out'[c] \subseteq out[c]
  BY DEF GivesUp, Drop
<1>3. Fresh' /\ NothingLost'
  <2>. USE <1>2 DEF Kept, NothingLost, Fresh, Above, Numbering, GivesUp
  <2>1. CASE UNCHANGED <<page, next, pending, stored>> BY <2>1
  <2>2. CASE page' = "blocked" /\ page \in {"in", "blocked"} /\ UNCHANGED <<next, pending, stored>>
    BY <2>2
  <2>3. CASE page' = "out" /\ UNCHANGED stored BY <2>3
  <2>4. CASE page' = "over" /\ stored' \in {stored, [token |-> 0, next |-> 1, pending |-> {}]}
    BY <2>4
  <2>. QED BY <2>1, <2>2, <2>3, <2>4
<1>4. AnswersAreHandled' BY <1>2 DEF Kept, AnswersAreHandled
<1>5. CursorIsSettled' BY <1>2 DEF Kept, CursorIsSettled, Settled
<1>6. NoGaps' BY <1>2 DEF Kept, NoGaps, Serving, Settled
<1>7. Owed' BY <1>2 DEF Owed
<1>. QED BY <1>1, <1>3, <1>4, <1>5, <1>6, <1>7 DEF Kept

LEMMA EnterKeeps ==
    ASSUME ReplayInv, Enter
    PROVE  ReplayInv'
<1>. USE DEF ReplayInv
<1>1. Typed' BY PageStepTyped DEF PageStep
<1>2. After(stored.pending) \in 1 .. stored.next
  BY AfterFits DEF Typed, PageTyped, Numbered
<1>3. /\ next' = stored.next /\ pending' = stored.pending
      /\ stored.token # 0 /\ socket' = None
      /\ UNCHANGED <<stored, long, huge, connVars, seatVars, handled>>
  BY <1>2 DEF Enter, Typed, PageTyped, Numbered
<1>4. Fresh' BY <1>3 DEF Fresh, Above, Numbering
<1>5. NothingLost' BY <1>3 DEF Kept, NothingLost
<1>6. AnswersAreHandled' /\ CursorIsSettled' /\ NoGaps' /\ Owed'
  BY <1>3 DEF Kept, AnswersAreHandled, CursorIsSettled, NoGaps, Owed, Serving, Settled
<1>. QED BY <1>1, <1>4, <1>5, <1>6 DEF Kept

\* What a session that is saved holds: what the page has.
LEMMA SaveIsFresh ==
    ASSUME Typed, Fresh, NothingLost, page = "in", page' = "in",
           NEW token, Save(token),
           token = 0 => stored.token = 0 \/ UNCHANGED <<next, pending>>,
           next' > cursor', \A c \in Conns : \A s \in up'[c] : s < next',
           1 .. next' - 1 \subseteq pending' \cup handled', handled \subseteq handled',
           UNCHANGED cursor,
           token = 0 /\ stored.token # 0 => UNCHANGED up
    PROVE  Fresh' /\ NothingLost'
<1>1. CASE token = 0
  BY <1>1 DEF Save, Fresh, Above, Numbering, NothingLost
<1>2. CASE token # 0
  <2>1. stored'.token = token /\ stored'.next = next' /\ stored'.pending = pending'
    BY <1>2 DEF Save
  <2>. QED BY <2>1 DEF Fresh, Above, Numbering, NothingLost
<1>. QED BY <1>1, <1>2

LEMMA ReceiveStateKeeps ==
    ASSUME ReplayInv, ReceiveState
    PROVE  ReplayInv'
<1>. USE DEF ReplayInv
<1>1. Typed' BY PageStepTyped DEF PageStep
<1>2. /\ page = "in" /\ page' = "in" /\ Save(told[socket])
      /\ UNCHANGED <<next, pending, socket, long, huge, place, wire, up, out, subscribed,
                     cursor, handled>>
  BY DEF ReceiveState, Typed, PageTyped
<1>3. Fresh' /\ NothingLost'
  <2>1. next > cursor /\ \A c \in Conns : \A s \in up[c] : s < next
    BY <1>2 DEF Fresh, Above, Numbering
  <2>2. 1 .. next - 1 \subseteq pending \cup handled BY <1>2 DEF Kept, NothingLost
  <2>. QED BY <1>2, <2>1, <2>2, SaveIsFresh DEF Kept
<1>4. AnswersAreHandled' /\ CursorIsSettled' /\ NoGaps' /\ Owed'
  BY <1>2 DEF Kept, AnswersAreHandled, CursorIsSettled, NoGaps, Owed, Serving, Settled
<1>. QED BY <1>1, <1>3, <1>4 DEF Kept

LEMMA ReceiveAckKeeps ==
    ASSUME ReplayInv, ReceiveAck
    PROVE  ReplayInv'
<1>. USE DEF ReplayInv
<1>1. Typed' BY PageStepTyped DEF PageStep
<1>2. PICK s \in out[socket] : /\ pending' = pending \ {s}
                               /\ out' = [out EXCEPT ![socket] = @ \ {s}]
  BY DEF ReceiveAck
<1>3. /\ page = "in" /\ page' = "in" /\ Save(stored.token) /\ socket \in Conns
      /\ UNCHANGED <<next, socket, long, huge, place, wire, up, subscribed, cursor, handled>>
  BY DEF ReceiveAck, Typed, PageTyped
<1>4. s \in handled BY <1>3 DEF Kept, AnswersAreHandled
<1>5. /\ \A c \in Conns : out'[c] \subseteq out[c]
      /\ out'[socket] = out[socket] \ {s}
  BY <1>2, <1>3 DEF Typed, ConnsTyped
<1>6. Fresh' /\ NothingLost'
  <2>1. next > cursor /\ \A c \in Conns : \A n \in up[c] : n < next
    BY <1>3 DEF Fresh, Above, Numbering
  <2>2. 1 .. next - 1 \subseteq pending' \cup handled
    BY <1>2, <1>3, <1>4 DEF Kept, NothingLost
  <2>. QED BY <1>3, <2>1, <2>2, SaveIsFresh DEF Kept
<1>7. AnswersAreHandled' BY <1>3, <1>5 DEF Kept, AnswersAreHandled
<1>8. CursorIsSettled' /\ NoGaps'
  BY <1>3 DEF Kept, CursorIsSettled, NoGaps, Serving, Settled
<1>9. Owed' BY <1>2, <1>3, <1>5 DEF Kept, Owed, Serving
<1>. QED BY <1>1, <1>6, <1>7, <1>8, <1>9 DEF Kept

LEMMA DialKeeps ==
    ASSUME ReplayInv, NEW c \in Conns, Dial(c)
    PROVE  ReplayInv'
<1>. USE DEF ReplayInv
<1>1. Typed' BY PageStepTyped DEF PageStep
<1>2. /\ page = "in" /\ socket' = c
      /\ \A d \in Conns : up'[d] = IF d = c THEN pending ELSE up[d]
      /\ \A d \in Conns \ {c} : Serving(d)' => Serving(d)
      /\ UNCHANGED <<page, next, pending, stored, out, long, huge, cursor, subscribed, handled>>
  BY DEF Dial, Typed, ConnsTyped, Serving
<1>3. next \in Nat \ {0} /\ pending \subseteq 1 .. next - 1
  BY DEF Typed, PageTyped, Numbered
<1>4. Fresh' BY <1>2, <1>3 DEF Fresh, Above, Numbering
<1>5. NothingLost' /\ AnswersAreHandled' /\ CursorIsSettled'
  BY <1>2 DEF Kept, NothingLost, AnswersAreHandled, CursorIsSettled, Settled
<1>6. NoGaps'
  <2>1. ASSUME NEW t \in pending PROVE 1 .. t \subseteq pending \cup Settled
    <3>1. 1 .. t \subseteq 1 .. next - 1 BY <1>3
    <3>. QED BY <1>2, <3>1 DEF Kept, NothingLost, Settled
  <2>. QED BY <1>2, <2>1 DEF Kept, NoGaps, Settled
<1>7. Owed' BY <1>2 DEF Owed
<1>. QED BY <1>1, <1>4, <1>5, <1>6, <1>7 DEF Kept

LEMMA SendKeeps ==
    ASSUME ReplayInv, NEW size \in Sizes, Send(size)
    PROVE  ReplayInv'
<1>. USE DEF ReplayInv
<1>1. Typed' BY PageStepTyped DEF PageStep
<1>2. /\ page = "in" /\ page' = "in" /\ socket \in Conns /\ Save(stored.token)
      /\ next' = next + 1 /\ pending' = pending \cup {next}
      /\ long \subseteq long' /\ huge \subseteq huge'
      /\ \A d \in Conns : up'[d] = IF d = socket /\ wire[socket] THEN up[d] \cup {next} ELSE up[d]
      /\ UNCHANGED <<socket, place, wire, out, subscribed, cursor, handled>>
  BY DEF Send, Typed, PageTyped, ConnsTyped
<1>3. next \in Nat \ {0} /\ cursor \in Nat
  BY DEF Typed, PageTyped, SeatTyped, Numbered
<1>4. 1 .. next - 1 \subseteq pending \cup handled BY <1>2 DEF Kept, NothingLost
<1>5. Fresh' /\ NothingLost'
  <2>1. next > cursor /\ \A c \in Conns : \A n \in up[c] : n < next
    BY <1>2 DEF Fresh, Above, Numbering
  <2>2. \A c \in Conns : up[c] \subseteq Nat BY DEF Typed, ConnsTyped
  <2>3. next' > cursor /\ \A c \in Conns : \A n \in up'[c] : n < next'
    <3>1. next' > cursor BY <1>2, <1>3, <2>1
    <3>2. ASSUME NEW c \in Conns, NEW n \in up'[c] PROVE n < next'
      <4>1. n = next \/ n \in up[c] BY <1>2, <3>2
      <4>. QED BY <1>2, <1>3, <2>1, <2>2, <4>1
    <3>. QED BY <3>1, <3>2
  <2>4. 1 .. next' - 1 \subseteq pending' \cup handled BY <1>2, <1>3, <1>4
  <2>. QED BY <1>2, <2>3, <2>4, SaveIsFresh DEF Kept
<1>6. Settled \subseteq Settled' /\ \A c \in Conns : Serving(c)' => Serving(c)
  BY <1>2 DEF Settled, Serving
<1>7. AnswersAreHandled' BY <1>2 DEF Kept, AnswersAreHandled
<1>8. CursorIsSettled' BY <1>2, <1>6 DEF Kept, CursorIsSettled
<1>9. NoGaps'
  <2>1. ASSUME Serving(socket), wire[socket]
        PROVE  1 .. next \subseteq up[socket] \cup {next} \cup Settled
    <3>1. pending \subseteq up[socket] \cup Settled
      BY <1>2, <2>1, ReplayAssumption DEF Kept, Owed, AnswersAreHandled, Settled
    <3>2. 1 .. next = (1 .. next - 1) \cup {next} BY <1>3
    <3>. QED BY <1>4, <3>1, <3>2 DEF Settled
  <2>2. ASSUME NEW c \in Conns, Serving(c), NEW s \in up'[c]
        PROVE  1 .. s \subseteq up'[c] \cup Settled'
    <3>1. CASE s \in up[c]
      <4>1. 1 .. s \subseteq up[c] \cup Settled BY <2>2, <3>1 DEF Kept, NoGaps
      <4>. QED BY <4>1, <1>2, <1>6
    <3>2. CASE s = next /\ c = socket /\ wire[socket]
      <4>1. 1 .. next \subseteq up[socket] \cup {next} \cup Settled BY <2>1, <2>2, <3>2
      <4>. QED BY <4>1, <3>2, <1>2, <1>6
    <3>. QED BY <2>2, <3>1, <3>2, <1>2
  <2>. QED BY <1>6, <2>2 DEF NoGaps
<1>10. Owed'
  <2>1. ASSUME socket # None, wire[socket], Serving(socket)
        PROVE  pending' \subseteq up'[socket] \cup out[socket] \cup long'
    BY <1>2, <2>1 DEF Kept, Owed
  <2>. QED BY <1>2, <1>6, <2>1 DEF Owed
<1>. QED BY <1>1, <1>5, <1>7, <1>8, <1>9, <1>10 DEF Kept

LEMMA NextReplayInv ==
    ASSUME ReplayInv, AppliedInOrder, [Next]_vars
    PROVE  ReplayInv' /\ AppliedInOrder'
<1>1. ASSUME UNCHANGED applied \/ applied' = <<>> PROVE AppliedInOrder'
  <2>1. CASE applied' = <<>>
    <3>1. DOMAIN applied' = {} BY <2>1
    <3>. QED BY <3>1 DEF AppliedInOrder
  <2>. QED BY <1>1, <2>1 DEF AppliedInOrder
<1>2. CASE PageStep
  <2>1. UNCHANGED applied
    BY <1>2 DEF PageStep, Enter, ReceiveState, ReceiveAck, ReceiveLast, Lose, Leave, Dial, Send
  <2>2. CASE ReceiveLast \/ Lose \/ Leave
    <3>1. GivesUp BY <2>2, WhoGivesUp DEF ReplayInv, Typed
    <3>. QED BY <2>1, <3>1, <1>1, GivesUpKeeps
  <2>. QED
    BY <1>1, <1>2, <2>1, <2>2, EnterKeeps, ReceiveStateKeeps, ReceiveAckKeeps, DialKeeps, SendKeeps
       DEF PageStep
<1>3. ASSUME Behind, Unread PROVE ReplayInv'
  BY <1>3, NextTyped, BehindIsFresh, UnreadIsKept DEF ReplayInv
<1>4. ASSUME NEW c \in Conns,
             ServeJoin(c) \/ ServeSubscribe(c) \/ ReadFails(c) \/ HangUp(c) \/ End(c)
      PROVE  ReplayInv' /\ AppliedInOrder'
  <2>1. UNCHANGED applied \/ applied' = <<>>
    BY <1>4 DEF ServeJoin, ServeSubscribe, ReadFails, HangUp, End
  <2>. QED BY <1>1, <1>3, <1>4, <2>1, HandlerIsBehind DEF ReplayInv
<1>5. CASE Fault
  <2>1. CASE Reload
    <3>1. GivesUp BY <2>1, WhoGivesUp DEF ReplayInv, Typed
    <3>. QED BY <2>1, <3>1, <1>1, GivesUpKeeps DEF Reload
  <2>2. CASE Unseat \/ \E c \in Conns : Cut(c) \/ DropSlow(c)
    <3>1. UNCHANGED applied \/ applied' = <<>> BY <2>2 DEF Unseat, Cut, DropSlow
    <3>. QED BY <2>2, <3>1, <1>1, <1>3, FaultIsBehind DEF ReplayInv
  <2>. QED BY <1>5, <2>1, <2>2 DEF Fault
<1>6. CASE UNCHANGED vars
  <2>1. UNCHANGED applied BY <1>6 DEF vars
  <2>2. Behind /\ Unread BY <1>6 DEF vars, Behind, Unread, Serving
  <2>. QED BY <2>1, <2>2, <1>1, <1>3
<1>. QED BY <1>2, <1>4, <1>5, <1>6, ReadIsKept DEF Next, HandlerStep

\* Over any number of connections, replays, reloads and new seats, a seat applies
\* an event at most once, and events in the order they were made (State.Apply's
\* comparison with LastClientSequence is enough).
THEOREM EventsApplyInOrder == Spec => []AppliedInOrder
<1>1. Init => ReplayInv /\ AppliedInOrder BY InitReplayInv
<1>2. ReplayInv /\ AppliedInOrder /\ [Next]_vars => (ReplayInv /\ AppliedInOrder)'
  BY NextReplayInv
<1>. QED BY <1>1, <1>2, PTL DEF Spec

\* An event leaves the page's queue, and the one in storage, only when the server
\* has decided on it: cuts, reloads, full queues and replaced connections lose
\* none (handleEventAck, saveCurrentSession, readPump).
THEOREM NoEventIsLost == Spec => []NothingLost
<1>1. Init => ReplayInv /\ AppliedInOrder BY InitReplayInv
<1>2. ReplayInv /\ AppliedInOrder /\ [Next]_vars => (ReplayInv /\ AppliedInOrder)'
  BY NextReplayInv
<1>3. ReplayInv => NothingLost BY DEF ReplayInv, Kept
<1>. QED BY <1>1, <1>2, <1>3, PTL DEF Spec

\* The next event gets a number above every one that the seat has seen or that is
\* still under way, also after a reload: it is never mistaken for a replay
\* (sendEvent, joinRoom, persistReliabilityState).
THEOREM NumbersAreFresh == Spec => []FreshSequences
<1>1. Init => ReplayInv /\ AppliedInOrder BY InitReplayInv
<1>2. ReplayInv /\ AppliedInOrder /\ [Next]_vars => (ReplayInv /\ AppliedInOrder)'
  BY NextReplayInv
<1>3. ReplayInv => FreshSequences
  BY DEF ReplayInv, Fresh, Above, Numbering, FreshSequences
<1>. QED BY <1>1, <1>2, <1>3, PTL DEF Spec

\* When nothing is under way on a connection that is served, every event that
\* decodes has had its answer: no branch of readPump forgets one.
THEOREM EveryReplyIsSent == Spec => []QuietMeansSettled
<1>1. Init => ReplayInv /\ AppliedInOrder BY InitReplayInv
<1>2. ReplayInv /\ AppliedInOrder /\ [Next]_vars => (ReplayInv /\ AppliedInOrder)'
  BY NextReplayInv
<1>3. ReplayInv => QuietMeansSettled
  BY DEF ReplayInv, Kept, Owed, Serving, QuietMeansSettled, Quiet
<1>. QED BY <1>1, <1>2, <1>3, PTL DEF Spec

---------------------------------------------------------------------------
(* The refinement.  Whichever page continues the session has what storage  *)
(* has; a session without a token holds nothing.                           *)

SessionIsWhole ==
    /\ stored.token = 0 => stored.next = 1 /\ stored.pending = {}
    /\ Over => stored.token = 0

LEMMA SessionStaysWhole ==
    ASSUME Typed, SessionIsWhole, [Next]_vars
    PROVE  SessionIsWhole'
<1>. USE DEF SessionIsWhole, Over
<1>1. ASSUME UNCHANGED <<page, stored>> PROVE SessionIsWhole'
  BY <1>1
<1>2. ASSUME NEW token, Save(token), page' # "over" PROVE SessionIsWhole'
  BY <1>2 DEF Save
<1>3. ASSUME Lose \/ Reload PROVE SessionIsWhole'
  BY <1>3 DEF Lose, Reload, Show, Form
<1>4. ASSUME ReceiveLast \/ Leave PROVE SessionIsWhole'
  <2>1. \/ stored' = [token |-> 0, next |-> 1, pending |-> {}]
        \/ page' = "blocked" /\ UNCHANGED stored
    <3>1. CASE ReceiveLast
      <4>1. \/ stored' = [token |-> 0, next |-> 1, pending |-> {}]
            \/ Show("blocked") /\ stored' = stored
        BY <3>1 DEF ReceiveLast
      <4>. QED BY <4>1 DEF Show
    <3>2. CASE Leave BY <3>2 DEF Leave
    <3>. QED BY <1>4, <3>1, <3>2
  <2>. QED BY <2>1
<1>5. CASE PageStep
  <2>1. Enter => SessionIsWhole' BY DEF Enter
  <2>2. ReceiveState \/ ReceiveAck => SessionIsWhole'
    BY <1>2 DEF ReceiveState, ReceiveAck, Typed, PageTyped
  <2>3. (\E c \in Conns : Dial(c)) => SessionIsWhole' BY <1>1 DEF Dial
  <2>4. (\E size \in Sizes : Send(size)) => SessionIsWhole' BY <1>2 DEF Send
  <2>. QED BY <1>3, <1>4, <1>5, <2>1, <2>2, <2>3, <2>4 DEF PageStep
<1>6. CASE HandlerStep
  <2>1. ASSUME NEW c \in Conns, Read(c) PROVE UNCHANGED pageVars
    BY <2>1, ReadIsRead DEF WasRead
  <2>2. UNCHANGED pageVars BY <1>6, <2>1, HandlerIsBehind DEF HandlerStep, Behind
  <2>. QED BY <1>1, <2>2
<1>7. CASE Fault
  <2>1. CASE Unseat \/ \E c \in Conns : Cut(c) \/ DropSlow(c)
    BY <1>1, <2>1 DEF Unseat, Cut, DropSlow
  <2>. QED BY <1>3, <1>7, <2>1 DEF Fault
<1>8. CASE UNCHANGED vars BY <1>1, <1>8 DEF vars
<1>. QED BY <1>5, <1>6, <1>7, <1>8 DEF Next

\* What the participant has of its session, wherever that is.
Made  == (IF Continued THEN next ELSE stored.next) - 1
Queue == IF Continued THEN pending ELSE stored.pending

Session == <<Made, Queue, Over>>

LEMMA SessionTyped ==
    ASSUME ReplayInv
    PROVE  Made \in Nat /\ Queue \subseteq 1 .. Made
<1>1. CASE Continued BY <1>1 DEF Made, Queue, ReplayInv, Typed, PageTyped, Numbered
<1>2. CASE ~Continued
  <2>1. Made = stored.next - 1 /\ Queue = stored.pending BY <1>2 DEF Made, Queue
  <2>. QED BY <2>1 DEF ReplayInv, Typed, PageTyped, Numbered
<1>. QED BY <1>1, <1>2

\* Nothing changes hands.
LEMMA Stutters ==
    ASSUME UNCHANGED Session, UNCHANGED <<long, huge, handled, applied>> \/ Over
    PROVE  UNCHANGED Delivery!deliveryVars
  BY DEF Session, Made, Queue, Continued, Over, Delivery!deliveryVars

LEMMA PageStepDelivers ==
    ASSUME ReplayInv, SessionIsWhole, SessionIsWhole', PageStep \/ Reload
    PROVE  [Delivery!DeliveryNext]_Delivery!deliveryVars
<1>. USE DEF Session, Made, Queue, Continued, Over
<1>1. CASE Enter
  <2>1. After(stored.pending) \in 1 .. stored.next
    BY AfterFits DEF ReplayInv, Typed, PageTyped, Numbered
  <2>2. next' = stored.next /\ pending' = stored.pending
    BY <1>1, <2>1 DEF Enter, ReplayInv, Typed, PageTyped, Numbered
  <2>3. UNCHANGED Session BY <1>1, <2>2 DEF Enter
  <2>. QED BY <1>1, <2>3, Stutters DEF Enter
<1>2. CASE ReceiveState
  <2>1. UNCHANGED Session BY <1>2 DEF ReceiveState, ReplayInv, Typed, PageTyped
  <2>. QED BY <1>2, <2>1, Stutters DEF ReceiveState
<1>3. CASE ReceiveAck
  <2>1. PICK s \in out[socket] : pending' = pending \ {s}
    BY <1>3 DEF ReceiveAck
  <2>2. /\ page = "in" /\ socket \in Conns
        /\ UNCHANGED <<page, next, long, huge, handled, applied>>
    BY <1>3 DEF ReceiveAck, ReplayInv, Typed, PageTyped
  <2>3. s \in handled BY <2>2 DEF ReplayInv, Kept, AnswersAreHandled
  <2>4. CASE s \in pending
    <3>1. s \in 1 .. Made BY <2>2, <2>4, SessionTyped
    <3>2. Delivery!Acknowledge(s) BY <2>1, <2>2, <2>3, <2>4 DEF Delivery!Acknowledge
    <3>. QED BY <3>1, <3>2 DEF Delivery!DeliveryNext
  <2>5. CASE s \notin pending
    <3>1. pending' = pending BY <2>1, <2>5
    <3>. QED BY <2>2, <3>1, Stutters
  <2>. QED BY <2>4, <2>5
<1>4. CASE ReceiveLast \/ Lose \/ Leave \/ Reload
  <2>1. GivesUp BY <1>4, WhoGivesUp DEF ReplayInv, Typed
  <2>2. CASE page' = "over"
    <3>1. stored'.next = 1 /\ stored'.pending = {} BY <2>2 DEF SessionIsWhole
    <3>2. Made' = 0 /\ Queue' = {} BY <2>2, <3>1
    <3>. QED BY <2>2, <3>1, <3>2 DEF Delivery!GiveUp, Delivery!DeliveryNext
  <2>3. CASE page' # "over"
    <3>1. UNCHANGED Session
      <4>1. CASE UNCHANGED <<page, next, pending, stored>> BY <4>1
      <4>2. CASE page \in {"in", "blocked"} /\ page' = "blocked" /\ UNCHANGED <<next, pending>>
        BY <4>2
      <4>3. CASE page' = "out" /\ stored.token # 0 /\ UNCHANGED stored
        <5>1. page \in {"in", "blocked", "out"} BY <4>3 DEF SessionIsWhole, ReplayInv, Typed, PageTyped
        <5>2. page # "out" => stored.next = next /\ stored.pending = pending
          BY <4>3, <5>1 DEF ReplayInv, Fresh, Numbering
        <5>. QED BY <4>3, <5>1, <5>2
      <4>. QED BY <2>1, <2>3, <4>1, <4>2, <4>3 DEF GivesUp
    <3>. QED BY <2>1, <3>1, Stutters DEF GivesUp
  <2>. QED BY <2>2, <2>3
<1>5. ASSUME NEW c \in Conns, Dial(c)
      PROVE  [Delivery!DeliveryNext]_Delivery!deliveryVars
  BY <1>5, Stutters DEF Dial
<1>6. ASSUME NEW size \in Sizes, Send(size)
      PROVE  [Delivery!DeliveryNext]_Delivery!deliveryVars
  <2>1. /\ page = "in" /\ page' = "in" /\ next' = next + 1 /\ pending' = pending \cup {next}
        /\ (long \cup huge)' \in {long \cup huge, long \cup huge \cup {next}}
        /\ UNCHANGED <<handled, applied>>
    BY <1>6 DEF Send
  <2>2. next \in Nat BY DEF ReplayInv, Typed, PageTyped, Numbered
  <2>3. Delivery!Make BY <2>1, <2>2 DEF Delivery!Make
  <2>. QED BY <2>3 DEF Delivery!DeliveryNext
<1>. QED BY <1>1, <1>2, <1>3, <1>4, <1>5, <1>6 DEF PageStep

LEMMA SeatStepDelivers ==
    ASSUME UNCHANGED <<pageVars, handled>>, UNCHANGED applied \/ applied' = <<>>
    PROVE  [Delivery!DeliveryNext]_Delivery!deliveryVars
<1>1. UNCHANGED <<Session, long, huge>> BY DEF Session, Made, Queue, Continued, Over
<1>2. CASE UNCHANGED applied \/ Over BY <1>1, <1>2, Stutters
<1>3. CASE applied' = <<>> /\ ~Over
  BY <1>1, <1>3 DEF Session, Made, Queue, Continued, Over, Delivery!NewSeat, Delivery!DeliveryNext
<1>. QED BY <1>2, <1>3

\* An event that is read is one of those that were made; and the least in flight
\* comes after events that are decided on, or hopeless.
LEMMA ReadDelivers ==
    ASSUME ReplayInv, SessionIsWhole, NEW c \in Conns, Read(c)
    PROVE  [Delivery!DeliveryNext]_Delivery!deliveryVars
<1>1. PICK s \in up[c] :
         /\ Reading(c, s)
         /\ \/ ReadLong(c, s) \/ ReadHuge(c, s) \/ ReadRefused(c, s)
            \/ ReadStale(c, s) \/ ReadDuplicate(c, s) \/ ReadApplied(c, s)
  BY DEF Read, ReadLong, ReadHuge, ReadRefused, ReadStale, ReadDuplicate, ReadApplied
<1>2. /\ up[c] \in SUBSET (Nat \ {0}) /\ s \in Nat \ {0}
      /\ \A t \in up[c] : s <= t
  BY <1>1, LeastIsLeast DEF ReplayInv, Typed, ConnsTyped, Reading
<1>3. UNCHANGED <<Session, long, huge>>
  BY <1>1 DEF Session, Made, Queue, Continued, Over, ReadLong, ReadHuge, ReadRefused, ReadStale,
              ReadDuplicate, ReadApplied
<1>4. ~Over => s \in 1 .. Made
  <2>1. Continued => s < next BY DEF Continued, ReplayInv, Fresh, Numbering, Above
  <2>2. ~Continued /\ ~Over => s < stored.next
    BY DEF Continued, Over, ReplayInv, Fresh, Above, Typed, PageTyped
  <2>3. next \in Nat /\ stored.next \in Nat BY DEF ReplayInv, Typed, PageTyped, Numbered
  <2>. QED BY <1>2, <2>1, <2>2, <2>3 DEF Made
<1>5. CASE Over \/ UNCHANGED <<handled, applied>> BY <1>3, <1>5, Stutters
<1>6. CASE ~Over /\ ReadRefused(c, s)
  <2>1. Delivery!TurnAway(s)
    BY <1>3, <1>6 DEF ReadRefused, Delivery!TurnAway, Session, Made, Queue, Continued, Over
  <2>. QED BY <1>4, <1>6, <2>1 DEF Delivery!DeliveryNext, Made
<1>7. CASE ~Over /\ ReadApplied(c, s)
  <2>1. \A i \in DOMAIN applied : applied[i] < s
    <3>1. \A i \in DOMAIN applied : applied[i] \in Nat /\ applied[i] <= cursor
      BY DEF ReplayInv, Typed, SeatTyped
    <3>. QED BY <1>2, <1>7, <3>1 DEF ReadApplied, ReplayInv, Typed, SeatTyped
  <2>2. 1 .. s - 1 \subseteq handled \cup (long \cup huge)
    <3>1. 1 .. s \subseteq up[c] \cup Settled
      BY <1>7 DEF ReadApplied, ReplayInv, Kept, NoGaps, Serving
    <3>2. \A k \in 1 .. s - 1 : k \notin up[c] /\ k \in 1 .. s BY <1>2
    <3>. QED BY <3>1, <3>2 DEF Settled
  <2>3. Delivery!Give(s)
    BY <1>3, <1>7, <2>1, <2>2
       DEF ReadApplied, Delivery!Give, Session, Made, Queue, Continued, Over
  <2>. QED BY <1>4, <1>7, <2>3 DEF Delivery!DeliveryNext, Made
<1>. QED BY <1>1, <1>5, <1>6, <1>7 DEF ReadLong, ReadHuge, ReadStale, ReadDuplicate

LEMMA StepDelivers ==
    ASSUME ReplayInv, SessionIsWhole, [Next]_vars
    PROVE  [Delivery!DeliveryNext]_Delivery!deliveryVars
<1>1. SessionIsWhole' BY SessionStaysWhole DEF ReplayInv
<1>2. CASE PageStep \/ Reload BY <1>1, <1>2, PageStepDelivers
<1>3. ASSUME NEW c \in Conns, Read(c) PROVE [Delivery!DeliveryNext]_Delivery!deliveryVars
  BY <1>3, ReadDelivers
<1>4. ASSUME NEW c \in Conns,
             ServeJoin(c) \/ ServeSubscribe(c) \/ ReadFails(c) \/ HangUp(c) \/ End(c)
      PROVE  [Delivery!DeliveryNext]_Delivery!deliveryVars
  <2>1. UNCHANGED <<pageVars, handled>>
    BY <1>4, HandlerIsBehind DEF ReplayInv, Behind, Unread
  <2>2. CASE ServeJoin(c)
    <3>1. \/ UNCHANGED <<seat, seats, cursor, applied>>
          \/ seats' = seats + 1 /\ seat' = seats' /\ cursor' = 0 /\ applied' = <<>>
      BY <2>2 DEF ServeJoin
    <3>. QED BY <2>1, <3>1, SeatStepDelivers
  <2>3. CASE ServeSubscribe(c) \/ ReadFails(c) \/ HangUp(c) \/ End(c)
    <3>1. UNCHANGED applied BY <2>3 DEF ServeSubscribe, ReadFails, HangUp, End
    <3>. QED BY <2>1, <3>1, SeatStepDelivers
  <2>. QED BY <1>4, <2>2, <2>3
<1>5. CASE Unseat \/ \E c \in Conns : Cut(c) \/ DropSlow(c)
  <2>1. UNCHANGED <<pageVars, handled>> /\ (UNCHANGED applied \/ applied' = <<>>)
    BY <1>5 DEF Unseat, Cut, DropSlow
  <2>. QED BY <2>1, SeatStepDelivers
<1>6. CASE UNCHANGED vars BY <1>6, SeatStepDelivers DEF vars
<1>. QED BY <1>2, <1>3, <1>4, <1>5, <1>6 DEF Next, HandlerStep, Fault

\* Browser and server together keep what they promise about events: over any
\* connections, replays, reloads and new seats, each is kept until it is decided
\* on, and a seat is given them once, in order, and none before the earlier ones
\* are decided on (app.js, readPump, State.Apply).
THEOREM ReplayDelivers == Spec => ImplementsDelivery
<1>1. Init => ReplayInv /\ AppliedInOrder /\ SessionIsWhole
  <2>1. Init => SessionIsWhole BY DEF Init, SessionIsWhole, Over
  <2>. QED BY <2>1, InitReplayInv
<1>2. ReplayInv /\ AppliedInOrder /\ SessionIsWhole /\ [Next]_vars
         => (ReplayInv /\ AppliedInOrder /\ SessionIsWhole)'
  BY NextReplayInv, SessionStaysWhole DEF ReplayInv
<1>3. Init => Delivery!NothingMade
  BY DEF Init, Delivery!NothingMade, Continued, Over
<1>4. ReplayInv /\ SessionIsWhole /\ [Next]_vars => [Delivery!DeliveryNext]_Delivery!deliveryVars
  BY StepDelivers
<1>. QED BY <1>1, <1>2, <1>3, <1>4, PTL DEF Spec, ImplementsDelivery, Delivery!DeliverySpec

=============================================================================
