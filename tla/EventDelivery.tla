--------------------------- MODULE EventDelivery ---------------------------
(***************************************************************************)
(* What browser and server promise a participant about its numbered        *)
(* events, over whatever connections, replays and reloads: each is kept    *)
(* until the server has decided on it, a seat is given each at most once,  *)
(* in the order they were made, and none before all earlier ones are       *)
(* decided.  ClientReplay is shown to implement it.                        *)
(***************************************************************************)
EXTENDS Naturals, Sequences

VARIABLES
    made,       \* how many events there have been
    hopeless,   \* those that can never be delivered
    queue,      \* those the participant keeps to send again
    decided,    \* those the room was given, or that were turned away
    given,      \* those this seat was given, in order
    gone        \* the participant has given up its seat, or lost it

deliveryVars == <<made, hopeless, queue, decided, given, gone>>

NothingMade ==
    /\ made = 0 /\ hopeless = {} /\ queue = {} /\ decided = {}
    /\ given = <<>> /\ gone = FALSE

Make ==
    /\ ~gone
    /\ made' = made + 1
    /\ queue' = queue \cup {made + 1}
    /\ hopeless' \in {hopeless, hopeless \cup {made + 1}}
    /\ UNCHANGED <<decided, given, gone>>

TurnAway(s) ==
    /\ s \notin hopeless
    /\ decided' = decided \cup {s}
    /\ UNCHANGED <<made, hopeless, queue, given, gone>>

Give(s) ==
    /\ s \notin hopeless
    /\ \A i \in DOMAIN given : given[i] < s
    /\ 1 .. s - 1 \subseteq decided \cup hopeless
    /\ given' = Append(given, s)
    /\ decided' = decided \cup {s}
    /\ UNCHANGED <<made, hopeless, queue, gone>>

Acknowledge(s) ==
    /\ s \in queue \cap decided
    /\ queue' = queue \ {s}
    /\ UNCHANGED <<made, hopeless, decided, given, gone>>

\* A seat that was removed, and one that is taken afresh, know of no event.
NewSeat ==
    /\ given' = <<>>
    /\ UNCHANGED <<made, hopeless, queue, decided, gone>>

\* The promise ends with the participant; whoever comes next begins anew.
GiveUp ==
    /\ made' = 0 /\ hopeless' = {} /\ queue' = {} /\ decided' = {}
    /\ given' = <<>> /\ gone' = TRUE

DeliveryNext ==
    \/ Make \/ NewSeat \/ GiveUp
    \/ \E s \in 1 .. made : TurnAway(s) \/ Give(s) \/ Acknowledge(s)

DeliverySpec == NothingMade /\ [][DeliveryNext]_deliveryVars

=============================================================================
