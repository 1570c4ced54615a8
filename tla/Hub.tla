-------------------------------- MODULE Hub --------------------------------
(***************************************************************************)
(* The hub (internal/room/hub.go), the admission limiter in front of it    *)
(* (internal/ws/admission.go), and the way a request takes through both    *)
(* (internal/ws/handler.go: ServeHTTP).  Each has its mutex, so that every *)
(* call is a step, and anything happens between two calls.                 *)
(*                                                                         *)
(* Of an actor only its life is left: it may close when nobody is          *)
(* subscribed, which RoomActor has in full.  Time is left out: a bucket is *)
(* refilled and an idle address forgotten at any moment.                   *)
(***************************************************************************)
EXTENDS Naturals, FiniteSets

CONSTANTS
    RoomIds, Requests, Actors, Addresses,
    addr,              \* the address a request comes from
    None,
    MaxRooms, MaxPerIP,
    ConnectionBurst, CreateBurst

ASSUME HubAssumption ==
    /\ addr \in [Requests -> Addresses]
    /\ MaxRooms \in Nat \ {0} /\ MaxPerIP \in Nat \ {0}
    /\ ConnectionBurst \in Nat \ {0} /\ CreateBurst \in Nat \ {0}
    /\ None \notin Actors /\ None \notin RoomIds

VARIABLES
    rooms,         \* the hub's map, None where a room has no entry
    life,          \* of each actor: unborn (or over), open, closed but not yet off the hub
    roomOf,        \* the room an actor was made for
    pc,            \* where a request is
    wants,         \* the room it is for
    creating,      \* creatingRoom: it found no such room
    holds,         \* the actor it was given
    connections,   \* admissionEntry.connections
    connBucket, createBucket

hubVars   == <<rooms, life, roomOf>>
admitVars == <<connections, connBucket, createBucket>>
reqVars   == <<pc, wants, creating, holds>>
allVars   == <<hubVars, admitVars, reqVars>>

Listed == {r \in RoomIds : rooms[r] # None}
Goto(q, place) == pc' = [pc EXCEPT ![q] = place]

\* ServeHTTP returns; the next request starts afresh.
Return(q) ==
    /\ Goto(q, "idle")
    /\ wants' = [wants EXCEPT ![q] = None]
    /\ creating' = [creating EXCEPT ![q] = FALSE]
    /\ holds' = [holds EXCEPT ![q] = None]

\* A new actor: a name nothing refers to.
Create(q, r) ==
    \E a \in {x \in Actors : life[x] = "unborn" /\ \A p \in Requests : holds[p] # x} :
        /\ rooms' = [rooms EXCEPT ![r] = a]
        /\ life' = [life EXCEPT ![a] = "open"]
        /\ roomOf' = [roomOf EXCEPT ![a] = r]
        /\ holds' = [holds EXCEPT ![q] = a]
        /\ Goto(q, "joining")

HubInit ==
    /\ rooms = [r \in RoomIds |-> None]
    /\ life = [a \in Actors |-> "unborn"]
    /\ roomOf = [a \in Actors |-> None]
    /\ pc = [q \in Requests |-> "idle"]
    /\ wants = [q \in Requests |-> None]
    /\ creating = [q \in Requests |-> FALSE]
    /\ holds = [q \in Requests |-> None]
    /\ connections = [i \in Addresses |-> 0]
    /\ connBucket = [i \in Addresses |-> ConnectionBurst]
    /\ createBucket = [i \in Addresses |-> CreateBurst]

---------------------------------------------------------------------------
(* Before the upgrade                                                      *)

RoomExists(r) == rooms[r] # None /\ life[rooms[r]] = "open"

CanCreateRoom == Cardinality(Listed) < MaxRooms

\* creatingRoom := !h.hub.RoomExists(roomID)
LookUp(q, r) ==
    /\ pc[q] = "idle"
    /\ wants' = [wants EXCEPT ![q] = r]
    /\ creating' = [creating EXCEPT ![q] = ~RoomExists(r)]
    /\ Goto(q, IF RoomExists(r) THEN "admission" ELSE "limit")
    /\ UNCHANGED <<hubVars, admitVars, holds>>

CheckLimit(q) ==
    /\ pc[q] = "limit"
    /\ IF CanCreateRoom
       THEN Goto(q, "admission") /\ UNCHANGED <<wants, creating, holds>>
       ELSE Return(q)
    /\ UNCHANGED <<hubVars, admitVars>>

\* variant: the cap on connections is left out
AcquireUncapped(q) ==
    LET i == addr[q] IN
    /\ pc[q] = "admission"
    /\ IF /\ connBucket[i] > 0
          /\ creating[q] => createBucket[i] > 0
       THEN /\ Goto(q, "admitted") /\ UNCHANGED <<wants, creating, holds>>
            /\ connections' = [connections EXCEPT ![i] = @ + 1]
            /\ connBucket' = [connBucket EXCEPT ![i] = @ - 1]
            /\ createBucket' = [createBucket EXCEPT
                                    ![i] = IF creating[q] THEN @ - 1 ELSE @]
       ELSE Return(q) /\ UNCHANGED admitVars
    /\ UNCHANGED hubVars

\* acquire: the connection's token is taken even if the request is then refused
\* for another reason.
Acquire(q) ==
    LET i     == addr[q]
        token == connBucket[i] > 0
        below == token /\ connections[i] < MaxPerIP
        mayCreate == createBucket[i] > 0
    IN
    /\ pc[q] = "admission"
    /\ connBucket' = [connBucket EXCEPT ![i] = IF token THEN @ - 1 ELSE @]
    /\ createBucket' = [createBucket EXCEPT
                            ![i] = IF below /\ creating[q] /\ mayCreate THEN @ - 1 ELSE @]
    /\ IF below /\ (creating[q] => mayCreate)
       THEN /\ Goto(q, "admitted") /\ UNCHANGED <<wants, creating, holds>>
            /\ connections' = [connections EXCEPT ![i] = @ + 1]
       ELSE Return(q) /\ UNCHANGED connections
    /\ UNCHANGED hubVars

\* variant: a bucket has no capacity
RefillUncapped(i) ==
    /\ connBucket' = [connBucket EXCEPT ![i] = @ + 1]
    /\ UNCHANGED <<hubVars, reqVars, connections, createBucket>>

Refill(i) ==
    /\ \/ /\ connBucket[i] < ConnectionBurst
          /\ connBucket' = [connBucket EXCEPT ![i] = @ + 1]
          /\ UNCHANGED createBucket
       \/ /\ createBucket[i] < CreateBurst
          /\ createBucket' = [createBucket EXCEPT ![i] = @ + 1]
          /\ UNCHANGED connBucket
    /\ UNCHANGED <<hubVars, reqVars, connections>>

\* removeExpired: a new entry begins with full buckets.
Forget(i) ==
    /\ connections[i] = 0
    /\ connBucket' = [connBucket EXCEPT ![i] = ConnectionBurst]
    /\ createBucket' = [createBucket EXCEPT ![i] = CreateBurst]
    /\ UNCHANGED <<hubVars, reqVars, connections>>

---------------------------------------------------------------------------
(* After the upgrade                                                       *)

\* variant: whoever was told it may create a room does
GetOrCreateUnlimited(q) ==
    LET r == wants[q] IN
    /\ pc[q] = "admitted"
    /\ \/ /\ RoomExists(r)
          /\ holds' = [holds EXCEPT ![q] = rooms[r]]
          /\ Goto(q, "joining")
          /\ UNCHANGED hubVars
       \/ ~RoomExists(r) /\ Create(q, r)
    /\ UNCHANGED <<admitVars, wants, creating>>

\* A closed actor's entry is dropped before the limit is looked at again.
GetOrCreate(q) ==
    LET r      == wants[q]
        others == Listed \ {r}
    IN
    /\ pc[q] = "admitted"
    /\ \/ /\ RoomExists(r)
          /\ holds' = [holds EXCEPT ![q] = rooms[r]]
          /\ Goto(q, "joining")
          /\ UNCHANGED hubVars
       \/ ~RoomExists(r) /\ Cardinality(others) < MaxRooms /\ Create(q, r)
       \/ /\ ~RoomExists(r) /\ Cardinality(others) >= MaxRooms
          /\ rooms' = [rooms EXCEPT ![r] = None]
          /\ Goto(q, "leaving")
          /\ UNCHANGED <<life, roomOf, holds>>
    /\ UNCHANGED <<admitVars, wants, creating>>

FailUnreleased(q) ==                        \* variant: release is not deferred
    /\ pc[q] \in {"admitted", "joining"}
    /\ Return(q)
    /\ UNCHANGED <<hubVars, admitVars>>

\* The upgrade failed, the join was refused, or the actor had closed.
Fail(q) ==
    /\ pc[q] \in {"admitted", "joining"}
    /\ Goto(q, "leaving")
    /\ holds' = [holds EXCEPT ![q] = None]
    /\ UNCHANGED <<hubVars, admitVars, wants, creating>>

Subscribe(q) ==
    /\ pc[q] = "joining" /\ life[holds[q]] = "open"
    /\ Goto(q, "subscribed")
    /\ UNCHANGED <<hubVars, admitVars, wants, creating, holds>>

Unsubscribe(q) ==
    /\ pc[q] = "subscribed"
    /\ Goto(q, "leaving")
    /\ holds' = [holds EXCEPT ![q] = None]
    /\ UNCHANGED <<hubVars, admitVars, wants, creating>>

\* release, deferred by ServeHTTP
Release(q) ==
    /\ pc[q] = "leaving"
    /\ Return(q)
    /\ connections' = [connections EXCEPT ![addr[q]] = IF @ > 0 THEN @ - 1 ELSE @]
    /\ UNCHANGED <<hubVars, connBucket, createBucket>>

---------------------------------------------------------------------------
(* The actor's end: it closes, then calls back to take itself off the hub. *)

IdleClose(a) ==
    /\ life[a] = "open"
    /\ \A q \in Requests : pc[q] = "subscribed" => holds[q] # a
    /\ life' = [life EXCEPT ![a] = "closed"]
    /\ UNCHANGED <<rooms, roomOf, reqVars, admitVars>>

\* variant: whatever the hub has for the room goes
RemoveRoom(a) ==
    /\ life[a] = "closed"
    /\ life' = [life EXCEPT ![a] = "unborn"]
    /\ roomOf' = [roomOf EXCEPT ![a] = None]
    /\ rooms' = [rooms EXCEPT ![roomOf[a]] = None]
    /\ UNCHANGED <<reqVars, admitVars>>

\* onIdle: remove, unless a newer actor has the room
Remove(a) ==
    /\ life[a] = "closed"
    /\ life' = [life EXCEPT ![a] = "unborn"]
    /\ roomOf' = [roomOf EXCEPT ![a] = None]
    /\ rooms' = [rooms EXCEPT ![roomOf[a]] = IF @ = a THEN None ELSE @]
    /\ UNCHANGED <<reqVars, admitVars>>

HubNext ==
    \/ \E q \in Requests :
          \/ \E r \in RoomIds : LookUp(q, r)
          \/ CheckLimit(q) \/ Acquire(q) \/ GetOrCreate(q) \/ Fail(q)
          \/ Subscribe(q) \/ Unsubscribe(q) \/ Release(q)
    \/ \E i \in Addresses : Refill(i) \/ Forget(i)
    \/ \E a \in Actors : IdleClose(a) \/ Remove(a)

HubSpec == HubInit /\ [][HubNext]_allVars

---------------------------------------------------------------------------

Admitted == {q \in Requests : pc[q] \in {"admitted", "joining", "subscribed", "leaving"}}

\* Buckets keep within their capacity, and who is being served has an actor of
\* the room it asked for (tokenBucket.allow, GetOrCreate).
HubTypeOK ==
    /\ rooms \in [RoomIds -> Actors \cup {None}]
    /\ connBucket \in [Addresses -> 0 .. ConnectionBurst]
    /\ createBucket \in [Addresses -> 0 .. CreateBurst]
    /\ \A q \in Requests :
          IF pc[q] \in {"joining", "subscribed"}
          THEN holds[q] \in Actors /\ roomOf[holds[q]] \in {wants[q], None}
          ELSE holds[q] = None

\* However many requests passed the check before the upgrade, the hub stays
\* within its limit (GetOrCreate, CanCreateRoom).
RoomsWithinLimit == Cardinality(Listed) <= MaxRooms

\* An open actor is the one the hub lists for its room: two people who ask for
\* one room never end up in two, and an older actor's end leaves the newer one
\* listed (GetOrCreate, remove).
OpenIsListed == \A a \in Actors : life[a] = "open" => rooms[roomOf[a]] = a

\* An address is charged for exactly its requests that are still in progress,
\* whichever way they end (acquire, release, removeExpired).
ConnectionsCounted ==
    \A i \in Addresses : connections[i] = Cardinality({q \in Admitted : addr[q] = i})

\* No address has more connections than it may (acquire).
PerAddressCap == \A i \in Addresses : connections[i] <= MaxPerIP

=============================================================================
