----------------------------- MODULE HubProofs -----------------------------
(***************************************************************************)
(* Theorems about Hub, for any number of requests, rooms and addresses and *)
(* any limits.  No set is assumed finite: only finitely many rooms are     *)
(* listed, and requests admitted, at a time.                               *)
(***************************************************************************)
EXTENDS Hub, TLAPS, FiniteSetTheorems

USE DEF hubVars, admitVars, reqVars

---------------------------------------------------------------------------
(* The life of actors: who is listed, who is held.                         *)

Places == {"idle", "limit", "admission", "admitted", "joining", "subscribed", "leaving"}

HubTyped ==
    /\ rooms \in [RoomIds -> Actors \cup {None}]
    /\ life \in [Actors -> {"unborn", "open", "closed"}]
    /\ roomOf \in [Actors -> RoomIds \cup {None}]
    /\ pc \in [Requests -> Places]
    /\ wants \in [Requests -> RoomIds \cup {None}]
    /\ creating \in [Requests -> BOOLEAN]
    /\ holds \in [Requests -> Actors \cup {None}]
    /\ connections \in [Addresses -> Nat]
    /\ connBucket \in [Addresses -> 0 .. ConnectionBurst]
    /\ createBucket \in [Addresses -> 0 .. CreateBurst]

\* A born actor knows its room; who is listed for a room was made for it; who is
\* open is listed.
ActorsPlaced ==
    /\ \A a \in Actors : life[a] = "unborn" <=> roomOf[a] = None
    /\ \A r \in RoomIds : rooms[r] # None => roomOf[rooms[r]] = r
    /\ OpenIsListed

\* A request under way wants a room, and holds an actor of that room, if it still
\* has one, exactly from creation to the end of its subscription.
RequestsPlaced ==
    \A q \in Requests :
        /\ pc[q] # "idle" => wants[q] \in RoomIds
        /\ IF pc[q] \in {"joining", "subscribed"}
           THEN holds[q] \in Actors /\ roomOf[holds[q]] \in {wants[q], None}
           ELSE holds[q] = None

Placed == HubTyped /\ ActorsPlaced /\ RequestsPlaced

LEMMA InitPlaced ==
    ASSUME HubInit
    PROVE  Placed
  BY HubAssumption
     DEF HubInit, Placed, HubTyped, ActorsPlaced, OpenIsListed, RequestsPlaced, Places

LEMMA CreatePlaced ==
    ASSUME Placed, NEW q \in Requests, pc[q] = "admitted",
           ~RoomExists(wants[q]), Create(q, wants[q]),
           UNCHANGED <<admitVars, wants, creating>>
    PROVE  Placed'
<1>. USE DEF Placed, HubTyped, ActorsPlaced, OpenIsListed, RequestsPlaced, Places
<1>1. PICK a \in Actors :
         /\ life[a] = "unborn" /\ \A p \in Requests : holds[p] # a
         /\ rooms' = [rooms EXCEPT ![wants[q]] = a]
         /\ life' = [life EXCEPT ![a] = "open"]
         /\ roomOf' = [roomOf EXCEPT ![a] = wants[q]]
         /\ holds' = [holds EXCEPT ![q] = a]
         /\ pc' = [pc EXCEPT ![q] = "joining"]
  BY DEF Create, Goto
<1>2. wants[q] \in RoomIds /\ wants[q] # None /\ a # None BY HubAssumption
<1>3. HubTyped' BY <1>1, <1>2
<1>4. ActorsPlaced'
  <2>1. \A b \in Actors \ {a} : life'[b] = life[b] /\ roomOf'[b] = roomOf[b] BY <1>1
  <2>2. life'[a] = "open" /\ roomOf'[a] = wants[q] BY <1>1, <1>2
  <2>3. \A r \in RoomIds : rooms'[r] = IF r = wants[q] THEN a ELSE rooms[r] BY <1>1
  <2>4. \A b \in Actors : life'[b] = "unborn" <=> roomOf'[b] = None
    BY <1>2, <2>1, <2>2
  <2>5. \A r \in RoomIds : rooms[r] # a BY <1>1, HubAssumption
  <2>6. \A r \in RoomIds : rooms'[r] # None => roomOf'[rooms'[r]] = r
    BY <1>2, <2>1, <2>2, <2>3, <2>5
  <2>7. \A b \in Actors : life[b] = "open" => roomOf[b] \in RoomIds \ {wants[q]}
    BY <1>2, HubAssumption DEF RoomExists
  <2>8. \A b \in Actors : life'[b] = "open" => rooms'[roomOf'[b]] = b
    BY <1>2, <2>1, <2>2, <2>3, <2>7
  <2>. QED BY <2>4, <2>6, <2>8
<1>5. RequestsPlaced' BY <1>1, <1>2
<1>. QED BY <1>3, <1>4, <1>5

\* A request that returns to its client takes nothing of the hub with it.
LEMMA ReturnPlaced ==
    ASSUME Placed, NEW q \in Requests, Return(q), UNCHANGED <<hubVars, admitVars>>
    PROVE  Placed'
<1>. USE DEF Placed, HubTyped, RequestsPlaced, Return, Goto, Places
<1>1. HubTyped'
  <2>1. /\ pc' \in [Requests -> Places] /\ wants' \in [Requests -> RoomIds \cup {None}]
        /\ creating' \in [Requests -> BOOLEAN] /\ holds' \in [Requests -> Actors \cup {None}]
    OBVIOUS
  <2>. QED BY <2>1
<1>2. ActorsPlaced' BY DEF ActorsPlaced, OpenIsListed
<1>3. RequestsPlaced'
  <2>. SUFFICES ASSUME NEW p \in Requests
                PROVE  /\ pc'[p] # "idle" => wants'[p] \in RoomIds
                       /\ IF pc'[p] \in {"joining", "subscribed"}
                          THEN holds'[p] \in Actors /\ roomOf'[holds'[p]] \in {wants'[p], None}
                          ELSE holds'[p] = None
    OBVIOUS
  <2>1. CASE p = q BY <2>1
  <2>2. CASE p # q BY <2>2
  <2>. QED BY <2>1, <2>2
<1>. QED BY <1>1, <1>2, <1>3

LEMMA RequestStepPlaced ==
    ASSUME Placed, NEW q \in Requests,
           \/ \E r \in RoomIds : LookUp(q, r)
           \/ CheckLimit(q) \/ Acquire(q) \/ Fail(q)
           \/ Subscribe(q) \/ Unsubscribe(q) \/ Release(q)
    PROVE  Placed'
<1>. USE HubAssumption
     DEF Placed, HubTyped, ActorsPlaced, OpenIsListed, RequestsPlaced, Places, Goto, Return
<1>1. CASE \E r \in RoomIds : LookUp(q, r) BY <1>1 DEF LookUp
<1>2. CASE CheckLimit(q)
  <2>1. CASE CanCreateRoom BY <1>2, <2>1 DEF CheckLimit
  <2>2. CASE ~CanCreateRoom
    <3>1. Return(q) /\ UNCHANGED <<hubVars, admitVars>>
      <4>. HIDE DEF Return
      <4>. QED BY <1>2, <2>2 DEF CheckLimit
    <3>. QED BY <3>1, ReturnPlaced
  <2>. QED BY <2>1, <2>2
<1>3. CASE Acquire(q)
  <2>1. /\ connBucket' \in [Addresses -> 0 .. ConnectionBurst]
        /\ createBucket' \in [Addresses -> 0 .. CreateBurst]
        /\ connections' \in [Addresses -> Nat]
        /\ UNCHANGED hubVars
    BY <1>3 DEF Acquire
  <2>2. CASE /\ pc[q] = "admission" /\ pc' = [pc EXCEPT ![q] = "admitted"]
             /\ UNCHANGED <<wants, creating, holds>>
    BY <2>1, <2>2
  <2>3. CASE Return(q) BY <2>1, <2>3
  <2>. QED BY <1>3, <2>2, <2>3 DEF Acquire
<1>4. CASE Fail(q) BY <1>4 DEF Fail
<1>5. CASE Subscribe(q) BY <1>5 DEF Subscribe
<1>6. CASE Unsubscribe(q) BY <1>6 DEF Unsubscribe
<1>7. CASE Release(q) BY <1>7 DEF Release
<1>. QED BY <1>1, <1>2, <1>3, <1>4, <1>5, <1>6, <1>7

LEMMA GetOrCreatePlaced ==
    ASSUME Placed, NEW q \in Requests, GetOrCreate(q)
    PROVE  Placed'
<1>. USE HubAssumption DEF GetOrCreate, Goto
<1>1. CASE ~RoomExists(wants[q]) /\ Create(q, wants[q]) BY <1>1, CreatePlaced
<1>2. CASE /\ RoomExists(wants[q]) /\ holds' = [holds EXCEPT ![q] = rooms[wants[q]]]
           /\ pc' = [pc EXCEPT ![q] = "joining"] /\ UNCHANGED hubVars
  BY <1>2
     DEF RoomExists, Placed, HubTyped, ActorsPlaced, OpenIsListed, RequestsPlaced, Places
<1>3. CASE /\ ~RoomExists(wants[q]) /\ rooms' = [rooms EXCEPT ![wants[q]] = None]
           /\ pc' = [pc EXCEPT ![q] = "leaving"] /\ UNCHANGED <<life, roomOf, holds>>
  BY <1>3
     DEF RoomExists, Placed, HubTyped, ActorsPlaced, OpenIsListed, RequestsPlaced, Places
<1>. QED BY <1>1, <1>2, <1>3

LEMMA NextPlaced ==
    ASSUME Placed, [HubNext]_allVars
    PROVE  Placed'
<1>. USE HubAssumption
     DEF Placed, HubTyped, ActorsPlaced, OpenIsListed, RequestsPlaced, Places
<1>1. ASSUME NEW i \in Addresses, Refill(i) PROVE Placed' BY <1>1 DEF Refill
<1>2. ASSUME NEW i \in Addresses, Forget(i) PROVE Placed' BY <1>2 DEF Forget
<1>3. ASSUME NEW a \in Actors, IdleClose(a) PROVE Placed' BY <1>3 DEF IdleClose
<1>4. ASSUME NEW a \in Actors, Remove(a) PROVE Placed' BY <1>4 DEF Remove
<1>5. CASE UNCHANGED allVars BY <1>5 DEF allVars
<1>. QED
  BY RequestStepPlaced, GetOrCreatePlaced, <1>1, <1>2, <1>3, <1>4, <1>5 DEF HubNext

\* Whatever requests look up, create and lose, an open actor is the one listed for
\* its room, and who is served has an actor of the room it asked for; an older
\* actor's end never unlists a newer one (GetOrCreate, remove).
THEOREM OpenActorsListed == HubSpec => [](HubTypeOK /\ OpenIsListed)
<1>1. HubInit => Placed BY InitPlaced
<1>2. Placed /\ [HubNext]_allVars => Placed' BY NextPlaced
<1>3. Placed => HubTypeOK /\ OpenIsListed
  BY DEF Placed, HubTyped, ActorsPlaced, RequestsPlaced, HubTypeOK
<1>. QED BY <1>1, <1>2, <1>3, PTL DEF HubSpec

---------------------------------------------------------------------------
(* The limit on rooms                                                      *)

Limited == IsFiniteSet(Listed) /\ RoomsWithinLimit

LEMMA ShrinkingLimited ==
    ASSUME Limited, Listed' \subseteq Listed
    PROVE  Limited'
<1>1. IsFiniteSet(Listed') /\ Cardinality(Listed') <= Cardinality(Listed)
  BY FS_Subset DEF Limited
<1>2. Cardinality(Listed) \in Nat /\ Cardinality(Listed') \in Nat /\ MaxRooms \in Nat
  BY <1>1, FS_CardinalityType, HubAssumption DEF Limited
<1>. QED BY <1>1, <1>2 DEF Limited, RoomsWithinLimit

LEMMA GetOrCreateLimited ==
    ASSUME Placed, Limited, NEW q \in Requests, GetOrCreate(q)
    PROVE  Limited'
<1>. DEFINE r == wants[q]
            others == Listed \ {r}
<1>1. CASE UNCHANGED rooms BY <1>1, ShrinkingLimited DEF Listed
<1>2. CASE rooms' = [rooms EXCEPT ![r] = None]
  BY <1>2, ShrinkingLimited DEF Listed, Placed, HubTyped
<1>3. CASE Cardinality(others) < MaxRooms /\ Create(q, r)
  <2>1. Listed' \subseteq others \cup {r}
    BY <1>3 DEF Listed, Create, Placed, HubTyped
  <2>2. /\ IsFiniteSet(others) /\ Cardinality(others) \in Nat
        /\ IsFiniteSet(others \cup {r})
        /\ Cardinality(others \cup {r}) = Cardinality(others) + 1
    BY FS_RemoveElement, FS_AddElement, FS_CardinalityType DEF Limited
  <2>3. /\ IsFiniteSet(Listed') /\ Cardinality(Listed') \in Nat
        /\ Cardinality(Listed') <= Cardinality(others \cup {r})
    BY <2>1, <2>2, FS_Subset, FS_CardinalityType
  <2>. QED BY <1>3, <2>2, <2>3, HubAssumption DEF Limited, RoomsWithinLimit
<1>. QED BY <1>1, <1>2, <1>3 DEF GetOrCreate

LEMMA NextLimited ==
    ASSUME Placed, Limited, [HubNext]_allVars
    PROVE  Limited'
<1>1. ASSUME NEW q \in Requests,
             \/ \E r \in RoomIds : LookUp(q, r)
             \/ CheckLimit(q) \/ Acquire(q) \/ Fail(q)
             \/ Subscribe(q) \/ Unsubscribe(q) \/ Release(q)
      PROVE  UNCHANGED rooms
  BY <1>1 DEF LookUp, CheckLimit, Acquire, Fail, Subscribe, Unsubscribe, Release
<1>2. ASSUME NEW i \in Addresses, Refill(i) \/ Forget(i) PROVE UNCHANGED rooms
  BY <1>2 DEF Refill, Forget
<1>3. ASSUME NEW a \in Actors, IdleClose(a) PROVE UNCHANGED rooms BY <1>3 DEF IdleClose
<1>4. ASSUME NEW a \in Actors, Remove(a) PROVE Listed' \subseteq Listed
  BY <1>4 DEF Remove, Listed, Placed, HubTyped
<1>5. UNCHANGED rooms => Listed' \subseteq Listed BY DEF Listed
<1>6. CASE UNCHANGED allVars BY <1>5, <1>6, ShrinkingLimited DEF allVars
<1>. QED
  BY GetOrCreateLimited, ShrinkingLimited, <1>1, <1>2, <1>3, <1>4, <1>5, <1>6 DEF HubNext

\* However many requests passed the check before the upgrade and then raced, the
\* hub lists no more rooms than it may (GetOrCreate checks again).
THEOREM RoomsStayWithinLimit == HubSpec => []RoomsWithinLimit
<1>1. HubInit => Limited
  <2>1. HubInit => Listed = {} BY DEF HubInit, Listed
  <2>. QED BY <2>1, FS_EmptySet, HubAssumption DEF Limited, RoomsWithinLimit
<1>2. HubInit => Placed BY InitPlaced
<1>3. Placed /\ Limited /\ [HubNext]_allVars => (Placed /\ Limited)'
  BY NextPlaced, NextLimited
<1>4. Limited => RoomsWithinLimit BY DEF Limited
<1>. QED BY <1>1, <1>2, <1>3, <1>4, PTL DEF HubSpec

---------------------------------------------------------------------------
(* The count of an address's connections                                   *)

Charged(i) == {q \in Admitted : addr[q] = i}

Counted ==
    \A i \in Addresses :
        /\ IsFiniteSet(Charged(i))
        /\ connections[i] = Cardinality(Charged(i))
        /\ connections[i] <= MaxPerIP

LEMMA UnchargedCounted ==
    ASSUME Counted, UNCHANGED <<connections, Admitted>>
    PROVE  Counted'
<1>1. \A i : Charged(i)' = Charged(i) BY DEF Charged
<1>. QED BY <1>1 DEF Counted

LEMMA AcquireCounted ==
    ASSUME Placed, Counted, NEW q \in Requests, Acquire(q)
    PROVE  Counted'
<1>. USE DEF Goto, Placed, HubTyped, Places
<1>1. CASE Return(q) /\ UNCHANGED connections
  <2>1. pc[q] = "admission" /\ pc' = [pc EXCEPT ![q] = "idle"] BY <1>1 DEF Acquire, Return
  <2>2. Admitted' = Admitted BY <2>1 DEF Admitted
  <2>. QED BY <1>1, <2>2, UnchargedCounted
<1>2. CASE /\ connections[addr[q]] < MaxPerIP
           /\ pc' = [pc EXCEPT ![q] = "admitted"]
           /\ connections' = [connections EXCEPT ![addr[q]] = @ + 1]
  <2>1. pc[q] = "admission" BY DEF Acquire
  <2>2. Admitted' = Admitted \cup {q} /\ q \notin Admitted BY <1>2, <2>1 DEF Admitted
  <2>3. ASSUME NEW i \in Addresses, i # addr[q]
        PROVE  Charged(i)' = Charged(i) /\ connections'[i] = connections[i]
    BY <1>2, <2>2, <2>3 DEF Charged
  <2>4. PICK i \in Addresses : i = addr[q] BY HubAssumption
  <2>5. /\ Charged(i)' = Charged(i) \cup {q} /\ q \notin Charged(i)
        /\ connections'[i] = connections[i] + 1
    BY <1>2, <2>2, <2>4 DEF Charged
  <2>6. /\ IsFiniteSet(Charged(i)) /\ connections[i] = Cardinality(Charged(i))
        /\ connections[i] \in Nat /\ connections[i] < MaxPerIP
    BY <1>2, <2>4 DEF Counted
  <2>7. /\ IsFiniteSet(Charged(i) \cup {q})
        /\ Cardinality(Charged(i) \cup {q}) = Cardinality(Charged(i)) + 1
    BY <2>5, <2>6, FS_AddElement
  <2>8. /\ IsFiniteSet(Charged(i)') /\ connections'[i] = Cardinality(Charged(i)')
        /\ connections'[i] <= MaxPerIP
    BY <2>5, <2>6, <2>7, HubAssumption
  <2>. QED BY <2>3, <2>4, <2>8 DEF Counted
<1>. QED BY <1>1, <1>2 DEF Acquire

LEMMA ReleaseCounted ==
    ASSUME Placed, Counted, NEW q \in Requests, Release(q)
    PROVE  Counted'
<1>. USE DEF Placed, HubTyped, Places
<1>1. /\ pc[q] = "leaving" /\ pc' = [pc EXCEPT ![q] = "idle"]
      /\ connections' =
            [connections EXCEPT ![addr[q]] = IF @ > 0 THEN @ - 1 ELSE @]
  BY DEF Release, Return, Goto
<1>2. Admitted' = Admitted \ {q} /\ q \in Admitted BY <1>1 DEF Admitted
<1>3. ASSUME NEW i \in Addresses, i # addr[q]
      PROVE  Charged(i)' = Charged(i) /\ connections'[i] = connections[i]
  BY <1>1, <1>2, <1>3 DEF Charged
<1>4. ASSUME NEW i \in Addresses, i = addr[q]
      PROVE  /\ IsFiniteSet(Charged(i)') /\ connections'[i] = Cardinality(Charged(i)')
             /\ connections'[i] <= MaxPerIP
  <2>1. Charged(i)' = Charged(i) \ {q} /\ q \in Charged(i) BY <1>2, <1>4 DEF Charged
  <2>2. /\ IsFiniteSet(Charged(i)) /\ connections[i] = Cardinality(Charged(i))
        /\ connections[i] <= MaxPerIP /\ connections[i] \in Nat
    BY DEF Counted
  <2>3. connections[i] # 0 BY <2>1, <2>2, FS_EmptySet
  <2>4. connections'[i] = connections[i] - 1 BY <1>1, <1>4, <2>2, <2>3
  <2>. QED BY <2>1, <2>2, <2>4, FS_RemoveElement, HubAssumption
<1>. QED BY <1>3, <1>4 DEF Counted

LEMMA NextCounted ==
    ASSUME Placed, Counted, [HubNext]_allVars
    PROVE  Counted'
<1>. USE DEF Placed, HubTyped, Places, Admitted
<1>1. ASSUME NEW q \in Requests,
             \/ \E r \in RoomIds : LookUp(q, r)
             \/ CheckLimit(q) \/ GetOrCreate(q) \/ Fail(q) \/ Subscribe(q) \/ Unsubscribe(q)
      PROVE  UNCHANGED <<connections, Admitted>>
  <2>. USE DEF Goto, Return
  <2>1. CASE \E r \in RoomIds : LookUp(q, r) BY <2>1 DEF LookUp
  <2>2. CASE CheckLimit(q) BY <2>2 DEF CheckLimit
  <2>3. CASE GetOrCreate(q) BY <2>3 DEF GetOrCreate, Create
  <2>4. CASE Fail(q) BY <2>4 DEF Fail
  <2>5. CASE Subscribe(q) BY <2>5 DEF Subscribe
  <2>6. CASE Unsubscribe(q) BY <2>6 DEF Unsubscribe
  <2>. QED BY <1>1, <2>1, <2>2, <2>3, <2>4, <2>5, <2>6
<1>2. ASSUME NEW i \in Addresses, Refill(i) \/ Forget(i)
      PROVE  UNCHANGED <<connections, Admitted>>
  BY <1>2 DEF Refill, Forget
<1>3. ASSUME NEW a \in Actors, IdleClose(a) \/ Remove(a)
      PROVE  UNCHANGED <<connections, Admitted>>
  BY <1>3 DEF IdleClose, Remove
<1>4. CASE UNCHANGED allVars BY <1>4, UnchargedCounted DEF allVars
<1>. QED
  BY AcquireCounted, ReleaseCounted, UnchargedCounted, <1>1, <1>2, <1>3, <1>4 DEF HubNext

\* An address is charged for exactly its requests in progress, whichever way they
\* end, so that it is never locked out for good, and never has more than it may
\* (acquire, release, removeExpired).
THEOREM AddressesCharged == HubSpec => [](ConnectionsCounted /\ PerAddressCap)
<1>1. HubInit => Counted
  <2>. SUFFICES ASSUME HubInit, NEW i \in Addresses
                PROVE  /\ IsFiniteSet(Charged(i)) /\ connections[i] = Cardinality(Charged(i))
                       /\ connections[i] <= MaxPerIP
    BY DEF Counted
  <2>1. Charged(i) = {} /\ connections[i] = 0 BY DEF HubInit, Charged, Admitted
  <2>. QED BY <2>1, FS_EmptySet, HubAssumption
<1>2. HubInit => Placed BY InitPlaced
<1>3. Placed /\ Counted /\ [HubNext]_allVars => (Placed /\ Counted)'
  BY NextPlaced, NextCounted
<1>4. Counted => ConnectionsCounted /\ PerAddressCap
  BY DEF Counted, Charged, ConnectionsCounted, PerAddressCap
<1>. QED BY <1>1, <1>2, <1>3, <1>4, PTL DEF HubSpec

=============================================================================
