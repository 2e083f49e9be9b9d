----------------------------- MODULE Positions -----------------------------
(***************************************************************************)
(* The order of a trip's days, and of the slots of each day and of the     *)
(* backlog: how Create and Move of service/slot.go and service/day.go turn *)
(* the anchor a member names into a position key, and what deletes leave.  *)
(*                                                                         *)
(* One action is one service call, a transaction under the trip's lock     *)
(* (OpLog). Versions and the other columns are Itinerary's subject. The    *)
(* keys, their order and KeyBetween are those of Fracdex.                  *)
(***************************************************************************)
EXTENDS Fracdex

CONSTANTS
    Slots, Days,         \* identifiers, ordered like uuids are
    Nil,                 \* NULL: no day (the backlog), no anchor
    MaxLength,           \* domain.MaxPositionLength
    MaxWrites,           \* bound: service calls in a run
    MaxBulk              \* bound: keys asked of NKeysBetween at once

ASSUME PositionsAssumption ==
    /\ Slots \subseteq Int /\ IsFiniteSet(Slots)
    /\ Days \subseteq Int /\ IsFiniteSet(Days)
    /\ Nil \notin Days
    /\ Nil \notin Slots
    /\ MaxLength \in Nat /\ MaxWrites \in Nat /\ MaxBulk \in Nat

VARIABLES
    slots,    \* slots[s]: [day, position, live], or Nil while there is no such row
    days,     \* days[d]: [position, live], or Nil
    placed,   \* the last placement: [of, id, anchor], or Nil
    writes    \* how many calls have written

vars == <<slots, days, placed, writes>>

Buckets == Days \cup {Nil}

(* What KeyBetween can make: the reserved bound too, for nothing checks a  *)
(* key but its length.                                                     *)
Keys == {k \in OrderKeys(MaxLength) \cup {SmallestInteger} : Len(k) <= MaxLength}

(* validatePosition, and the constraints on the position columns. Without  *)
(* a key the call has failed before.                                       *)
Storable(key) == key # Error /\ Len(key) <= MaxLength

Init ==
    /\ slots = [s \in Slots |-> Nil]
    /\ days = [d \in Days |-> Nil]
    /\ placed = Nil
    /\ writes = 0

-----------------------------------------------------------------------------
(* The rows of a bucket and their order                                    *)

SlotLive(s) == slots[s] # Nil /\ slots[s].live

DayLive(d) == days[d] # Nil /\ days[d].live

InBucket(day) == {s \in Slots : SlotLive(s) /\ slots[s].day = day}

LiveDays == {d \in Days : DayLive(d)}

(* ORDER BY position, id                                                   *)
RowBefore(p, i, q, j) == Less(p, q) \/ (p = q /\ i < j)

SlotBefore(s, r) == RowBefore(slots[s].position, s, slots[r].position, r)

DayBefore(d, e) == RowBefore(days[d].position, d, days[e].position, e)

(* The answer of a query that is ordered and limited to one row: the       *)
(* position of the first of the given rows, or no bound if there are none. *)
FirstSlotOf(S) ==
    IF S = {} THEN {Empty}
    ELSE {slots[s].position : s \in {t \in S : \A r \in S \ {t} : SlotBefore(t, r)}}

FirstDayOf(S) ==
    IF S = {} THEN {Empty}
    ELSE {days[d].position : d \in {t \in S : \A e \in S \ {t} : DayBefore(t, e)}}

FirstSlotPosition(day) == FirstSlotOf(InBucket(day))

(* Mutant: the slot after the anchor is looked for in the whole trip.      *)
SlotPositionAfterInTrip(day, anchor) ==
    FirstSlotOf({s \in Slots : SlotLive(s) /\ SlotBefore(anchor, s)})

(* The first slot of the bucket that sorts after the anchor, wherever the  *)
(* anchor itself is.                                                       *)
SlotPositionAfter(day, anchor) ==
    FirstSlotOf({s \in InBucket(day) : SlotBefore(anchor, s)})

FirstDayPosition == FirstDayOf(LiveDays)

DayPositionAfter(anchor) == FirstDayOf({d \in LiveDays : DayBefore(anchor, d)})

(***************************************************************************)
(* The two bounds of the place after the anchor, or of the first place.    *)
(***************************************************************************)
(* Mutant: the first slot of the bucket is returned as the lower bound.    *)
SlotNeighbourPositionsSwapped(day, anchor) ==
    IF anchor = Nil
    THEN {[prev |-> n, next |-> Empty] : n \in FirstSlotPosition(day)}
    ELSE {[prev |-> slots[anchor].position, next |-> n] : n \in SlotPositionAfter(day, anchor)}

SlotNeighbourPositions(day, anchor) ==
    IF anchor = Nil
    THEN {[prev |-> Empty, next |-> n] : n \in FirstSlotPosition(day)}
    ELSE {[prev |-> slots[anchor].position, next |-> n] : n \in SlotPositionAfter(day, anchor)}

DayNeighbourPositions(anchor) ==
    IF anchor = Nil
    THEN {[prev |-> Empty, next |-> n] : n \in FirstDayPosition}
    ELSE {[prev |-> days[anchor].position, next |-> n] : n \in DayPositionAfter(anchor)}

-----------------------------------------------------------------------------
(* The calls                                                               *)

Write == writes < MaxWrites /\ writes' = writes + 1

(* A missing or deleted anchor is an error; an anchor of another bucket is *)
(* not. A key that is too long is refused by Slot.Validate.                *)
CreateSlot(s, day, anchor) ==
    /\ Write
    /\ slots[s] = Nil
    /\ day # Nil => days[day] # Nil
    /\ anchor # Nil => SlotLive(anchor)
    /\ \E b \in SlotNeighbourPositions(day, anchor) :
          /\ Storable(KeyBetween(b.prev, b.next))
          /\ slots' = [slots EXCEPT ![s] =
                [day |-> day, position |-> KeyBetween(b.prev, b.next), live |-> TRUE]]
    /\ placed' = [of |-> "slot", id |-> s, anchor |-> anchor]
    /\ UNCHANGED days

(* Mutant: the length of the key is not checked.                           *)
MoveSlotUnchecked(s, day, anchor) ==
    /\ Write
    /\ SlotLive(s)
    /\ day # Nil => days[day] # Nil
    /\ anchor # Nil => SlotLive(anchor)
    /\ \E b \in SlotNeighbourPositions(day, anchor) :
          /\ KeyBetween(b.prev, b.next) # Error
          /\ slots' = [slots EXCEPT ![s].day = day,
                                    ![s].position = KeyBetween(b.prev, b.next)]
    /\ placed' = [of |-> "slot", id |-> s, anchor |-> anchor]
    /\ UNCHANGED days

(* Mutant: the neighbours are read in the bucket the slot leaves.          *)
MoveSlotStaleBucket(s, day, anchor) ==
    /\ Write
    /\ SlotLive(s)
    /\ day # Nil => days[day] # Nil
    /\ anchor # Nil => SlotLive(anchor)
    /\ \E b \in SlotNeighbourPositions(slots[s].day, anchor) :
          /\ Storable(KeyBetween(b.prev, b.next))
          /\ slots' = [slots EXCEPT ![s].day = day,
                                    ![s].position = KeyBetween(b.prev, b.next)]
    /\ placed' = [of |-> "slot", id |-> s, anchor |-> anchor]
    /\ UNCHANGED days

(* The bucket may be another one, and the anchor the slot itself. A key    *)
(* that is too long is refused by the constraint slots_position_len.       *)
MoveSlot(s, day, anchor) ==
    /\ Write
    /\ SlotLive(s)
    /\ day # Nil => days[day] # Nil
    /\ anchor # Nil => SlotLive(anchor)
    /\ \E b \in SlotNeighbourPositions(day, anchor) :
          /\ Storable(KeyBetween(b.prev, b.next))
          /\ slots' = [slots EXCEPT ![s].day = day,
                                    ![s].position = KeyBetween(b.prev, b.next)]
    /\ placed' = [of |-> "slot", id |-> s, anchor |-> anchor]
    /\ UNCHANGED days

DeleteSlot(s) ==
    /\ Write
    /\ SlotLive(s)
    /\ slots' = [slots EXCEPT ![s].live = FALSE]
    /\ placed' = Nil
    /\ UNCHANGED days

CreateDay(d, anchor) ==
    /\ Write
    /\ days[d] = Nil
    /\ anchor # Nil => DayLive(anchor)
    /\ \E b \in DayNeighbourPositions(anchor) :
          /\ Storable(KeyBetween(b.prev, b.next))
          /\ days' = [days EXCEPT ![d] = [position |-> KeyBetween(b.prev, b.next), live |-> TRUE]]
    /\ placed' = [of |-> "day", id |-> d, anchor |-> anchor]
    /\ UNCHANGED slots

MoveDay(d, anchor) ==
    /\ Write
    /\ DayLive(d)
    /\ anchor # Nil => DayLive(anchor)
    /\ \E b \in DayNeighbourPositions(anchor) :
          /\ Storable(KeyBetween(b.prev, b.next))
          /\ days' = [days EXCEPT ![d].position = KeyBetween(b.prev, b.next)]
    /\ placed' = [of |-> "day", id |-> d, anchor |-> anchor]
    /\ UNCHANGED slots

(* The slots of the day stay in its bucket.                                *)
DeleteDay(d) ==
    /\ Write
    /\ DayLive(d)
    /\ days' = [days EXCEPT ![d].live = FALSE]
    /\ placed' = Nil
    /\ UNCHANGED slots

Next ==
    \/ \E s \in Slots, day \in Buckets, anchor \in Slots \cup {Nil} :
          CreateSlot(s, day, anchor) \/ MoveSlot(s, day, anchor)
    \/ \E s \in Slots : DeleteSlot(s)
    \/ \E d \in Days, anchor \in Days \cup {Nil} : CreateDay(d, anchor) \/ MoveDay(d, anchor)
    \/ \E d \in Days : DeleteDay(d)

Spec == Init /\ [][Next]_vars

-----------------------------------------------------------------------------
(***************************************************************************)
(* Type invariant of the rows (domain.Slot, domain.Day).                   *)
(***************************************************************************)
TypeOK ==
    /\ slots \in [Slots -> [day : Buckets, position : Keys, live : BOOLEAN] \cup {Nil}]
    /\ days \in [Days -> [position : Keys, live : BOOLEAN] \cup {Nil}]
    /\ placed \in [of : {"slot"}, id : Slots, anchor : Slots \cup {Nil}]
                    \cup [of : {"day"}, id : Days, anchor : Days \cup {Nil}] \cup {Nil}
    /\ writes \in 0..MaxWrites

(***************************************************************************)
(* Two live slots of one bucket, and two live days, never share a position *)
(* (repository/slot.go, NeighbourPositions), whatever moves between        *)
(* buckets, deletions and anchors of other buckets came before: the order  *)
(* members see never rests on the identifiers.                             *)
(***************************************************************************)
OrderUnambiguous ==
    /\ \A s, r \in Slots : (SlotLive(s) /\ SlotLive(r) /\ s # r /\ slots[s].day = slots[r].day)
                               => slots[s].position # slots[r].position
    /\ \A d, e \in Days : (DayLive(d) /\ DayLive(e) /\ d # e)
                              => days[d].position # days[e].position

(***************************************************************************)
(* A slot or day just placed stands where it was asked to: first, or right *)
(* after its anchor (service/slot.go Create and Move, service/day.go). An  *)
(* anchor in another bucket only bounds it from below.                     *)
(***************************************************************************)
SlotPlaced(s, anchor) ==
    LET others == InBucket(slots[s].day) \ {s}
    IN IF anchor = Nil
       THEN \A r \in others : SlotBefore(s, r)
       ELSE anchor # s =>
              /\ SlotBefore(anchor, s)
              /\ \A r \in others \ {anchor} : ~(SlotBefore(anchor, r) /\ SlotBefore(r, s))

DayPlaced(d, anchor) ==
    IF anchor = Nil
    THEN \A e \in LiveDays \ {d} : DayBefore(d, e)
    ELSE anchor # d =>
           /\ DayBefore(anchor, d)
           /\ \A e \in LiveDays \ {d, anchor} : ~(DayBefore(anchor, e) /\ DayBefore(e, d))

PlacedAfterAnchor ==
    placed # Nil => IF placed.of = "slot" THEN SlotPlaced(placed.id, placed.anchor)
                                          ELSE DayPlaced(placed.id, placed.anchor)

(***************************************************************************)
(* Every gap of a list is open (pkg/fracdex, NeighbourPositions): at its   *)
(* start and after each of its rows there is a key, and a new row is       *)
(* refused only because that key is too long. The exception are the gaps   *)
(* beside the reserved bound, which KeyBetween makes but does not accept.  *)
(***************************************************************************)
Open(b) == SmallestInteger \notin {b.prev, b.next} => KeyBetween(b.prev, b.next) # Error

EveryGapOpen ==
    /\ \A day \in Buckets : \A anchor \in InBucket(day) \cup {Nil} :
          \E b \in SlotNeighbourPositions(day, anchor) : Open(b)
    /\ \A anchor \in LiveDays \cup {Nil} : \E b \in DayNeighbourPositions(anchor) : Open(b)

(***************************************************************************)
(* The bulk keys for a gap (fracdex.NKeysBetween) are as many as asked     *)
(* for, ascending, and strictly inside it; or there are none, because the  *)
(* reserved bound is at the gap or would be the last but one key made.     *)
(***************************************************************************)
Exhausted(a, b, n) ==
    \/ SmallestInteger \in {a, b}
    \/ /\ a = Empty /\ b # Empty
       /\ \E m \in 1..(n - 1) :
             LET keys == NKeysBetween(a, b, m) IN keys # Error /\ keys[1] = SmallestInteger

KeysInside(a, b, n, keys) ==
    /\ Len(keys) = n
    /\ \A i \in 1..(n - 1) : Less(keys[i], keys[i + 1])
    /\ a # Empty => Less(a, keys[1])
    /\ b # Empty => Less(keys[n], b)

BulkKeysInside ==
    \A day \in Buckets, n \in 1..MaxBulk : \A anchor \in InBucket(day) \cup {Nil} :
        \A b \in SlotNeighbourPositions(day, anchor) :
            LET keys == NKeysBetween(b.prev, b.next, n)
            IN IF Exhausted(b.prev, b.next, n) THEN keys = Error ELSE KeysInside(b.prev, b.next, n, keys)
=============================================================================
