------------------------------- MODULE SlotPool -------------------------------
(***************************************************************************)
(* The slot pool of the priority scheduler at the grain of its atomics.    *)
(*                                                                         *)
(* The per-class in-flight counts are one packed AtomicU64, so they change *)
(* together by compare-and-swap; the capacity and each class's reservation *)
(* are atomics of their own.  An admission loads the counts, the capacity  *)
(* and then the reservations one by one, decides, and commits by a CAS     *)
(* that a change of the counts makes fail, but not a change of the         *)
(* capacity or of a reservation.  The dispatcher publishes a new capacity  *)
(* and its reservations one atomic at a time (apply_new_capacity).         *)
(*                                                                         *)
(* The load of the capacity is an acquire: the loads of the reservations   *)
(* come after it.  Those are relaxed, so they take effect in any order.  A *)
(* reservation of a class that is not above the caller's does not enter    *)
(* slots_available_to and its load is left out.  The CAS loop of release   *)
(* reads nothing but the word it swaps, so it is one step.                 *)
(***************************************************************************)
EXTENDS CapacityReservations, Sequences, FiniteSets

CONSTANTS
  Admission,     \* admission attempts running concurrently
  ClassOf        \* the class of each

ASSUME SlotPoolAssumption ==
  IsFiniteSet(Admission) /\ ClassOf \in [Admission -> Class]

VARIABLES
  inflight,  \* inflight_packed, unpacked into its lanes
  capacity,
  reserved,
  pc,        \* "idle", "capacity", "decide" (loading reservations), "held"
  guarded,   \* try_acquire, or try_acquire_ignoring_reservations
  reg,       \* what the admission loaded: counts, capacity, reservations
  unread,    \* the reservations it has still to load
  todo,      \* writes of apply_new_capacity still to be made
  previous,  \* history: the configuration target replaces
  inForce    \* history: configurations in force since the counts were loaded

pool      == <<inflight, capacity, reserved>>
admission == <<pc, guarded, reg, unread>>
publisher == <<todo, fleet, previous>>
vars      == <<pool, admission, publisher, inForce>>

Register == [cur : [Class -> U16], capacity : U16, reserved : [Class -> U16]]

(* The words apply_new_capacity writes: the four reservations and the      *)
(* capacity.                                                               *)
CapacityWord == 4
GrowOrder    == <<Bulk, Default, Interactive, System, CapacityWord>>
ShrinkOrder  == <<CapacityWord, Bulk, Default, Interactive, System>>

Cleared == [cur      |-> [c \in Class |-> 0],
            capacity |-> 0,
            reserved |-> [c \in Class |-> 0]]

TypeOK ==
  /\ FleetTypeOK
  /\ inflight \in [Class -> U16]
  /\ capacity \in U16
  /\ reserved \in [Class -> U16]
  /\ pc \in [Admission -> {"idle", "capacity", "decide", "held"}]
  /\ guarded \in [Admission -> BOOLEAN]
  /\ reg \in [Admission -> Register]
  /\ unread \in [Admission -> SUBSET Class]
  /\ todo \in Seq(Class \cup {CapacityWord})
  /\ previous \in Config
  /\ inForce \in [Admission -> SUBSET Config]

Init ==
  /\ InitFleet
  /\ inflight = [c \in Class |-> 0]
  /\ previous = target
  /\ capacity = target.capacity
  /\ reserved = target.reserved
  /\ pc = [a \in Admission |-> "idle"]
  /\ guarded = [a \in Admission |-> TRUE]
  /\ reg = [a \in Admission |-> Cleared]
  /\ unread = [a \in Admission |-> {}]
  /\ todo = << >>
  /\ inForce = [a \in Admission |-> {}]

-------------------------------------------------------------------------------
(* Acquiring and releasing a slot.                                         *)

(* The configurations an observer may call current: the one last asked     *)
(* for and, while its words are still being written, the one it replaces.  *)
Current == IF todo = << >> THEN {target} ELSE {previous, target}

LoadCounts(a) ==
  /\ pc' = [pc EXCEPT ![a] = "capacity"]
  /\ reg' = [reg EXCEPT ![a].cur = inflight]
  /\ inForce' = [inForce EXCEPT ![a] = Current]

(* The starvation override (ignoring reservations) never serves System.    *)
Begin(a, g) ==
  /\ pc[a] = "idle"
  /\ g \/ ClassOf[a] # System
  /\ LoadCounts(a)
  /\ guarded' = [guarded EXCEPT ![a] = g]
  /\ UNCHANGED <<pool, unread, publisher>>

Above(class) == {c \in Class : c > class}

LoadCapacity(a) ==
  /\ pc[a] = "capacity"
  /\ pc' = [pc EXCEPT ![a] = "decide"]
  /\ reg' = [reg EXCEPT ![a].capacity = capacity]
  /\ unread' = [unread EXCEPT ![a] = IF guarded[a] THEN Above(ClassOf[a])
                                                   ELSE {}]
  /\ UNCHANGED <<pool, guarded, publisher, inForce>>

LoadReserved(a, c) ==
  /\ pc[a] = "decide"
  /\ c \in unread[a]
  /\ reg' = [reg EXCEPT ![a].reserved[c] = reserved[c]]
  /\ unread' = [unread EXCEPT ![a] = @ \ {c}]
  /\ UNCHANGED <<pool, pc, guarded, publisher, inForce>>

(* Mutant: the reservation guard is left out.                              *)
HeadroomUnguarded(a) == SatSub(reg[a].capacity, SatTotal(reg[a].cur))

(* Headroom of an admission, from what it loaded.                          *)
Headroom(a) ==
  IF guarded[a]
  THEN SlotsAvailableTo(reg[a].cur, reg[a].reserved, reg[a].capacity, ClassOf[a])
  ELSE SatSub(reg[a].capacity, SatTotal(reg[a].cur))

Loaded(a) == pc[a] = "decide" /\ unread[a] = {}

(* Back to rest; what was loaded is dead.                                  *)
Settle(a, where) ==
  /\ pc' = [pc EXCEPT ![a] = where]
  /\ guarded' = [guarded EXCEPT ![a] = TRUE]
  /\ reg' = [reg EXCEPT ![a] = Cleared]
  /\ inForce' = [inForce EXCEPT ![a] = {}]

Refuse(a) ==
  /\ Loaded(a)
  /\ Headroom(a) = 0
  /\ Settle(a, "idle")
  /\ UNCHANGED <<pool, unread, publisher>>

(* Mutant: a store in place of the compare-and-swap.                       *)
CommitBlindly(a) ==
  /\ Loaded(a)
  /\ Headroom(a) > 0
  /\ inflight' = [reg[a].cur EXCEPT ![ClassOf[a]] = AtMost(@ + 1, MaxU16)]
  /\ Settle(a, "held")
  /\ UNCHANGED <<capacity, reserved, unread, publisher>>

(* The CAS succeeds: the counts are still the ones that were loaded.       *)
Commit(a) ==
  /\ Loaded(a)
  /\ Headroom(a) > 0
  /\ inflight = reg[a].cur
  /\ inflight' = [inflight EXCEPT ![ClassOf[a]] = AtMost(@ + 1, MaxU16)]
  /\ Settle(a, "held")
  /\ UNCHANGED <<capacity, reserved, unread, publisher>>

(* The CAS fails and returns the counts it observed.  compare_exchange_weak*)
(* may also fail when they have not changed.                               *)
Retry(a) ==
  /\ Loaded(a)
  /\ Headroom(a) > 0
  /\ LoadCounts(a)
  /\ UNCHANGED <<pool, guarded, unread, publisher>>

Release(a) ==
  /\ pc[a] = "held"
  /\ pc' = [pc EXCEPT ![a] = "idle"]
  /\ inflight' = [inflight EXCEPT ![ClassOf[a]] = SatSub(@, 1)]
  /\ UNCHANGED <<capacity, reserved, guarded, reg, unread, publisher, inForce>>

-------------------------------------------------------------------------------
(* Publishing a new capacity.                                              *)

(* Mutant: the capacity always goes out first.                             *)
CapacityFirst(new) == ShrinkOrder

(* apply_new_capacity: the more restrictive value is to go out first.      *)
PublishOrder(new) == IF new > capacity THEN GrowOrder ELSE ShrinkOrder

ApplyNewCapacity(new) ==
  /\ todo = << >>
  /\ new # capacity
  /\ todo' = PublishOrder(new)
  /\ Recompute(new)
  /\ previous' = target
  /\ inForce' = [a \in Admission |->
                   IF pc[a] \in {"capacity", "decide"}
                   THEN inForce[a] \cup {target'} ELSE inForce[a]]
  /\ UNCHANGED <<pool, admission>>

PublishWord ==
  /\ todo # << >>
  /\ todo' = Tail(todo)
  /\ IF Head(todo) = CapacityWord
     THEN capacity' = target.capacity /\ UNCHANGED reserved
     ELSE /\ reserved' = [reserved EXCEPT ![Head(todo)] =
                            target.reserved[Head(todo)]]
          /\ UNCHANGED capacity
  /\ UNCHANGED <<inflight, admission, fleet, previous, inForce>>

-------------------------------------------------------------------------------

AcquireStep(a) ==
  \/ LoadCapacity(a)
  \/ \E c \in Class : LoadReserved(a, c)
  \/ Refuse(a)
  \/ Commit(a)
  \/ Retry(a)
  \/ Release(a)

Resize ==
  \/ \E new \in Capacities : ApplyNewCapacity(new)
  \/ PublishWord

Next ==
  \/ \E a \in Admission : (\E g \in BOOLEAN : Begin(a, g)) \/ AcquireStep(a)
  \/ Resize

Spec == Init /\ [][Next]_vars

(* A fleet whose capacity does not move and whose waiters do not starve:   *)
(* nothing but try_acquire and release touches the pool.                   *)
GuardedNext == \E a \in Admission : Begin(a, TRUE) \/ AcquireStep(a)

GuardedSpec == Init /\ [][GuardedNext]_vars

(* A fleet whose capacity moves, but whose waiters do not starve.          *)
UnstarvedSpec == Init /\ [][GuardedNext \/ Resize]_vars

-------------------------------------------------------------------------------
(* Properties.                                                             *)

Holders(c) == {a \in Admission : pc[a] = "held" /\ ClassOf[a] = c}

(* Every lane counts exactly the admissions that hold a slot of its class: *)
(* no interleaving of acquires, failed CASes and releases loses a slot,    *)
(* frees one twice or moves one to another lane.                           *)
SlotAccounting == \A c \in Class : inflight[c] = Cardinality(Holders(c))

Commits(a) == pc[a] = "decide" /\ pc'[a] = "held"

(* try_acquire and try_acquire_ignoring_reservations honor live            *)
(* set_capacity updates mid-retry: a slot is only taken while the total is *)
(* below a capacity in force since the counts were last loaded.            *)
CeilingHonoured ==
  [][\A a \in Admission :
       Commits(a) => \E cfg \in inForce[a] : Total(inflight) < cfg.capacity]_vars

(* apply_new_capacity: "the transient is then always conservative [...]    *)
(* only under-admits, never over-admits".  A guarded acquire that commits  *)
(* would also have been admitted under one whole configuration in force    *)
(* since it loaded the counts, the one before the change or the one after. *)
NeverOverAdmits ==
  [][\A a \in Admission :
       Commits(a) /\ guarded[a] =>
         \E cfg \in inForce[a] :
           SlotsAvailableTo(inflight, cfg.reserved, cfg.capacity, ClassOf[a]) > 0
    ]_vars

InflightBelow(h) ==
  [c \in Class |-> IF c < h THEN inflight[c] ELSE reserved[c]]

ReservationsKept == \A h \in Class : Total(InflightBelow(h)) <= capacity

(* The reservation guard, under any interleaving of try_acquire and        *)
(* release: what the classes below a class hold, and all that this class   *)
(* and the ones above it have reserved, fit in the pool together.  So a    *)
(* class can be refused inside its reservation only by higher classes.     *)
(* The words of a configuration are compared once all are written.         *)
ReservationsHonoured == todo = << >> => ReservationsKept
===============================================================================
