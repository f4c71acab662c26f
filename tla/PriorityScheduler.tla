--------------------------- MODULE PriorityScheduler ---------------------------
(***************************************************************************)
(* The priority admission engine: requests that are admitted, preempt,     *)
(* queue, give up or run, and the dispatcher that hands freed slots to     *)
(* queued waiters.                                                         *)
(*                                                                         *)
(* A step is what a task does between two points where another task can    *)
(* see the difference: one slot-pool operation (SlotPool shows these are   *)
(* atomic), one registry or queue lock, one compare-and-swap of            *)
(* first_byte_at, one notify_one, one send on the waiter's oneshot.  A     *)
(* request id is used once.  Clocks are left out: a queue timeout, an      *)
(* ageing waiter, the end of the preemption budget and the dispatcher's    *)
(* tick may happen at any time.                                            *)
(***************************************************************************)
EXTENDS Reservations, Sequences, FiniteSets

CONSTANTS
  Request,       \* request ids
  ClassOf,       \* the effective class of each
  CanPreempt,    \* classes configured with can_preempt
  QueueSize,     \* queue_size per class
  Floor,         \* reserved_floor per class
  Share,         \* reserved_per_slot per class
  FirstCapacity, \* capacity the scheduler is built with
  Capacities,    \* capacities the watch channel may deliver later
  Cancellable,   \* requests whose caller may fire the cancel token of admit
  NoRequest

ASSUME PrioritySchedulerAssumption ==
  /\ IsFiniteSet(Request)
  /\ ClassOf \in [Request -> Class]
  /\ CanPreempt \subseteq Class
  /\ QueueSize \in [Class -> Nat]
  /\ Floor \in [Class -> U16]
  /\ Share \in [Class -> [num : Nat, den : Nat \ {0}]]
  /\ FirstCapacity \in U16
  /\ Capacities \subseteq U16
  /\ Cancellable \subseteq Request
  /\ NoRequest \notin Request
  /\ Total(DesiredReservations(Floor, Share, FirstCapacity)) <= FirstCapacity

VARIABLES
  capacity,    \* slot_pool.capacity
  reserved,    \* slot_pool.reserved
  inflight,    \* slot_pool.inflight_packed
  queue,       \* class_queues: waiting request ids, oldest first
  registry,    \* inflight_registry: registered ids, oldest admission first
  pc,          \* where the task of each request is
  victim,      \* the handle find_preemption_victim returned
  firstByte,   \* first_byte_at: "unset", "preempted" or "marked"
  fired,       \* requests whose scheduler-owned cancel token has fired
  cancelled,   \* requests whose caller fired the token given to admit
  closed,      \* waiters whose oneshot receiver is gone
  reaped,      \* waiters whose own token the exit guard has cancelled
  delivered,   \* waiters with a permit in their oneshot
  aged,        \* waiters older than their starvation threshold
  notified,    \* release_notify holds a wakeup
  scan,        \* the dispatcher's place in wake_next_waiter; 0: asleep
  hand         \* what it holds: nothing, a slot, or a permit to deliver

pool       == <<capacity, reserved, inflight>>
handles    == <<registry, firstByte, fired>>
waiters    == <<queue, closed, reaped, delivered, aged>>
dispatcher == <<scan, hand>>
vars       == <<pool, handles, waiters, dispatcher, pc, victim, cancelled, notified>>

(* Order of wake_next_waiter: the starvation override over the classes it  *)
(* protects, lowest first, then every class, highest first.                *)
ScanOrder  == <<Bulk, Default, Interactive, System, Interactive, Default, Bulk>>
ScanClass  == ScanOrder[scan]
IsOverride == scan <= 3

Nothing == [kind |-> "nothing", request |-> NoRequest]
ASlot   == [kind |-> "slot", request |-> NoRequest]
APermit(r) == [kind |-> "permit", request |-> r]

Locations ==
  {"new", "select", "mark", "fire", "poll", "register", "enqueue", "kick",
   "waiting", "handler", "body", "streaming", "free", "notify", "reap", "over"}

TypeOK ==
  /\ capacity \in U16
  /\ reserved \in [Class -> U16]
  /\ inflight \in [Class -> U16]
  /\ queue \in [Class -> Seq(Request)]
  /\ registry \in Seq(Request)
  /\ pc \in [Request -> Locations]
  /\ victim \in [Request -> Request \cup {NoRequest}]
  /\ firstByte \in [Request -> {"unset", "preempted", "marked"}]
  /\ fired \subseteq Request
  /\ cancelled \subseteq Request
  /\ closed \subseteq Request
  /\ reaped \subseteq Request
  /\ delivered \subseteq Request
  /\ aged \subseteq Request
  /\ notified \in BOOLEAN
  /\ scan \in 0 .. Len(ScanOrder)
  /\ hand \in {Nothing, ASlot} \cup {APermit(r) : r \in Request}

Init ==
  /\ capacity = FirstCapacity
  /\ reserved = DesiredReservations(Floor, Share, FirstCapacity)
  /\ inflight = [c \in Class |-> 0]
  /\ queue = [c \in Class |-> << >>]
  /\ registry = << >>
  /\ pc = [r \in Request |-> "new"]
  /\ victim = [r \in Request |-> NoRequest]
  /\ firstByte = [r \in Request |-> "unset"]
  /\ fired = {} /\ cancelled = {}
  /\ closed = {} /\ reaped = {} /\ delivered = {} /\ aged = {}
  /\ notified = FALSE
  /\ scan = 0
  /\ hand = Nothing

-------------------------------------------------------------------------------
(* Slots and the registry.                                                 *)

Registered == {registry[i] : i \in DOMAIN registry}

Headroom(c) == SlotsAvailableTo(inflight, reserved, capacity, c)
FreeSlots   == SatSub(capacity, SatTotal(inflight))

(* The sequence s, in which r occurs once, without r.                      *)
RemoveId(s, r) ==
  LET i == CHOOSE i \in DOMAIN s : s[i] = r
  IN  SubSeq(s, 1, i - 1) \o SubSeq(s, i + 1, Len(s))

TakeSlot(c)   == inflight' = [inflight EXCEPT ![c] = @ + 1]
ReturnSlot(c) == inflight' = [inflight EXCEPT ![c] = SatSub(@, 1)]

Register(r)   == registry' = Append(registry, r)
Unregister(r) == registry' = IF r \in Registered THEN RemoveId(registry, r) ELSE registry

Goto(r, where) == pc' = [pc EXCEPT ![r] = where]

(* The waiter's token is a child of the one given to admit.                *)
IsCancelled(r) == r \in reaped \/ r \in cancelled

(* A queue without the leading waiters that are in dead.                   *)
DropLeading(q, dead) ==
  LET live == {i \in DOMAIN q : q[i] \notin dead}
  IN  IF live = {} THEN << >>
      ELSE SubSeq(q, CHOOSE i \in live : \A j \in live : i <= j, Len(q))


-------------------------------------------------------------------------------
(* admit: the fast path and the preemption path.                           *)

(* try_acquire succeeds, for a request not yet registered.                 *)
Acquire(r) ==
  /\ Headroom(ClassOf[r]) > 0
  /\ TakeSlot(ClassOf[r])
  /\ Goto(r, "register")
  /\ UNCHANGED <<capacity, reserved, handles, waiters, dispatcher, victim,
                 cancelled, notified>>

(* register_inflight, on the request's own task.                           *)
RegisterInflight(r) ==
  /\ pc[r] = "register"
  /\ Register(r)
  /\ Goto(r, "handler")
  /\ UNCHANGED <<pool, firstByte, fired, waiters, dispatcher, victim, cancelled,
                 notified>>

FastPath(r) == pc[r] = "new" /\ Acquire(r)

FastPathFails(r) ==
  /\ pc[r] = "new"
  /\ Headroom(ClassOf[r]) = 0
  /\ Goto(r, IF ClassOf[r] \in CanPreempt THEN "select" ELSE "enqueue")
  /\ UNCHANGED <<pool, handles, waiters, dispatcher, victim, cancelled, notified>>

(* find_preemption_victim: a handle of a lower class without a first byte, *)
(* of the lowest class there is, the newest of that class.                 *)
Preemptible(r) ==
  {i \in DOMAIN registry : /\ ClassOf[registry[i]] < ClassOf[r]
                           /\ firstByte[registry[i]] = "unset"}

IsBestVictim(r, i) ==
  /\ i \in Preemptible(r)
  /\ \A j \in Preemptible(r) \ {i} :
       LET ci == ClassOf[registry[i]]
           cj == ClassOf[registry[j]]
       IN  ci < cj \/ (ci = cj /\ j < i)

SelectVictim(r) ==
  /\ pc[r] = "select"
  /\ \/ r \in cancelled /\ Goto(r, "over") /\ UNCHANGED victim
     \/ /\ r \notin cancelled
        /\ Preemptible(r) = {}
        /\ Goto(r, "enqueue")
        /\ UNCHANGED victim
     \/ /\ r \notin cancelled
        /\ \E i \in DOMAIN registry :
             /\ IsBestVictim(r, i)
             /\ victim' = [victim EXCEPT ![r] = registry[i]]
        /\ Goto(r, "mark")
  /\ UNCHANGED <<pool, handles, waiters, dispatcher, cancelled, notified>>

(* Mutant: the mark is a plain store.                                      *)
MarkBlindly(r) ==
  /\ pc[r] = "mark"
  /\ firstByte' = [firstByte EXCEPT ![victim[r]] = "preempted"]
  /\ Goto(r, "fire")
  /\ UNCHANGED <<pool, registry, fired, waiters, dispatcher, victim, cancelled,
                 notified>>

(* try_mark_preempted on the handle found, which may have moved on since.  *)
MarkPreempted(r) ==
  /\ pc[r] = "mark"
  /\ IF firstByte[victim[r]] = "unset"
     THEN /\ firstByte' = [firstByte EXCEPT ![victim[r]] = "preempted"]
          /\ Goto(r, "fire")
          /\ UNCHANGED victim
     ELSE /\ Goto(r, "enqueue")
          /\ victim' = [victim EXCEPT ![r] = NoRequest]
          /\ UNCHANGED firstByte
  /\ UNCHANGED <<pool, registry, fired, waiters, dispatcher, cancelled, notified>>

FireCancel(r) ==
  /\ pc[r] = "fire"
  /\ fired' = fired \cup {victim[r]}
  /\ victim' = [victim EXCEPT ![r] = NoRequest]
  /\ Goto(r, "poll")
  /\ UNCHANGED <<pool, registry, firstByte, waiters, dispatcher, cancelled, notified>>

(* wait_for_slot: a poll that finds a slot ...                             *)
PollSlot(r) == pc[r] = "poll" /\ Acquire(r)

(* ... the last poll of the budget, that finds none ...                    *)
BudgetSpent(r) ==
  /\ pc[r] = "poll"
  /\ Headroom(ClassOf[r]) = 0
  /\ Goto(r, IF r \in cancelled THEN "over" ELSE "enqueue")
  /\ UNCHANGED <<pool, handles, waiters, dispatcher, victim, cancelled, notified>>

(* ... or the end of the wait: the token fired, or the client is gone and  *)
(* the future is dropped between two polls.                                *)
AbandonPoll(r) ==
  /\ pc[r] = "poll"
  /\ Goto(r, "over")
  /\ UNCHANGED <<pool, handles, waiters, dispatcher, victim, cancelled, notified>>

-------------------------------------------------------------------------------
(* admit: the queue.                                                       *)

QueueFull(c) == Len(queue[c]) >= QueueSize[c]

(* try_enqueue; a full queue rejects.                                      *)
Enqueue(r) ==
  LET c == ClassOf[r]
  IN  /\ pc[r] = "enqueue"
      /\ IF QueueFull(c)
         THEN Goto(r, "over") /\ UNCHANGED queue
         ELSE Goto(r, "kick") /\ queue' = [queue EXCEPT ![c] = Append(@, r)]
      /\ UNCHANGED <<pool, handles, closed, reaped, delivered, aged, dispatcher,
                     victim, cancelled, notified>>

(* Mutant: the lost-wakeup guard is missing.                               *)
NoKick(r) ==
  /\ pc[r] = "kick"
  /\ Goto(r, "waiting")
  /\ UNCHANGED <<pool, handles, waiters, dispatcher, victim, cancelled, notified>>

(* The lost-wakeup guard: a slot may have been freed since the fast path   *)
(* failed.                                                                 *)
Kick(r) ==
  /\ pc[r] = "kick"
  /\ notified' = TRUE
  /\ Goto(r, "waiting")
  /\ UNCHANGED <<pool, handles, waiters, dispatcher, victim, cancelled>>

(* The permit arrives; the exit guard cancels the waiter's token and kicks *)
(* the dispatcher.                                                         *)
ReceivePermit(r) ==
  /\ pc[r] = "waiting"
  /\ r \in delivered
  /\ delivered' = delivered \ {r}
  /\ closed' = closed \cup {r}
  /\ reaped' = reaped \cup {r}
  /\ notified' = TRUE
  /\ Goto(r, "handler")
  /\ UNCHANGED <<pool, handles, queue, aged, dispatcher, victim, cancelled>>

(* Another arm of the select, or the drop of the future: queue timeout,    *)
(* client cancel, disconnect.  The receiver goes first, and with it a      *)
(* permit that had already arrived; the exit guard follows.                *)
GiveUp(r) ==
  /\ pc[r] = "waiting"
  /\ closed' = closed \cup {r}
  /\ delivered' = delivered \ {r}
  /\ IF r \in delivered
     THEN Unregister(r) /\ Goto(r, "free")
     ELSE UNCHANGED registry /\ Goto(r, "reap")
  /\ UNCHANGED <<pool, firstByte, fired, queue, reaped, aged, dispatcher, victim,
                 cancelled, notified>>

(* Mutant: the exit guard kicks the dispatcher but leaves the waiter live. *)
ReapWithoutCancel(r) ==
  /\ pc[r] = "reap"
  /\ notified' = TRUE
  /\ Goto(r, "over")
  /\ UNCHANGED <<pool, handles, waiters, dispatcher, victim, cancelled>>

(* QueuedWait::drop.                                                       *)
Reap(r) ==
  /\ pc[r] = "reap"
  /\ reaped' = reaped \cup {r}
  /\ notified' = TRUE
  /\ Goto(r, "over")
  /\ UNCHANGED <<pool, handles, queue, closed, delivered, aged, dispatcher, victim,
                 cancelled>>

(* The caller fires the token it gave to admit.                            *)
CancelToken(r) ==
  /\ r \in Cancellable \ cancelled
  /\ pc[r] \in {"new", "select", "poll", "enqueue", "waiting"}
  /\ cancelled' = cancelled \cup {r}
  /\ UNCHANGED <<pool, handles, waiters, dispatcher, pc, victim, notified>>

-------------------------------------------------------------------------------
(* An admitted request: handler, response body, release.                   *)

(* The handler answers.  The preemption header is on the guard's 503 or    *)
(* relayed from a worker; carry_permit drops the permit only if this       *)
(* scheduler has preempted the request, else it rides on the body.         *)
Respond(r, preemptedHeader) ==
  /\ pc[r] = "handler"
  /\ IF preemptedHeader /\ firstByte[r] # "unset"
     THEN Unregister(r) /\ Goto(r, "free")
     ELSE UNCHANGED registry /\ Goto(r, "body")
  /\ UNCHANGED <<pool, firstByte, fired, waiters, dispatcher, victim, cancelled,
                 notified>>

(* The first data frame: try_mark_first_byte, or the end of the body.      *)
FirstFrame(r) ==
  /\ pc[r] = "body"
  /\ IF firstByte[r] = "unset"
     THEN /\ firstByte' = [firstByte EXCEPT ![r] = "marked"]
          /\ Goto(r, "streaming")
          /\ UNCHANGED registry
     ELSE Unregister(r) /\ Goto(r, "free") /\ UNCHANGED firstByte
  /\ UNCHANGED <<pool, fired, waiters, dispatcher, victim, cancelled, notified>>

(* The permit is dropped: the body ended, failed or was empty, or the      *)
(* client went away and the handler's future or the body is dropped.       *)
DropPermit(r) ==
  /\ pc[r] \in {"handler", "body", "streaming"}
  /\ Unregister(r)
  /\ Goto(r, "free")
  /\ UNCHANGED <<pool, firstByte, fired, waiters, dispatcher, victim, cancelled,
                 notified>>

(* The rest of release_inflight: the slot, then the dispatcher's wakeup.   *)
FreeSlot(r) ==
  /\ pc[r] = "free"
  /\ ReturnSlot(ClassOf[r])
  /\ Goto(r, "notify")
  /\ UNCHANGED <<capacity, reserved, handles, waiters, dispatcher, victim, cancelled,
                 notified>>

(* Mutant: a release wakes nobody.                                         *)
ReleaseSilently(r) ==
  /\ pc[r] = "notify"
  /\ Goto(r, IF r \in closed \ reaped THEN "reap" ELSE "over")
  /\ UNCHANGED <<pool, handles, waiters, dispatcher, victim, cancelled, notified>>

NotifyRelease(r) ==
  /\ pc[r] = "notify"
  /\ notified' = TRUE
  /\ Goto(r, IF r \in closed \ reaped THEN "reap" ELSE "over")
  /\ UNCHANGED <<pool, handles, waiters, dispatcher, victim, cancelled>>

-------------------------------------------------------------------------------
(* The dispatcher.                                                         *)

Wake ==
  /\ scan = 0
  /\ notified
  /\ notified' = FALSE
  /\ scan' = 1
  /\ UNCHANGED <<pool, handles, waiters, hand, pc, victim, cancelled>>

(* The tick does not consume a stored wakeup.                              *)
Tick ==
  /\ scan = 0
  /\ scan' = 1
  /\ UNCHANGED <<pool, handles, waiters, hand, pc, victim, cancelled, notified>>

(* Mutant: the last class is not the end of the scan.                      *)
ScanPastEnd == scan' = scan + 1

NextClass == scan' = IF scan = Len(ScanOrder) THEN 0 ELSE scan + 1

(* The head of a queue is older than its class's threshold.                *)
Age(r) ==
  /\ queue[ClassOf[r]] # << >>
  /\ r = Head(queue[ClassOf[r]])
  /\ r \notin aged
  /\ ClassOf[r] # System
  /\ aged' = aged \cup {r}
  /\ UNCHANGED <<pool, handles, queue, closed, reaped, delivered, dispatcher, pc,
                 victim, cancelled, notified>>

(* Mutant: the starvation override is missing.                             *)
ScanWithoutOverride ==
  LET c == ScanClass
      q == DropLeading(queue[c], {r \in Request : IsCancelled(r)})
  IN  /\ scan # 0
      /\ hand = Nothing
      /\ queue' = [queue EXCEPT ![c] = q]
      /\ aged' = {r \in aged : ClassOf[r] = c => q # << >> /\ r = Head(q)}
      /\ IF q # << >> /\ ~IsOverride /\ Headroom(c) > 0
         THEN TakeSlot(c) /\ hand' = ASlot /\ UNCHANGED scan
         ELSE NextClass /\ UNCHANGED <<inflight, hand>>
      /\ UNCHANGED <<capacity, reserved, handles, closed, reaped, delivered, pc,
                     victim, cancelled, notified>>

(* wake_next_waiter at one class: reap cancelled heads, skip a class with  *)
(* no waiter to serve or no slot for it, else take the slot.               *)
Scan ==
  LET c    == ScanClass
      q    == DropLeading(queue[c], {r \in Request : IsCancelled(r)})
      room == IF IsOverride THEN FreeSlots ELSE Headroom(c)
  IN  /\ scan # 0
      /\ hand = Nothing
      /\ queue' = [queue EXCEPT ![c] = q]
      /\ aged' = {r \in aged : ClassOf[r] = c => q # << >> /\ r = Head(q)}
      /\ IF q # << >> /\ (IsOverride => Head(q) \in aged) /\ room > 0
         THEN TakeSlot(c) /\ hand' = ASlot /\ UNCHANGED scan
         ELSE NextClass /\ UNCHANGED <<inflight, hand>>
      /\ UNCHANGED <<capacity, reserved, handles, closed, reaped, delivered, pc,
                     victim, cancelled, notified>>

(* Mutant: with no waiter left the slot is not returned.                   *)
SendLeaksSlot ==
  LET c == ScanClass
      q == DropLeading(queue[c], closed)
  IN  /\ hand = ASlot
      /\ IF q = << >>
         THEN /\ queue' = [queue EXCEPT ![c] = << >>]
              /\ hand' = Nothing
              /\ NextClass
              /\ UNCHANGED registry
         ELSE /\ queue' = [queue EXCEPT ![c] = Tail(q)]
              /\ Register(Head(q))
              /\ hand' = APermit(Head(q))
              /\ UNCHANGED scan
      /\ aged' = {r \in aged : ClassOf[r] # c}
      /\ UNCHANGED <<pool, firstByte, fired, closed, reaped, delivered, pc, victim,
                     cancelled, notified>>

(* send_to_head: pop waiters up to one whose receiver is open and register *)
(* it; with none left the slot goes back, without a wakeup.                *)
SendToHead ==
  LET c == ScanClass
      q == DropLeading(queue[c], closed)
  IN  /\ hand = ASlot
      /\ IF q = << >>
         THEN /\ queue' = [queue EXCEPT ![c] = << >>]
              /\ ReturnSlot(c)
              /\ hand' = Nothing
              /\ NextClass
              /\ UNCHANGED registry
         ELSE /\ queue' = [queue EXCEPT ![c] = Tail(q)]
              /\ Register(Head(q))
              /\ hand' = APermit(Head(q))
              /\ UNCHANGED <<inflight, scan>>
      /\ aged' = {r \in aged : ClassOf[r] # c}
      /\ UNCHANGED <<capacity, reserved, firstByte, fired, closed, reaped, delivered,
                     pc, victim, cancelled, notified>>

(* Mutant: an undeliverable permit frees its slot but stays registered.    *)
DeliverLeavesHandle ==
  /\ hand.kind = "permit"
  /\ IF hand.request \in closed
     THEN /\ ReturnSlot(ClassOf[hand.request])
          /\ notified' = TRUE
          /\ UNCHANGED delivered
     ELSE /\ delivered' = delivered \cup {hand.request}
          /\ UNCHANGED <<inflight, notified>>
  /\ hand' = Nothing
  /\ scan' = 1
  /\ UNCHANGED <<capacity, reserved, handles, queue, closed, reaped, aged, pc,
                 victim, cancelled>>

(* The send; if the receiver has closed since, the permit is dropped here. *)
(* Either way a waiter counts as served and the scan starts over.          *)
Deliver ==
  /\ hand.kind = "permit"
  /\ IF hand.request \in closed
     THEN /\ Unregister(hand.request)
          /\ ReturnSlot(ClassOf[hand.request])
          /\ notified' = TRUE
          /\ UNCHANGED delivered
     ELSE /\ delivered' = delivered \cup {hand.request}
          /\ UNCHANGED <<registry, inflight, notified>>
  /\ hand' = Nothing
  /\ scan' = 1
  /\ UNCHANGED <<capacity, reserved, firstByte, fired, queue, closed, reaped, aged,
                 pc, victim, cancelled>>

(* Mutant: a larger capacity does not wake the dispatcher.                 *)
GrowSilently(new) ==
  /\ scan = 0
  /\ new # capacity
  /\ capacity' = new
  /\ reserved' = ReservationsAt(Floor, Share, new)
  /\ UNCHANGED <<inflight, handles, waiters, dispatcher, pc, victim, cancelled,
                 notified>>

(* apply_new_capacity; only a larger capacity wakes the dispatcher.        *)
ApplyNewCapacity(new) ==
  /\ scan = 0
  /\ new # capacity
  /\ capacity' = new
  /\ reserved' = ReservationsAt(Floor, Share, new)
  /\ notified' = (notified \/ new > capacity)
  /\ UNCHANGED <<inflight, handles, waiters, dispatcher, pc, victim, cancelled>>

-------------------------------------------------------------------------------

(* What the task of a request does on its own.                             *)
Progress(r) ==
  \/ FastPath(r)
  \/ FastPathFails(r)
  \/ SelectVictim(r)
  \/ MarkPreempted(r)
  \/ FireCancel(r)
  \/ PollSlot(r)
  \/ BudgetSpent(r)
  \/ RegisterInflight(r)
  \/ Enqueue(r)
  \/ Kick(r)
  \/ ReceivePermit(r)
  \/ Reap(r)
  \/ FirstFrame(r)
  \/ DropPermit(r)
  \/ FreeSlot(r)
  \/ NotifyRelease(r)

(* What a client, a clock or a worker may do to it.                        *)
Disturb(r) ==
  \/ AbandonPoll(r)
  \/ GiveUp(r)
  \/ CancelToken(r)
  \/ \E header \in BOOLEAN : Respond(r, header)

Dispatch == Wake \/ Scan \/ SendToHead \/ Deliver

Next ==
  \/ \E r \in Request : Progress(r) \/ Disturb(r) \/ Age(r)
  \/ Dispatch
  \/ Tick
  \/ \E new \in Capacities : ApplyNewCapacity(new)

Spec == Init /\ [][Next]_vars

-------------------------------------------------------------------------------
(* Safety.                                                                 *)

WithPermit == {"handler", "body", "streaming"}

InHand(c) ==
  \/ hand = ASlot /\ ScanClass = c
  \/ hand.kind = "permit" /\ ClassOf[hand.request] = c

Holders(c) ==
  {r \in Request : /\ ClassOf[r] = c
                   /\ pc[r] \in WithPermit \cup {"register", "free"} \/ r \in delivered}

(* No slot is leaked or freed twice: each lane counts the requests that    *)
(* hold a slot, permits lying in a oneshot and the dispatcher's own slot   *)
(* included, whatever races between delivery, timeout, disconnect,         *)
(* preemption and release.                                                 *)
SlotAccounting ==
  \A c \in Class :
    inflight[c] = Cardinality(Holders(c)) + (IF InHand(c) THEN 1 ELSE 0)

(* The registry, where victims are looked for, lists exactly the permits   *)
(* that exist, each once.                                                  *)
RegistryMatchesPermits ==
  /\ Registered = {r \in Request : pc[r] \in WithPermit \/ r \in delivered}
                    \cup {r \in Request : hand = APermit(r)}
  /\ Cardinality(Registered) = Len(registry)

(* The race of preemption and first byte has one winner: a request whose   *)
(* cancel token fires never streams, before or after.                      *)
PreemptedNeverStreams ==
  \A r \in Request :
    r \in fired \/ firstByte[r] = "preempted" => pc[r] # "streaming"

Queued(r) == \E i \in DOMAIN queue[ClassOf[r]] : queue[ClassOf[r]][i] = r

(* A request that is over has left nothing behind: no permit, but the one  *)
(* the dispatcher is about to find undeliverable, and no waiter that the   *)
(* queue would not reap.                                                   *)
OverLeavesNothing ==
  \A r \in Request :
    pc[r] = "over" => /\ r \notin delivered
                      /\ r \in Registered => hand = APermit(r) /\ r \in closed
                      /\ Queued(r) => r \in reaped

(* Nothing that will wake the dispatcher is still to come.                 *)
Quiet ==
  /\ scan = 0
  /\ ~notified
  /\ \A r \in Request : pc[r] \notin {"kick", "notify", "reap"}

(* No lost wakeup: once the dispatcher sleeps with no wakeup stored or on  *)
(* its way, no queue has a waiter it could serve, and no head is a waiter  *)
(* that is gone and keeps its place (which would reject the next admit of  *)
(* a full queue).                                                          *)
NoLostWakeup ==
  Quiet => \A c \in Class :
             queue[c] # << >> => Headroom(c) = 0 /\ Head(queue[c]) \notin reaped

-------------------------------------------------------------------------------
(* Liveness.                                                               *)

(* The tasks run, handlers answer and bodies end; nothing is assumed of    *)
(* timeouts, ticks, ageing or clients.                                     *)
Fairness ==
  /\ \A r \in Request : WF_vars(Progress(r))
  /\ WF_vars(Dispatch)

(* The clocks run too: the dispatcher ticks and a waiting head ages.       *)
ClockedSpec ==
  /\ Spec
  /\ Fairness
  /\ WF_vars(Tick)
  /\ \A r \in Request : WF_vars(Age(r))

(* Every admission settles: it is admitted and its slot returned, or it is *)
(* rejected.  A class that the reservations lock out, or that a smaller    *)
(* pool lets in without a wakeup, is served too, by the tick and the       *)
(* starvation override.                                                    *)
EveryAdmissionSettles ==
  \A r \in Request : (pc[r] # "new") ~> (pc[r] = "over")
===============================================================================
