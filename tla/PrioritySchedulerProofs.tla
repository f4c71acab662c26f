----------------------- MODULE PrioritySchedulerProofs -----------------------
(***************************************************************************)
(* The admission engine for any number of requests, any queue sizes, any   *)
(* reservations and any sequence of capacities: the race of preemption and *)
(* first byte, the types, the waiters, the registry, the slot accounts and *)
(* the dispatcher's wakeups.                                               *)
(***************************************************************************)
EXTENDS PriorityScheduler, ReservationsProofs, FiniteSetTheorems,
        WellFoundedInduction

(* A non-empty set of naturals has a least element.                        *)
LEMMA LeastElement ==
  ASSUME NEW T \in SUBSET Nat, T # {}
  PROVE  \E x \in T : \A y \in T : x <= y
<1> DEFINE R == OpToRel(<, Nat)
<1>1. IsWellFoundedOn(R, Nat)
  BY NatLessThanWellFounded
<1>2. PICK x \in T : \A y \in T : ~ (<<y, x>> \in R)
  BY <1>1, WFMin
<1>3. ASSUME NEW y \in T
      PROVE  x <= y
  <2>1. x \in Nat /\ y \in Nat
    OBVIOUS
  <2>2. y < x => <<y, x>> \in R
    BY <2>1 DEF OpToRel
  <2> HIDE DEF R
  <2>3. ~(<<y, x>> \in R)
    BY <1>2
  <2> QED
    BY <2>1, <2>2, <2>3
<1> QED
  BY <1>3

(* The sequences of request ids the engine keeps, and the dispatcher's     *)
(* place: it holds a slot or a permit only in the middle of a scan.        *)
IdsOK ==
  /\ queue \in [Class -> Seq(Request)]
  /\ registry \in Seq(Request)
  /\ scan \in 0 .. 7
  /\ hand # Nothing => scan # 0

(* The words the race is decided on.                                       *)
RaceTypes ==
  /\ pc \in [Request -> Locations]
  /\ victim \in [Request -> Request \cup {NoRequest}]
  /\ firstByte \in [Request -> {"unset", "preempted", "marked"}]

(* A preemptor between its compare-and-swap and the cancel holds a victim  *)
(* it has marked; a fired token implies the mark; a stream implies the     *)
(* other mark.  The compare-and-swap leaves no third case.                 *)
RaceInv ==
  /\ IdsOK
  /\ RaceTypes
  /\ \A r \in Request : pc[r] = "mark" => victim[r] \in Request
  /\ \A r \in Request : pc[r] = "fire" => /\ victim[r] \in Request
                                          /\ firstByte[victim[r]] = "preempted"
  /\ \A r \in Request : r \in fired => firstByte[r] = "preempted"
  /\ \A r \in Request : pc[r] = "streaming" => firstByte[r] = "marked"

-------------------------------------------------------------------------------
(* Operators on sequences of ids.                                          *)

(* Dropping the leading dead waiters leaves a sequence of waiters.         *)
LEMMA DropLeadingType ==
  ASSUME NEW S, NEW s \in Seq(S), NEW d
  PROVE  DropLeading(s, d) \in Seq(S)
<1> DEFINE live == {i \in DOMAIN s : s[i] \notin d}
           k == CHOOSE i \in live : \A j \in live : i <= j
<1>1. CASE live = {}
  BY <1>1 DEF DropLeading
<1>2. CASE live # {}
  <2>1. DropLeading(s, d) = SubSeq(s, k, Len(s))
    BY <1>2 DEF DropLeading
  <2>2. live \in SUBSET Nat
    OBVIOUS
  <2>3. \E x \in live : \A y \in live : x <= y
    BY <2>2, <1>2, LeastElement
  <2>4. k \in live
    BY <2>3
  <2>5. k \in 1 .. Len(s)
    BY <2>4
  <2> HIDE DEF k
  <2> QED
    BY <2>1, <2>5
<1> QED
  BY <1>1, <1>2

(* Removing an id that occurs leaves a sequence of ids.                    *)
LEMMA RemoveIdType ==
  ASSUME NEW S, NEW s \in Seq(S), NEW r, \E i \in DOMAIN s : s[i] = r
  PROVE  RemoveId(s, r) \in Seq(S)
<1> DEFINE k == CHOOSE i \in DOMAIN s : s[i] = r
<1>1. k \in DOMAIN s
  OBVIOUS
<1>2. RemoveId(s, r) = SubSeq(s, 1, k - 1) \o SubSeq(s, k + 1, Len(s))
  BY DEF RemoveId
<1> HIDE DEF k
<1> QED
  BY <1>1, <1>2

LEMMA UnregisterType ==
  ASSUME NEW r, registry \in Seq(Request), Unregister(r)
  PROVE  registry' \in Seq(Request)
<1>1. CASE r \in Registered
  <2>1. \E i \in DOMAIN registry : registry[i] = r
    BY <1>1 DEF Registered
  <2> QED
    BY <1>1, <2>1, RemoveIdType DEF Unregister
<1> QED
  BY <1>1 DEF Unregister

-------------------------------------------------------------------------------
(* The ids stay ids.                                                       *)

LEMMA ScanClassType ==
  ASSUME scan \in 1 .. 7
  PROVE  ScanClass \in Class
  BY DEF ScanClass, ScanOrder, Class

LEMMA HandsDiffer ==
  /\ Nothing # ASlot
  /\ Nothing.kind # "permit" /\ ASlot.kind # "permit"
  /\ \A r : /\ APermit(r) # ASlot /\ APermit(r) # Nothing
            /\ APermit(r).kind = "permit" /\ APermit(r).request = r
  BY DEF Nothing, ASlot, APermit

LEMMA NextClassType ==
  ASSUME scan \in 0 .. 7, NextClass
  PROVE  scan' \in 0 .. 7
  BY DEF NextClass, ScanOrder

LEMMA IdsPreserved ==
  ASSUME IdsOK, [Next]_vars
  PROVE  IdsOK'
<1> USE DEF IdsOK
<1>1. ASSUME NEW r \in Request, Progress(r) \/ Disturb(r) \/ Age(r)
      PROVE  IdsOK'
  <2>0. UNCHANGED dispatcher
    BY <1>1 DEF Progress, Disturb, Age, FastPath, FastPathFails, SelectVictim,
      MarkPreempted, FireCancel, PollSlot, BudgetSpent, Kick, ReceivePermit, Reap,
      FreeSlot, NotifyRelease, AbandonPoll, CancelToken, Acquire, Enqueue,
      RegisterInflight, GiveUp, Respond, FirstFrame, DropPermit
  <2>a. UNCHANGED <<scan, hand>>
    BY <2>0 DEF dispatcher
  <2>1. CASE Enqueue(r)
    <3>1. ClassOf[r] \in Class
      BY PrioritySchedulerAssumption
    <3>2. /\ \/ UNCHANGED queue
             \/ queue' = [queue EXCEPT ![ClassOf[r]] = Append(queue[ClassOf[r]], r)]
          /\ UNCHANGED registry
      BY <2>1 DEF Enqueue, handles
    <3>3. Append(queue[ClassOf[r]], r) \in Seq(Request)
      BY <3>1
    <3>4. queue' \in [Class -> Seq(Request)]
      BY <3>2, <3>3
    <3> QED
      BY <3>2, <3>4, <2>a
  <2>2. CASE RegisterInflight(r)
    BY <2>2, <2>a DEF RegisterInflight, Register, waiters
  <2>3. CASE GiveUp(r)
    BY <2>3, <2>a, UnregisterType DEF GiveUp
  <2>4. CASE \E header \in BOOLEAN : Respond(r, header)
    BY <2>4, <2>a, UnregisterType DEF Respond, waiters
  <2>5. CASE FirstFrame(r)
    BY <2>5, <2>a, UnregisterType DEF FirstFrame, waiters
  <2>6. CASE DropPermit(r)
    BY <2>6, <2>a, UnregisterType DEF DropPermit, waiters
  <2>7. CASE UNCHANGED <<queue, registry>>
    BY <2>7, <2>a
  <2>8. \/ Enqueue(r) \/ RegisterInflight(r) \/ GiveUp(r) \/ FirstFrame(r)
        \/ DropPermit(r) \/ (\E header \in BOOLEAN : Respond(r, header))
        \/ UNCHANGED <<queue, registry>>
    BY <1>1 DEF Progress, Disturb, Age, FastPath, FastPathFails, SelectVictim,
      MarkPreempted, FireCancel, PollSlot, BudgetSpent, Kick, ReceivePermit, Reap,
      FreeSlot, NotifyRelease, AbandonPoll, CancelToken, Acquire, handles, waiters
  <2> QED
    BY <2>1, <2>2, <2>3, <2>4, <2>5, <2>6, <2>7, <2>8
<1>2. CASE Scan
  <2> DEFINE q == DropLeading(queue[ScanClass], {r \in Request : IsCancelled(r)})
  <2>1. queue' = [queue EXCEPT ![ScanClass] = q] /\ UNCHANGED registry
    BY <1>2 DEF Scan, handles
  <2>2. ScanClass \in Class
    BY <1>2, ScanClassType DEF Scan
  <2>3. q \in Seq(Request)
    BY <2>2, DropLeadingType
  <2>4. scan' \in 0 .. 7 /\ (hand' # Nothing => scan' # 0)
    BY <1>2, NextClassType, HandsDiffer DEF Scan
  <2> HIDE DEF q
  <2> QED
    BY <2>1, <2>2, <2>3, <2>4
<1>3. CASE SendToHead
  <2> DEFINE q == DropLeading(queue[ScanClass], closed)
  <2>0. scan' \in 0 .. 7 /\ (hand' # Nothing => scan' # 0)
    BY <1>3, NextClassType, HandsDiffer DEF SendToHead
  <2>1. CASE q = << >>
    <3>1. queue' = [queue EXCEPT ![ScanClass] = << >>] /\ UNCHANGED registry
      BY <1>3, <2>1 DEF SendToHead
    <3>2. << >> \in Seq(Request)
      OBVIOUS
    <3>3. queue' \in [Class -> Seq(Request)]
      BY <3>1, <3>2
    <3> QED
      BY <3>1, <3>3, <2>0
  <2>2. CASE q # << >>
    <3>1. /\ queue' = [queue EXCEPT ![ScanClass] = Tail(q)]
          /\ registry' = Append(registry, Head(q))
      BY <1>3, <2>2 DEF SendToHead, Register
    <3>2. ScanClass \in Class
      BY <1>3, ScanClassType, HandsDiffer DEF SendToHead
    <3>3. q \in Seq(Request)
      BY <3>2, DropLeadingType
    <3> HIDE DEF q
    <3>4. Tail(q) \in Seq(Request) /\ Head(q) \in Request
      BY <3>3, <2>2
    <3>5. queue' \in [Class -> Seq(Request)]
      BY <3>1, <3>4
    <3>6. registry' \in Seq(Request)
      BY <3>1, <3>4
    <3> QED
      BY <3>5, <3>6, <2>0
  <2> QED
    BY <2>1, <2>2
<1>4. CASE Deliver
  <2>1. registry' \in Seq(Request) /\ UNCHANGED queue
    BY <1>4, UnregisterType DEF Deliver
  <2>2. scan' \in 0 .. 7 /\ hand' = Nothing
    BY <1>4 DEF Deliver
  <2> QED
    BY <2>1, <2>2
<1>5. CASE Wake \/ Tick \/ (\E new \in Capacities : ApplyNewCapacity(new)) \/ UNCHANGED vars
  BY <1>5 DEF Wake, Tick, ApplyNewCapacity, vars, handles, waiters, dispatcher
<1> QED
  BY <1>1, <1>2, <1>3, <1>4, <1>5 DEF Next, Dispatch

-------------------------------------------------------------------------------
(* The race.                                                               *)

LEMMA SelectedIsRequest ==
  ASSUME RaceInv, NEW r \in Request, SelectVictim(r)
  PROVE  \/ pc'[r] # "mark" /\ UNCHANGED victim
         \/ \E v \in Request : victim' = [victim EXCEPT ![r] = v]
<1>1. \A i \in DOMAIN registry : registry[i] \in Request
  BY DEF RaceInv, IdsOK
<1> QED
  BY <1>1 DEF SelectVictim, Goto, RaceInv, RaceTypes

LEMMA ProgressRace ==
  ASSUME RaceInv, IdsOK', NEW r \in Request, Progress(r)
  PROVE  RaceInv'
<1> USE DEF RaceInv, RaceTypes, Locations
<1>1. CASE SelectVictim(r)
  <2>1. firstByte' = firstByte /\ fired' = fired
    BY <1>1 DEF SelectVictim, handles
  <2>2. \E l \in {"over", "enqueue", "mark"} : pc' = [pc EXCEPT ![r] = l]
    BY <1>1 DEF SelectVictim, Goto
  <2> QED
    BY <1>1, <2>1, <2>2, SelectedIsRequest
<1>2. CASE MarkPreempted(r)
  BY <1>2 DEF MarkPreempted, Goto
<1>3. CASE FireCancel(r)
  BY <1>3 DEF FireCancel, Goto
<1>4. CASE FirstFrame(r)
  BY <1>4 DEF FirstFrame, Goto
<1>5. CASE FastPath(r) \/ PollSlot(r) \/ FastPathFails(r) \/ BudgetSpent(r)
  BY <1>5 DEF FastPath, PollSlot, FastPathFails, BudgetSpent, Acquire, Goto, handles
<1>6. CASE RegisterInflight(r) \/ Enqueue(r) \/ Kick(r) \/ ReceivePermit(r)
  BY <1>6 DEF RegisterInflight, Enqueue, Kick, ReceivePermit, Goto, handles
<1>7. CASE Reap(r) \/ DropPermit(r) \/ FreeSlot(r) \/ NotifyRelease(r)
  BY <1>7 DEF Reap, DropPermit, FreeSlot, NotifyRelease, Goto, handles
<1> QED
  BY <1>1, <1>2, <1>3, <1>4, <1>5, <1>6, <1>7 DEF Progress

LEMMA DisturbRace ==
  ASSUME RaceInv, IdsOK', NEW r \in Request, Disturb(r) \/ Age(r)
  PROVE  RaceInv'
<1> USE DEF RaceInv, RaceTypes, Locations
<1>1. CASE AbandonPoll(r) \/ GiveUp(r)
  BY <1>1 DEF AbandonPoll, GiveUp, Goto, handles
<1>2. CASE CancelToken(r) \/ Age(r)
  BY <1>2 DEF CancelToken, Age, handles
<1>3. CASE \E header \in BOOLEAN : Respond(r, header)
  BY <1>3 DEF Respond, Goto
<1> QED
  BY <1>1, <1>2, <1>3 DEF Disturb

LEMMA RaceInitial == Init => RaceInv
<1> SUFFICES ASSUME Init PROVE RaceInv
  OBVIOUS
<1>1. queue \in [Class -> Seq(Request)] /\ registry \in Seq(Request)
  BY DEF Init
<1>2. scan \in 0 .. 7 /\ hand = Nothing
  BY DEF Init
<1> QED
  BY <1>1, <1>2 DEF Init, RaceInv, IdsOK, RaceTypes, Locations

LEMMA RacePreserved == RaceInv /\ [Next]_vars => RaceInv'
<1> SUFFICES ASSUME RaceInv, [Next]_vars PROVE RaceInv'
  OBVIOUS
<1>1. IdsOK'
  BY IdsPreserved DEF RaceInv
<1>2. CASE \E r \in Request : Progress(r) \/ Disturb(r) \/ Age(r)
  BY <1>1, <1>2, ProgressRace, DisturbRace
<1>3. CASE Dispatch \/ Tick \/ (\E new \in Capacities : ApplyNewCapacity(new))
           \/ UNCHANGED vars
  <2>1. UNCHANGED <<pc, victim, firstByte, fired>>
    BY <1>3 DEF Dispatch, Wake, Scan, SendToHead, Deliver, Tick, ApplyNewCapacity,
      vars, handles
  <2> QED
    BY <1>1, <2>1 DEF RaceInv, RaceTypes
<1> QED
  BY <1>2, <1>3 DEF Next

(* For any number of requests and of preemptors racing for them, a request *)
(* whose cancel token fired, or that try_mark_preempted has marked, never  *)
(* streams: its first data frame finds the mark and ends the body.         *)
THEOREM FirstByteRaceHasOneWinner == Spec => []PreemptedNeverStreams
<1>1. RaceInv => PreemptedNeverStreams
  BY DEF RaceInv, PreemptedNeverStreams
<1> QED
  BY <1>1, RaceInitial, RacePreserved, PTL DEF Spec

-------------------------------------------------------------------------------
(* Sequences of distinct ids, as the sets they list.                       *)

Ids(s) == {s[i] : i \in DOMAIN s}

Distinct(s) == \A i, j \in DOMAIN s : s[i] = s[j] => i = j

LEMMA AppendIds ==
  ASSUME NEW S, NEW s \in Seq(S), NEW x \in S
  PROVE  /\ Append(s, x) \in Seq(S)
         /\ Ids(Append(s, x)) = Ids(s) \cup {x}
         /\ Distinct(s) /\ x \notin Ids(s) => Distinct(Append(s, x))
<1> DEFINE t == Append(s, x)
<1>1. /\ t \in Seq(S) /\ Len(t) = Len(s) + 1 /\ t[Len(s) + 1] = x
      /\ \A i \in 1 .. Len(s) : t[i] = s[i]
  OBVIOUS
<1>2. DOMAIN s = 1 .. Len(s) /\ DOMAIN t = 1 .. Len(s) + 1 /\ Len(s) \in Nat
  BY <1>1
<1> HIDE DEF t
<1>3. Ids(t) = Ids(s) \cup {x}
  BY <1>1, <1>2 DEF Ids
<1>4. Distinct(s) /\ x \notin Ids(s) => Distinct(t)
  BY <1>1, <1>2 DEF Ids, Distinct
<1> QED
  BY <1>1, <1>3, <1>4 DEF t

(* Without its head, a queue of distinct ids has every id but that one.    *)
LEMMA TailIds ==
  ASSUME NEW S, NEW s \in Seq(S), s # << >>, Distinct(s)
  PROVE  /\ Tail(s) \in Seq(S) /\ Head(s) \in Ids(s)
         /\ Ids(Tail(s)) = Ids(s) \ {Head(s)}
         /\ Distinct(Tail(s))
<1> DEFINE t == Tail(s)
<1>1. /\ t \in Seq(S) /\ Len(t) = Len(s) - 1 /\ Len(s) \in Nat /\ Len(s) > 0
      /\ \A i \in 1 .. Len(s) - 1 : t[i] = s[i + 1]
      /\ Head(s) = s[1]
  OBVIOUS
<1>2. DOMAIN s = 1 .. Len(s) /\ DOMAIN t = 1 .. Len(s) - 1
  BY <1>1
<1> HIDE DEF t
<1>3. Head(s) \in Ids(s)
  BY <1>1, <1>2 DEF Ids
<1>4. ASSUME NEW x \in Ids(t)
      PROVE  x \in Ids(s) \ {Head(s)}
  <2>1. PICK i \in 1 .. Len(s) - 1 : x = s[i + 1]
    BY <1>1, <1>2, <1>4 DEF Ids
  <2>2. i + 1 \in DOMAIN s /\ 1 \in DOMAIN s /\ i + 1 # 1
    BY <1>1, <1>2
  <2> QED
    BY <1>1, <2>1, <2>2 DEF Ids, Distinct
<1>5. ASSUME NEW x \in Ids(s), x # Head(s)
      PROVE  x \in Ids(t)
  <2>1. PICK i \in 1 .. Len(s) : x = s[i]
    BY <1>2, <1>5 DEF Ids
  <2>2. i - 1 \in DOMAIN t /\ t[i - 1] = s[i]
    BY <1>1, <1>2, <1>5, <2>1
  <2> QED
    BY <2>1, <2>2 DEF Ids
<1>6. ASSUME NEW i \in DOMAIN t, NEW j \in DOMAIN t, t[i] = t[j]
      PROVE  i = j
  <2>1. i + 1 \in DOMAIN s /\ j + 1 \in DOMAIN s /\ s[i + 1] = s[j + 1]
    BY <1>1, <1>2, <1>6
  <2>2. i + 1 = j + 1
    BY <2>1 DEF Distinct
  <2> QED
    BY <1>1, <1>2, <2>2
<1> QED
  BY <1>1, <1>3, <1>4, <1>5, <1>6 DEF Distinct, t

(* Dropping the leading dead waiters keeps the live ones, and the new head *)
(* is live.                                                                *)
LEMMA DropLeadingIds ==
  ASSUME NEW S, NEW s \in Seq(S), NEW d, Distinct(s)
  PROVE  LET q == DropLeading(s, d) IN
         /\ q \in Seq(S)
         /\ Ids(q) \subseteq Ids(s)
         /\ Distinct(q)
         /\ q # << >> => Head(q) \notin d
<1> DEFINE live == {i \in DOMAIN s : s[i] \notin d}
           k == CHOOSE i \in live : \A j \in live : i <= j
           q == DropLeading(s, d)
<1>0. q \in Seq(S)
  BY DropLeadingType
<1>1. CASE live = {}
  <2>1. q = << >>
    BY <1>1 DEF DropLeading
  <2> QED
    BY <1>0, <2>1 DEF Ids, Distinct
<1>2. CASE live # {}
  <2>1. q = SubSeq(s, k, Len(s))
    BY <1>2 DEF DropLeading
  <2>2. live \in SUBSET Nat
    OBVIOUS
  <2>3. \E x \in live : \A y \in live : x <= y
    BY <2>2, <1>2, LeastElement
  <2>4. k \in live
    BY <2>3
  <2>5. k \in 1 .. Len(s) /\ s[k] \notin d /\ DOMAIN s = 1 .. Len(s) /\ Len(s) \in Nat
    BY <2>4
  <2> HIDE DEF k, q
  <2>6. /\ Len(q) = Len(s) - k + 1
        /\ \A i \in 1 .. Len(s) - k + 1 : q[i] = s[k + i - 1]
    BY <2>1, <2>5
  <2>7. DOMAIN q = 1 .. Len(s) - k + 1
    BY <1>0, <2>6
  <2>8. \A i \in DOMAIN q : k + i - 1 \in DOMAIN s /\ q[i] = s[k + i - 1]
    BY <2>5, <2>6, <2>7
  <2>9. Ids(q) \subseteq Ids(s)
    BY <2>8 DEF Ids
  <2>10. ASSUME NEW i \in DOMAIN q, NEW j \in DOMAIN q, q[i] = q[j]
         PROVE  i = j
    <3>1. k + i - 1 = k + j - 1
      BY <2>8, <2>10 DEF Distinct
    <3> QED
      BY <2>5, <2>7, <3>1
  <2>11. Head(q) = s[k]
    <3>1. q # << >> /\ 1 \in DOMAIN q
      BY <1>0, <2>5, <2>6, <2>7
    <3> QED
      BY <1>0, <2>5, <2>8, <3>1
  <2> QED
    BY <1>0, <2>5, <2>9, <2>10, <2>11 DEF Distinct, q
<1> QED
  BY <1>1, <1>2

(* A sequence without its k-th element.                                    *)
LEMMA CutOne ==
  ASSUME NEW S, NEW s \in Seq(S), NEW k \in 1 .. Len(s)
  PROVE  LET t == SubSeq(s, 1, k - 1) \o SubSeq(s, k + 1, Len(s)) IN
         /\ Len(t) = Len(s) - 1
         /\ \A i \in 1 .. Len(s) - 1 : t[i] = IF i < k THEN s[i] ELSE s[i + 1]
<1> DEFINE a == SubSeq(s, 1, k - 1)
           b == SubSeq(s, k + 1, Len(s))
           n == Len(s)
<1>0. n \in Nat /\ k \in Nat /\ 1 <= k /\ k <= n
  OBVIOUS
<1>1. a \in Seq(S) /\ Len(a) = k - 1 /\ \A i \in 1 .. k - 1 : a[i] = s[i]
  BY <1>0
<1>2. b \in Seq(S)
  BY <1>0
<1>3. Len(b) = n - k
  <2>1. CASE k < n
    BY <1>0, <2>1
  <2>2. CASE k = n
    BY <1>0, <2>2
  <2> HIDE DEF n, b
  <2> QED
    BY <1>0, <2>1, <2>2
<1>4. \A i \in 1 .. n - k : b[i] = s[k + i]
  BY <1>0
<1> HIDE DEF a, b, n
<1>5. /\ Len(a \o b) = Len(a) + Len(b)
      /\ \A i \in 1 .. Len(a) + Len(b) :
           (a \o b)[i] = IF i <= Len(a) THEN a[i] ELSE b[i - Len(a)]
  BY <1>1, <1>2
<1>6. Len(a \o b) = n - 1
  BY <1>0, <1>1, <1>3, <1>5
<1>7. ASSUME NEW i \in 1 .. n - 1
      PROVE  (a \o b)[i] = IF i < k THEN s[i] ELSE s[i + 1]
  <2>1. CASE i < k
    BY <1>0, <1>1, <1>3, <1>5, <2>1
  <2>2. CASE ~(i < k)
    <3>1. i - (k - 1) \in 1 .. n - k /\ k + (i - (k - 1)) = i + 1
      BY <1>0, <2>2
    <3>2. (a \o b)[i] = b[i - (k - 1)]
      BY <1>0, <1>1, <1>3, <1>5, <2>2
    <3> QED
      BY <1>4, <2>2, <3>1, <3>2
  <2> QED
    BY <2>1, <2>2
<1> QED
  BY <1>6, <1>7 DEF a, b, n

(* Removing one id of distinct ones removes it from the set.               *)
LEMMA RemoveIdIds ==
  ASSUME NEW S, NEW s \in Seq(S), NEW r, r \in Ids(s), Distinct(s)
  PROVE  /\ RemoveId(s, r) \in Seq(S)
         /\ Ids(RemoveId(s, r)) = Ids(s) \ {r}
         /\ Distinct(RemoveId(s, r))
<1> DEFINE k == CHOOSE i \in DOMAIN s : s[i] = r
           t == RemoveId(s, r)
<1>1. \E i \in DOMAIN s : s[i] = r
  BY DEF Ids
<1>2. k \in DOMAIN s /\ s[k] = r
  BY <1>1
<1>3. t = SubSeq(s, 1, k - 1) \o SubSeq(s, k + 1, Len(s))
  BY DEF RemoveId
<1>4. t \in Seq(S)
  BY <1>1, RemoveIdType
<1> HIDE DEF k, t
<1>5. k \in 1 .. Len(s) /\ Len(s) \in Nat /\ DOMAIN s = 1 .. Len(s)
  BY <1>2
<1>6. /\ Len(t) = Len(s) - 1
      /\ \A i \in 1 .. Len(s) - 1 : t[i] = IF i < k THEN s[i] ELSE s[i + 1]
  BY <1>3, <1>5, CutOne
<1>7. DOMAIN t = 1 .. Len(s) - 1
  BY <1>4, <1>6
<1>8. ASSUME NEW x \in Ids(t)
      PROVE  x \in Ids(s) \ {r}
  <2>1. PICK i \in DOMAIN t : x = t[i]
    BY <1>8 DEF Ids
  <2>2. \E j \in DOMAIN s : j # k /\ x = s[j]
    BY <1>5, <1>6, <1>7, <2>1
  <2> QED
    BY <1>2, <2>2 DEF Ids, Distinct
<1>9. ASSUME NEW x \in Ids(s), x # r
      PROVE  x \in Ids(t)
  <2>1. PICK i \in 1 .. Len(s) : x = s[i] /\ i # k
    BY <1>2, <1>5, <1>9 DEF Ids
  <2>2. CASE i < k
    <3>1. i \in DOMAIN t /\ t[i] = x
      BY <1>5, <1>6, <1>7, <2>1, <2>2
    <3> QED
      BY <3>1 DEF Ids
  <2>3. CASE i > k
    <3>1. i - 1 \in DOMAIN t /\ t[i - 1] = x
      BY <1>5, <1>6, <1>7, <2>1, <2>3
    <3> QED
      BY <3>1 DEF Ids
  <2> QED
    BY <1>5, <2>1, <2>2, <2>3
<1>10. ASSUME NEW i \in DOMAIN t, NEW j \in DOMAIN t, t[i] = t[j]
       PROVE  i = j
  <2> DEFINE at(n) == IF n < k THEN n ELSE n + 1
  <2>1. at(i) \in DOMAIN s /\ at(j) \in DOMAIN s /\ s[at(i)] = s[at(j)]
    BY <1>5, <1>6, <1>7, <1>10
  <2>2. at(i) = at(j)
    BY <2>1 DEF Distinct
  <2> QED
    BY <1>5, <1>7, <2>2
<1> QED
  BY <1>4, <1>8, <1>9, <1>10 DEF Distinct, t

(* As many ids as places.                                                  *)
LEMMA DistinctCount ==
  ASSUME NEW S, NEW s \in Seq(S), Distinct(s)
  PROVE  Cardinality(Ids(s)) = Len(s)
<1>1. Len(s) \in Nat /\ DOMAIN s = 1 .. Len(s) /\ s \in [1 .. Len(s) -> Ids(s)]
  BY DEF Ids
<1>2. s \in Bijection(1 .. Len(s), Ids(s))
  <2>1. s \in Injection(1 .. Len(s), Ids(s))
    BY <1>1 DEF Injection, IsInjective, Distinct
  <2>2. s \in Surjection(1 .. Len(s), Ids(s))
    BY <1>1 DEF Surjection, Ids
  <2> QED
    BY <2>1, <2>2 DEF Bijection
<1>3. ExistsBijection(1 .. Len(s), Ids(s))
  BY <1>2 DEF ExistsBijection
<1> QED
  BY <1>1, <1>3, FS_CountingElements

-------------------------------------------------------------------------------
(* Types.                                                                  *)

TypeInv == RaceInv /\ TypeOK

LEMMA ClassOfType == \A r \in Request : ClassOf[r] \in Class
  BY PrioritySchedulerAssumption

LEMMA ScanLength == Len(ScanOrder) = 7
  BY DEF ScanOrder

(* Taking a slot that there is room for overflows no lane; returning one   *)
(* never goes below zero.                                                  *)
LEMMA SlotTypes ==
  ASSUME TypeOK, NEW c \in Class
  PROVE  /\ TakeSlot(c) /\ (Headroom(c) > 0 \/ FreeSlots > 0) => inflight' \in [Class -> U16]
         /\ ReturnSlot(c) => inflight' \in [Class -> U16]
<1>1. /\ inflight \in [Class -> U16] /\ reserved \in [Class -> Nat] /\ capacity \in U16
  BY U16Facts DEF TypeOK
<1>2. ASSUME Headroom(c) > 0 \/ FreeSlots > 0
      PROVE  inflight[c] + 1 \in U16
  BY <1>1, <1>2, RoomMeansNotFull DEF Headroom, FreeSlots
<1>3. SatSub(inflight[c], 1) \in U16
  BY <1>1, U16Facts DEF SatSub
<1> QED
  BY <1>1, <1>2, <1>3 DEF TakeSlot, ReturnSlot

LEMMA PoolTypes ==
  ASSUME TypeOK, TypeInv, [Next]_vars
  PROVE  capacity' \in U16 /\ reserved' \in [Class -> U16] /\ inflight' \in [Class -> U16]
<1>0. capacity \in U16 /\ reserved \in [Class -> U16] /\ inflight \in [Class -> U16]
  BY DEF TypeOK
<1>1. ASSUME NEW r \in Request, Progress(r) \/ Disturb(r) \/ Age(r)
      PROVE  UNCHANGED <<capacity, reserved>> /\ inflight' \in [Class -> U16]
  <2>1. CASE FastPath(r) \/ PollSlot(r)
    BY <2>1, SlotTypes, ClassOfType DEF FastPath, PollSlot, Acquire
  <2>2. CASE FreeSlot(r)
    BY <2>2, SlotTypes, ClassOfType DEF FreeSlot
  <2>3. CASE UNCHANGED pool
    BY <1>0, <2>3 DEF pool
  <2>4. FastPath(r) \/ PollSlot(r) \/ FreeSlot(r) \/ UNCHANGED pool
    BY <1>1 DEF Progress, Disturb, Age, FastPathFails, SelectVictim, MarkPreempted,
      FireCancel, BudgetSpent, RegisterInflight, Enqueue, Kick, ReceivePermit, Reap,
      FirstFrame, DropPermit, NotifyRelease, AbandonPoll, GiveUp, CancelToken, Respond
  <2> QED
    BY <2>1, <2>2, <2>3, <2>4
<1>2. CASE Scan
  <2>1. ScanClass \in Class
    BY <1>2, ScanClassType DEF Scan, TypeInv, RaceInv, IdsOK
  <2> QED
    BY <1>0, <1>2, <2>1, SlotTypes DEF Scan
<1>3. CASE SendToHead
  <2>1. ScanClass \in Class
    BY <1>3, ScanClassType, HandsDiffer DEF SendToHead, TypeInv, RaceInv, IdsOK
  <2> QED
    BY <1>0, <1>3, <2>1, SlotTypes DEF SendToHead
<1>4. CASE Deliver
  <2>1. hand.request \in Request
    BY <1>4, HandsDiffer DEF Deliver, TypeOK
  <2> QED
    BY <1>0, <1>4, <2>1, SlotTypes, ClassOfType DEF Deliver
<1>5. ASSUME NEW new \in Capacities, ApplyNewCapacity(new)
      PROVE  capacity' \in U16 /\ reserved' \in [Class -> U16] /\ inflight' \in [Class -> U16]
  <2>1. new \in U16 /\ Floor \in [Class -> Nat]
        /\ Share \in [Class -> [num : Nat, den : Nat \ {0}]]
    BY PrioritySchedulerAssumption, U16Facts
  <2>2. ReservationsAt(Floor, Share, new) \in [Class -> U16]
    BY <2>1, ReservationsAtFacts
  <2> QED
    BY <1>0, <1>5, <2>1, <2>2 DEF ApplyNewCapacity
<1>6. CASE Wake \/ Tick \/ UNCHANGED vars
  BY <1>0, <1>6 DEF Wake, Tick, vars, pool
<1> QED
  BY <1>0, <1>1, <1>2, <1>3, <1>4, <1>5, <1>6 DEF Next, Dispatch

(* What the dispatcher holds, and the sets of requests.                    *)
LEMMA HandTypes ==
  ASSUME TypeInv, [Next]_vars
  PROVE  hand' \in {Nothing, ASlot} \cup {APermit(r) : r \in Request}
<1>0. hand \in {Nothing, ASlot} \cup {APermit(r) : r \in Request}
  BY DEF TypeInv, TypeOK
<1>1. CASE SendToHead
  <2> DEFINE q == DropLeading(queue[ScanClass], closed)
  <2>1. q \in Seq(Request)
    BY <1>1, ScanClassType, DropLeadingType, HandsDiffer
    DEF SendToHead, TypeInv, RaceInv, IdsOK
  <2>2. hand' = Nothing \/ (q # << >> /\ hand' = APermit(Head(q)))
    BY <1>1 DEF SendToHead
  <2> HIDE DEF q
  <2>3. q # << >> => Head(q) \in Request
    BY <2>1
  <2> QED
    BY <2>2, <2>3
<1>2. CASE Scan \/ Deliver
  BY <1>0, <1>2 DEF Scan, Deliver
<1>3. CASE UNCHANGED hand
  BY <1>0, <1>3
<1>4. SendToHead \/ Scan \/ Deliver \/ UNCHANGED hand
  BY DEF Next, Dispatch, Wake, Tick, ApplyNewCapacity, vars, dispatcher, Progress,
    Disturb, Age, FastPath, PollSlot, Acquire, FreeSlot, FastPathFails, SelectVictim,
    MarkPreempted, FireCancel, BudgetSpent, RegisterInflight, Enqueue, Kick,
    ReceivePermit, Reap, FirstFrame, DropPermit, NotifyRelease, AbandonPoll, GiveUp,
    CancelToken, Respond
<1> QED
  BY <1>1, <1>2, <1>3, <1>4

LEMMA FlagTypes ==
  ASSUME TypeInv, [Next]_vars
  PROVE  /\ fired' \subseteq Request /\ cancelled' \subseteq Request
         /\ closed' \subseteq Request /\ reaped' \subseteq Request
         /\ delivered' \subseteq Request /\ aged' \subseteq Request
         /\ notified' \in BOOLEAN
<1> USE DEF TypeInv, TypeOK, waiters, handles
<1>1. ASSUME NEW r \in Request, Progress(r)
      PROVE  /\ fired' \subseteq Request /\ UNCHANGED cancelled
             /\ closed' \subseteq Request /\ reaped' \subseteq Request
             /\ delivered' \subseteq Request /\ UNCHANGED aged
             /\ notified' \in BOOLEAN
  <2>1. CASE FireCancel(r)
    BY <2>1 DEF FireCancel, RaceInv
  <2>2. CASE ReceivePermit(r) \/ Reap(r) \/ Kick(r) \/ NotifyRelease(r)
    BY <2>2 DEF ReceivePermit, Reap, Kick, NotifyRelease
  <2>3. CASE UNCHANGED <<fired, cancelled, closed, reaped, delivered, aged, notified>>
    BY <2>3
  <2>4. \/ FireCancel(r) \/ ReceivePermit(r) \/ Reap(r) \/ Kick(r) \/ NotifyRelease(r)
        \/ UNCHANGED <<fired, cancelled, closed, reaped, delivered, aged, notified>>
    BY <1>1 DEF Progress, FastPath, PollSlot, Acquire, FreeSlot, FastPathFails,
      SelectVictim, MarkPreempted, BudgetSpent, RegisterInflight, Enqueue, FirstFrame,
      DropPermit
  <2> QED
    BY <2>1, <2>2, <2>3, <2>4
<1>2. ASSUME NEW r \in Request, Disturb(r) \/ Age(r)
      PROVE  /\ fired' \subseteq Request /\ cancelled' \subseteq Request
             /\ closed' \subseteq Request /\ UNCHANGED reaped
             /\ delivered' \subseteq Request /\ aged' \subseteq Request
             /\ UNCHANGED notified
  BY <1>2 DEF Disturb, Age, AbandonPoll, GiveUp, CancelToken, Respond
<1>3. CASE Deliver
  <2>1. hand.request \in Request
    BY <1>3, HandsDiffer DEF Deliver
  <2> QED
    BY <1>3, <2>1 DEF Deliver
<1>4. CASE Scan \/ SendToHead
  BY <1>4 DEF Scan, SendToHead
<1>5. CASE Wake \/ Tick \/ (\E new \in Capacities : ApplyNewCapacity(new)) \/ UNCHANGED vars
  BY <1>5 DEF Wake, Tick, ApplyNewCapacity, vars
<1> QED
  BY <1>1, <1>2, <1>3, <1>4, <1>5 DEF Next, Dispatch

LEMMA TypeInitial == Init => TypeInv
<1> SUFFICES ASSUME Init PROVE TypeOK
  BY RaceInitial DEF TypeInv
<1>1. RaceInv
  BY RaceInitial
<1>2. FirstCapacity \in U16 /\ FirstCapacity \in Nat /\ Floor \in [Class -> Nat]
      /\ Share \in [Class -> [num : Nat, den : Nat \ {0}]]
  BY PrioritySchedulerAssumption, U16Facts
<1>3. DesiredReservations(Floor, Share, FirstCapacity) \in [Class -> 0 .. FirstCapacity]
  BY <1>2, DesiredFacts
<1>4. reserved \in [Class -> U16] /\ inflight \in [Class -> U16]
  BY <1>2, <1>3, U16Facts DEF Init
<1> QED
  BY <1>1, <1>2, <1>4, ScanLength DEF Init, TypeOK, RaceInv, RaceTypes, IdsOK

LEMMA TypePreserved == TypeInv /\ [Next]_vars => TypeInv'
<1> SUFFICES ASSUME TypeInv, [Next]_vars PROVE TypeInv'
  OBVIOUS
<1>1. RaceInv'
  BY RacePreserved DEF TypeInv
<1>2. capacity' \in U16 /\ reserved' \in [Class -> U16] /\ inflight' \in [Class -> U16]
  BY PoolTypes DEF TypeInv
<1> QED
  BY <1>1, <1>2, HandTypes, FlagTypes, ScanLength
  DEF TypeInv, TypeOK, RaceInv, RaceTypes, IdsOK

(* The admission engine's state has its types: no lane of the packed       *)
(* counts overflows its u16, and queues, registry and hand-offs never name *)
(* anything but a request, whatever races.                                 *)
THEOREM AdmissionTypeCorrect == Spec => []TypeOK
<1>1. TypeInv => TypeOK
  BY DEF TypeInv
<1> QED
  BY <1>1, TypeInitial, TypePreserved, PTL DEF Spec

-------------------------------------------------------------------------------
(* Waiters.                                                                *)

(* A class's queue lists requests of that class, each once.                *)
QueueInv ==
  \A c \in Class : /\ Distinct(queue[c])
                   /\ \A x \in Ids(queue[c]) : ClassOf[x] = c

(* A waiter is in one place: its queue, the dispatcher's hand or its       *)
(* oneshot, and only while its task is between the enqueue and its end;    *)
(* if the task has left, the receiver is closed, and once it is over the   *)
(* waiter's token is cancelled.                                            *)
WaiterInv ==
  /\ QueueInv
  /\ \A r \in Request : r \in delivered => pc[r] \in {"kick", "waiting"}
  /\ \A r \in Request :
       r \in closed => pc[r] \in WithPermit \cup {"free", "notify", "reap", "over"}
  /\ \A r \in Request : pc[r] = "reap" => r \in closed
  /\ \A r \in Request :
       Queued(r) \/ hand = APermit(r) =>
         /\ r \notin delivered
         /\ pc[r] \in {"kick", "waiting", "reap", "over"}
         /\ pc[r] \in {"reap", "over"} => r \in closed
         /\ pc[r] = "over" => r \in reaped
  /\ \A r \in Request : ~(Queued(r) /\ hand = APermit(r))

LEMMA QueuedIds ==
  /\ \A r \in Request : Queued(r) <=> r \in Ids(queue[ClassOf[r]])
  /\ \A r \in Request : Queued(r)' <=> r \in Ids(queue'[ClassOf[r]])
  BY DEF Queued, Ids

(* A queue that loses waiters stays a queue.                               *)
LEMMA SubQueue ==
  ASSUME TypeInv, QueueInv, NEW c \in Class, NEW q \in Seq(Request),
         Distinct(q), Ids(q) \subseteq Ids(queue[c]),
         queue' = [queue EXCEPT ![c] = q]
  PROVE  /\ QueueInv'
         /\ \A x \in Request :
              Queued(x)' => Queued(x) /\ (ClassOf[x] = c => x \in Ids(q))
<1>1. queue \in [Class -> Seq(Request)]
  BY DEF TypeInv, TypeOK
<1>2. queue'[c] = q /\ \A e \in Class \ {c} : queue'[e] = queue[e]
  BY <1>1
<1>3. QueueInv'
  BY <1>2 DEF QueueInv
<1> QED
  BY <1>2, <1>3, QueuedIds, ClassOfType

(* try_enqueue lists the request once.                                     *)
LEMMA EnqueueQueue ==
  ASSUME TypeInv, WaiterInv, NEW r \in Request, Enqueue(r)
  PROVE  /\ QueueInv'
         /\ \A x \in Request : Queued(x)' => Queued(x) \/ (x = r /\ pc'[r] = "kick")
<1> DEFINE c == ClassOf[r]
<1>0. c \in Class /\ queue \in [Class -> Seq(Request)]
  BY ClassOfType DEF TypeInv, TypeOK
<1>1. r \notin Ids(queue[c]) /\ QueueInv
  BY QueuedIds DEF WaiterInv, Enqueue
<1>2. CASE UNCHANGED queue
  BY <1>1, <1>2, QueuedIds DEF QueueInv
<1>3. CASE /\ queue' = [queue EXCEPT ![c] = Append(queue[c], r)]
           /\ pc' = [pc EXCEPT ![r] = "kick"]
  <2> DEFINE q == Append(queue[c], r)
  <2>1. Distinct(q) /\ Ids(q) = Ids(queue[c]) \cup {r}
    BY <1>0, <1>1, AppendIds DEF QueueInv
  <2>2. queue'[c] = q /\ \A e \in Class \ {c} : queue'[e] = queue[e]
    BY <1>0, <1>3
  <2>3. pc'[r] = "kick"
    BY <1>3 DEF TypeInv, TypeOK
  <2> HIDE DEF q
  <2>4. QueueInv'
    BY <1>1, <2>1, <2>2 DEF QueueInv
  <2> QED
    BY <2>1, <2>2, <2>3, <2>4, QueuedIds, ClassOfType
<1> QED
  BY <1>2, <1>3 DEF Enqueue, Goto

(* The steps of a request's task and of its client.                        *)
LEMMA TaskWaiters ==
  ASSUME TypeInv, WaiterInv, NEW r \in Request, Progress(r) \/ Disturb(r) \/ Age(r)
  PROVE  WaiterInv'
<1> USE DEF TypeInv, TypeOK, Goto, waiters, dispatcher
<1>0. pc \in [Request -> Locations]
  OBVIOUS
<1>1. CASE Enqueue(r)
  <2>1. /\ UNCHANGED <<delivered, closed, reaped, hand>>
        /\ \E l \in {"over", "kick"} : pc' = [pc EXCEPT ![r] = l]
        /\ pc[r] = "enqueue"
    BY <1>1 DEF Enqueue
  <2>2. /\ QueueInv'
        /\ \A x \in Request : Queued(x)' => Queued(x) \/ (x = r /\ pc'[r] = "kick")
    BY <1>1, EnqueueQueue
  <2> QED
    BY <1>0, <2>1, <2>2 DEF WaiterInv, WithPermit
<1>2. CASE UNCHANGED queue
  <2>1. QueueInv' /\ \A x \in Request : Queued(x)' <=> Queued(x)
    BY <1>2, QueuedIds DEF WaiterInv, QueueInv
  <2>2. UNCHANGED hand
    BY <1>1 DEF Progress, Disturb, Age, FastPath, PollSlot, Acquire, FreeSlot,
      FastPathFails, SelectVictim, MarkPreempted, FireCancel, BudgetSpent,
      RegisterInflight, Enqueue, Kick, ReceivePermit, Reap, FirstFrame, DropPermit,
      NotifyRelease, AbandonPoll, GiveUp, CancelToken, Respond
  <2>3. CASE FastPath(r) \/ PollSlot(r) \/ FastPathFails(r) \/ BudgetSpent(r) \/ AbandonPoll(r)
    <3>1. /\ UNCHANGED <<delivered, closed, reaped>>
          /\ pc[r] \in {"new", "poll"}
          /\ \E l \in {"register", "select", "enqueue", "over"} : pc' = [pc EXCEPT ![r] = l]
      BY <2>3 DEF FastPath, PollSlot, FastPathFails, BudgetSpent, AbandonPoll, Acquire
    <3> QED
      BY <1>0, <2>1, <2>2, <3>1 DEF WaiterInv, WithPermit
  <2>4. CASE SelectVictim(r) \/ MarkPreempted(r) \/ FireCancel(r) \/ RegisterInflight(r)
    <3>1. /\ UNCHANGED <<delivered, closed, reaped>>
          /\ pc[r] \in {"select", "mark", "fire", "register"}
          /\ \E l \in {"over", "enqueue", "mark", "fire", "poll", "handler"} :
               pc' = [pc EXCEPT ![r] = l]
      BY <2>4 DEF SelectVictim, MarkPreempted, FireCancel, RegisterInflight
    <3> QED
      BY <1>0, <2>1, <2>2, <3>1 DEF WaiterInv, WithPermit
  <2>5. CASE \/ FirstFrame(r) \/ DropPermit(r) \/ FreeSlot(r) \/ Kick(r)
             \/ \E header \in BOOLEAN : Respond(r, header)
    <3>1. /\ UNCHANGED <<delivered, closed, reaped>>
          /\ \/ /\ pc[r] \in WithPermit \cup {"free"}
                /\ \E l \in {"streaming", "body", "free", "notify"} : pc' = [pc EXCEPT ![r] = l]
             \/ pc[r] = "kick" /\ pc' = [pc EXCEPT ![r] = "waiting"]
      BY <2>5 DEF FirstFrame, DropPermit, FreeSlot, Kick, Respond, WithPermit
    <3> QED
      BY <1>0, <2>1, <2>2, <3>1 DEF WaiterInv, WithPermit
  <2>6. CASE NotifyRelease(r)
    BY <1>0, <2>1, <2>2, <2>6 DEF NotifyRelease, WaiterInv, WithPermit
  <2>7. CASE ReceivePermit(r)
    BY <1>0, <2>1, <2>2, <2>7 DEF ReceivePermit, WaiterInv, WithPermit
  <2>8. CASE GiveUp(r)
    BY <1>0, <2>1, <2>2, <2>8 DEF GiveUp, WaiterInv, WithPermit
  <2>9. CASE Reap(r)
    BY <1>0, <2>1, <2>2, <2>9 DEF Reap, WaiterInv, WithPermit
  <2>10. CASE CancelToken(r) \/ Age(r)
    <3>1. UNCHANGED <<delivered, closed, reaped, pc>>
      BY <2>10 DEF CancelToken, Age
    <3> QED
      BY <2>1, <2>2, <3>1 DEF WaiterInv
  <2> QED
    BY <1>2, <2>3, <2>4, <2>5, <2>6, <2>7, <2>8, <2>9, <2>10, <1>1 DEF Progress, Disturb
<1>3. Enqueue(r) \/ UNCHANGED queue
  BY DEF Progress, Disturb, Age, FastPath, PollSlot, Acquire, FreeSlot, FastPathFails,
    SelectVictim, MarkPreempted, FireCancel, BudgetSpent, RegisterInflight, Kick,
    ReceivePermit, Reap, FirstFrame, DropPermit, NotifyRelease, AbandonPoll, GiveUp,
    CancelToken, Respond
<1> QED
  BY <1>1, <1>2, <1>3

(* send_to_head takes the head off its queue, whose receiver was open.     *)
LEMMA SendFacts ==
  ASSUME TypeInv, WaiterInv, SendToHead
  PROVE  /\ ScanClass \in Class /\ QueueInv'
         /\ \A x \in Request : Queued(x)' => Queued(x)
         /\ \/ /\ hand' = Nothing
               /\ queue' = [queue EXCEPT ![ScanClass] = << >>]
               /\ ReturnSlot(ScanClass) /\ NextClass /\ UNCHANGED registry
            \/ \E h \in Request : /\ hand' = APermit(h) /\ ClassOf[h] = ScanClass
                                  /\ Queued(h) /\ ~Queued(h)' /\ h \notin closed
                                  /\ registry' = Append(registry, h)
                                  /\ UNCHANGED <<inflight, scan>>
<1> DEFINE c == ScanClass
           q == DropLeading(queue[c], closed)
<1>0. c \in Class /\ queue[c] \in Seq(Request) /\ QueueInv /\ Distinct(queue[c])
  BY ScanClassType, HandsDiffer
  DEF SendToHead, TypeInv, RaceInv, IdsOK, WaiterInv, QueueInv
<1>1. /\ q \in Seq(Request) /\ Ids(q) \subseteq Ids(queue[c]) /\ Distinct(q)
      /\ q # << >> => Head(q) \notin closed
  BY <1>0, DropLeadingIds
<1>2. CASE q = << >>
  <2>1. /\ queue' = [queue EXCEPT ![c] = << >>] /\ hand' = Nothing
        /\ ReturnSlot(c) /\ NextClass /\ UNCHANGED registry
    BY <1>2 DEF SendToHead
  <2>2. << >> \in Seq(Request) /\ Distinct(<< >>) /\ Ids(<< >>) \subseteq Ids(queue[c])
    BY DEF Distinct, Ids
  <2> HIDE DEF c
  <2>3. QueueInv' /\ \A x \in Request : Queued(x)' => Queued(x)
    BY <1>0, <2>1, <2>2, SubQueue
  <2> QED
    BY <1>0, <2>1, <2>3 DEF c
<1>3. CASE q # << >>
  <2>0. Head(q) \in Request
    BY <1>1, <1>3
  <2>h. PICK h \in Request : h = Head(q)
    BY <2>0
  <2>1. /\ queue' = [queue EXCEPT ![c] = Tail(q)] /\ hand' = APermit(h)
        /\ registry' = Append(registry, h) /\ UNCHANGED <<inflight, scan>>
    BY <1>3, <2>h DEF SendToHead, Register
  <2> HIDE DEF c, q
  <2>2. /\ Tail(q) \in Seq(Request) /\ h \in Ids(q)
        /\ Ids(Tail(q)) = Ids(q) \ {h} /\ Distinct(Tail(q))
    BY <1>1, <1>3, <2>h, TailIds
  <2>3. Ids(Tail(q)) \subseteq Ids(queue[c])
    BY <1>1, <2>2
  <2>4. /\ QueueInv'
        /\ \A x \in Request :
             Queued(x)' => Queued(x) /\ (ClassOf[x] = c => x \in Ids(Tail(q)))
    BY <1>0, <2>1, <2>2, <2>3, SubQueue
  <2>5. h \in Ids(queue[c]) /\ ClassOf[h] = c
    BY <1>0, <1>1, <2>2 DEF QueueInv
  <2>6. Queued(h) /\ ~Queued(h)'
    <3>1. Queued(h)
      BY <2>2, <2>5, QueuedIds
    <3>2. h \notin Ids(Tail(q))
      BY <2>2
    <3>3. ~Queued(h)'
      BY <2>2, <2>4, <2>5, <3>2
    <3> QED
      BY <3>1, <3>3
  <2>7. h \notin closed
    BY <1>1, <1>3, <2>h
  <2> QED
    BY <1>0, <2>1, <2>2, <2>4, <2>5, <2>6, <2>7 DEF c
<1> QED
  BY <1>2, <1>3

(* A scan of one class drops waiters from its queue and nothing else; the  *)
(* head it leaves is not cancelled.                                        *)
LEMMA ScanFacts ==
  ASSUME TypeInv, WaiterInv, Scan
  PROVE  /\ ScanClass \in Class /\ QueueInv'
         /\ \A x \in Request : Queued(x)' => Queued(x)
         /\ \A c \in Class \ {ScanClass} : queue'[c] = queue[c]
         /\ queue'[ScanClass] # << >> => Head(queue'[ScanClass]) \notin reaped
<1> DEFINE c == ScanClass
           dead == {r \in Request : IsCancelled(r)}
           q == DropLeading(queue[c], dead)
<1>0. /\ c \in Class /\ queue[c] \in Seq(Request) /\ QueueInv /\ Distinct(queue[c])
      /\ queue \in [Class -> Seq(Request)]
  BY ScanClassType DEF Scan, TypeInv, RaceInv, IdsOK, WaiterInv, QueueInv
<1>1. queue' = [queue EXCEPT ![c] = q]
  BY DEF Scan
<1> HIDE DEF c, dead
<1>2. /\ q \in Seq(Request) /\ Ids(q) \subseteq Ids(queue[c]) /\ Distinct(q)
      /\ q # << >> => Head(q) \notin dead
  BY <1>0, DropLeadingIds
<1> HIDE DEF q
<1>3. q # << >> => Head(q) \in Request
  BY <1>2
<1>4. q # << >> => Head(q) \notin reaped
  BY <1>2, <1>3 DEF dead, IsCancelled
<1>5. QueueInv' /\ \A x \in Request : Queued(x)' => Queued(x)
  BY <1>0, <1>1, <1>2, SubQueue
<1>6. queue'[c] = q /\ \A e \in Class \ {c} : queue'[e] = queue[e]
  BY <1>0, <1>1
<1> QED
  BY <1>0, <1>4, <1>5, <1>6 DEF c

LEMMA DispatcherWaiters ==
  ASSUME TypeInv, WaiterInv,
         \/ Dispatch \/ Tick \/ UNCHANGED vars
         \/ \E new \in Capacities : ApplyNewCapacity(new)
  PROVE  WaiterInv'
<1>1. CASE Scan
  <2>1. QueueInv' /\ \A x \in Request : Queued(x)' => Queued(x)
    BY <1>1, ScanFacts
  <2>2. /\ UNCHANGED <<delivered, closed, reaped, pc>>
        /\ hand' \in {Nothing, ASlot}
    BY <1>1 DEF Scan
  <2> QED
    BY <2>1, <2>2, HandsDiffer DEF WaiterInv
<1>2. CASE SendToHead
  <2>1. UNCHANGED <<delivered, closed, reaped, pc>>
    BY <1>2 DEF SendToHead
  <2>2. QueueInv' /\ \A x \in Request : Queued(x)' => Queued(x)
    BY <1>2, SendFacts
  <2>3. CASE hand' = Nothing
    BY <2>1, <2>2, <2>3, HandsDiffer DEF WaiterInv
  <2>4. CASE \E h \in Request : hand' = APermit(h) /\ Queued(h) /\ ~Queued(h)'
    <3>1. PICK h \in Request : hand' = APermit(h) /\ Queued(h) /\ ~Queued(h)'
      BY <2>4
    <3>2. \A x \in Request : hand' = APermit(x) => x = h
      BY <3>1, HandsDiffer
    <3> QED
      BY <2>1, <2>2, <3>1, <3>2 DEF WaiterInv
  <2> QED
    BY <1>2, <2>3, <2>4, SendFacts
<1>3. CASE Deliver
  <2>1. PICK h \in Request : hand = APermit(h) /\ hand.request = h
    BY <1>3, HandsDiffer DEF Deliver, TypeInv, TypeOK
  <2>2. /\ UNCHANGED <<queue, closed, reaped, pc>> /\ hand' = Nothing
        /\ delivered' = delivered \/ (h \notin closed /\ delivered' = delivered \cup {h})
    BY <1>3, <2>1 DEF Deliver
  <2>3. QueueInv' /\ \A x \in Request : Queued(x)' <=> Queued(x)
    BY <2>2, QueuedIds DEF WaiterInv, QueueInv
  <2> QED
    BY <2>1, <2>2, <2>3, HandsDiffer DEF WaiterInv
<1>4. CASE Wake \/ Tick \/ (\E new \in Capacities : ApplyNewCapacity(new)) \/ UNCHANGED vars
  <2>1. UNCHANGED <<queue, delivered, closed, reaped, pc, hand>>
    BY <1>4 DEF Wake, Tick, ApplyNewCapacity, vars, waiters, dispatcher
  <2>2. QueueInv' /\ \A x \in Request : Queued(x)' <=> Queued(x)
    BY <2>1, QueuedIds DEF WaiterInv, QueueInv
  <2> QED
    BY <2>1, <2>2 DEF WaiterInv
<1> QED
  BY <1>1, <1>2, <1>3, <1>4 DEF Dispatch

LEMMA WaitersInitial == Init => WaiterInv
<1> SUFFICES ASSUME Init PROVE WaiterInv
  OBVIOUS
<1>1. \A c \in Class : Ids(queue[c]) = {} /\ Distinct(queue[c])
  BY DEF Init, Ids, Distinct
<1>2. QueueInv /\ \A r \in Request : ~Queued(r)
  BY <1>1, QueuedIds, ClassOfType DEF QueueInv
<1> QED
  BY <1>2, HandsDiffer DEF Init, WaiterInv

LEMMA WaitersPreserved == TypeInv /\ WaiterInv /\ [Next]_vars => WaiterInv'
  BY TaskWaiters, DispatcherWaiters DEF Next

-------------------------------------------------------------------------------
(* The registry.                                                           *)

Permits == {r \in Request : pc[r] \in WithPermit \/ r \in delivered}
             \cup {r \in Request : hand = APermit(r)}

RegistryInv == Distinct(registry) /\ Ids(registry) = Permits

(* The permits change only where the registry does: registered ...         *)
LEMMA RegisterKeeps ==
  ASSUME TypeInv, RegistryInv, NEW r \in Request, r \notin Permits,
         registry' = Append(registry, r), Permits' = Permits \cup {r}
  PROVE  RegistryInv'
<1>1. registry \in Seq(Request)
  BY DEF TypeInv, TypeOK
<1> QED
  BY <1>1, AppendIds DEF RegistryInv

(* ... unregistered ...                                                    *)
LEMMA UnregisterKeeps ==
  ASSUME TypeInv, RegistryInv, NEW r \in Request, r \in Permits,
         Unregister(r), Permits' = Permits \ {r}
  PROVE  RegistryInv'
<1>1. registry \in Seq(Request) /\ r \in Ids(registry) /\ Distinct(registry)
  BY DEF TypeInv, TypeOK, RegistryInv
<1>2. registry' = RemoveId(registry, r)
  BY <1>1 DEF Unregister, Registered, Ids
<1> QED
  BY <1>1, <1>2, RemoveIdIds DEF RegistryInv

(* ... or neither.                                                         *)
LEMMA RegistryStutter ==
  ASSUME RegistryInv, UNCHANGED registry, Permits' = Permits
  PROVE  RegistryInv'
  BY DEF RegistryInv

LEMMA TaskRegistry ==
  ASSUME TypeInv, WaiterInv, RegistryInv, NEW r \in Request,
         Progress(r) \/ Disturb(r) \/ Age(r)
  PROVE  RegistryInv'
<1> USE DEF TypeInv, TypeOK, Goto, waiters, dispatcher, handles
<1>0. /\ pc \in [Request -> Locations]
      /\ r \in delivered => pc[r] \in {"kick", "waiting"} /\ hand # APermit(r)
      /\ hand = APermit(r) => pc[r] \in {"kick", "waiting", "reap", "over"}
  BY DEF WaiterInv
<1>1. UNCHANGED hand
  BY DEF Progress, Disturb, Age, FastPath, PollSlot, Acquire, FreeSlot,
    FastPathFails, SelectVictim, MarkPreempted, FireCancel, BudgetSpent,
    RegisterInflight, Enqueue, Kick, ReceivePermit, Reap, FirstFrame, DropPermit,
    NotifyRelease, AbandonPoll, GiveUp, CancelToken, Respond
<1>2. CASE RegisterInflight(r)
  <2>1. /\ registry' = Append(registry, r) /\ UNCHANGED delivered /\ pc[r] = "register"
        /\ pc' = [pc EXCEPT ![r] = "handler"]
    BY <1>2 DEF RegisterInflight, Register
  <2>2. r \notin Permits /\ Permits' = Permits \cup {r}
    BY <1>0, <1>1, <2>1 DEF Permits, WithPermit
  <2> QED
    BY <2>1, <2>2, RegisterKeeps
<1>3. CASE /\ pc[r] \in WithPermit /\ Unregister(r) /\ UNCHANGED delivered
           /\ pc' = [pc EXCEPT ![r] = "free"]
  <2>1. r \in Permits /\ Permits' = Permits \ {r}
    BY <1>0, <1>1, <1>3 DEF Permits, WithPermit
  <2> QED
    BY <1>3, <2>1, UnregisterKeeps
<1>4. CASE GiveUp(r) /\ r \in delivered
  <2>1. r \in Permits /\ Permits' = Permits \ {r}
    BY <1>0, <1>1, <1>4 DEF Permits, WithPermit, GiveUp
  <2> QED
    BY <1>4, <2>1, UnregisterKeeps DEF GiveUp
<1>5. CASE ReceivePermit(r) \/ (GiveUp(r) /\ r \notin delivered)
  <2>1. Permits' = Permits /\ UNCHANGED registry
    BY <1>0, <1>1, <1>5 DEF Permits, WithPermit, ReceivePermit, GiveUp
  <2> QED
    BY <2>1, RegistryStutter
<1>6. CASE /\ UNCHANGED <<registry, delivered>>
           /\ \E l \in Locations : pc' = [pc EXCEPT ![r] = l]
           /\ pc'[r] \in WithPermit <=> pc[r] \in WithPermit
  <2>1. Permits' = Permits
    BY <1>0, <1>1, <1>6 DEF Permits
  <2> QED
    BY <1>6, <2>1, RegistryStutter
<1>7. CASE CancelToken(r) \/ Age(r)
  <2>1. Permits' = Permits /\ UNCHANGED registry
    BY <1>1, <1>7 DEF Permits, CancelToken, Age
  <2> QED
    BY <2>1, RegistryStutter
<1>8. ASSUME FirstFrame(r) \/ DropPermit(r) \/ \E header \in BOOLEAN : Respond(r, header)
      PROVE  \/ /\ pc[r] \in WithPermit /\ Unregister(r) /\ UNCHANGED delivered
                /\ pc' = [pc EXCEPT ![r] = "free"]
             \/ /\ UNCHANGED <<registry, delivered>>
                /\ \E l \in Locations : pc' = [pc EXCEPT ![r] = l]
                /\ pc'[r] \in WithPermit <=> pc[r] \in WithPermit
  BY <1>0, <1>8 DEF FirstFrame, DropPermit, Respond, WithPermit, Locations
<1>9. ASSUME \/ FastPath(r) \/ PollSlot(r) \/ FreeSlot(r) \/ FastPathFails(r)
             \/ BudgetSpent(r) \/ AbandonPoll(r) \/ NotifyRelease(r)
      PROVE  /\ UNCHANGED <<registry, delivered>>
             /\ \E l \in Locations : pc' = [pc EXCEPT ![r] = l]
             /\ pc'[r] \in WithPermit <=> pc[r] \in WithPermit
  BY <1>0, <1>9 DEF FastPath, PollSlot, Acquire, FreeSlot, FastPathFails, BudgetSpent,
    AbandonPoll, NotifyRelease, WithPermit, Locations
<1>10. ASSUME \/ SelectVictim(r) \/ MarkPreempted(r) \/ FireCancel(r) \/ Enqueue(r)
              \/ Kick(r) \/ Reap(r)
       PROVE  /\ UNCHANGED <<registry, delivered>>
              /\ \E l \in Locations : pc' = [pc EXCEPT ![r] = l]
              /\ pc'[r] \in WithPermit <=> pc[r] \in WithPermit
  BY <1>0, <1>10 DEF SelectVictim, MarkPreempted, FireCancel, Enqueue, Kick, Reap,
    WithPermit, Locations
<1> QED
  BY <1>2, <1>3, <1>4, <1>5, <1>6, <1>7, <1>8, <1>9, <1>10 DEF Progress, Disturb

LEMMA DispatcherRegistry ==
  ASSUME TypeInv, WaiterInv, RegistryInv,
         \/ Dispatch \/ Tick \/ UNCHANGED vars
         \/ \E new \in Capacities : ApplyNewCapacity(new)
  PROVE  RegistryInv'
<1>1. CASE Scan
  <2>1. /\ UNCHANGED <<delivered, pc, registry>> /\ hand = Nothing
        /\ hand' \in {Nothing, ASlot}
    BY <1>1 DEF Scan, handles
  <2>2. Permits' = Permits
    BY <2>1, HandsDiffer DEF Permits
  <2> QED
    BY <2>1, <2>2, RegistryStutter
<1>2. CASE SendToHead
  <2>1. UNCHANGED <<delivered, pc>> /\ hand = ASlot
    BY <1>2 DEF SendToHead
  <2>2. CASE hand' = Nothing /\ UNCHANGED registry
    <3>1. Permits' = Permits
      BY <2>1, <2>2, HandsDiffer DEF Permits
    <3> QED
      BY <2>2, <3>1, RegistryStutter
  <2>3. CASE \E h \in Request : /\ hand' = APermit(h) /\ Queued(h)
                                /\ registry' = Append(registry, h)
    <3>1. PICK h \in Request : /\ hand' = APermit(h) /\ Queued(h)
                               /\ registry' = Append(registry, h)
      BY <2>3
    <3>2. h \notin delivered /\ pc[h] \in {"kick", "waiting", "reap", "over"}
      BY <3>1 DEF WaiterInv
    <3>3. \A x \in Request : hand # APermit(x) /\ (hand' = APermit(x) <=> x = h)
      BY <2>1, <3>1, HandsDiffer
    <3>4. h \notin Permits /\ Permits' = Permits \cup {h}
      BY <2>1, <3>2, <3>3 DEF Permits, WithPermit
    <3> QED
      BY <3>1, <3>4, RegisterKeeps
  <2> QED
    BY <1>2, <2>2, <2>3, SendFacts
<1>3. CASE Deliver
  <2>1. PICK h \in Request : hand = APermit(h) /\ hand.request = h
    BY <1>3, HandsDiffer DEF Deliver, TypeInv, TypeOK
  <2>2. h \notin delivered /\ pc[h] \in {"kick", "waiting", "reap", "over"}
    BY <2>1 DEF WaiterInv
  <2>3. \A x \in Request : (hand = APermit(x) <=> x = h) /\ (hand' # APermit(x))
    BY <1>3, <2>1, HandsDiffer DEF Deliver
  <2>4. CASE h \in closed
    <3>1. UNCHANGED <<delivered, pc>> /\ Unregister(h)
      BY <1>3, <2>1, <2>4 DEF Deliver
    <3>2. h \in Permits /\ Permits' = Permits \ {h}
      BY <2>2, <2>3, <3>1 DEF Permits, WithPermit
    <3> QED
      BY <3>1, <3>2, UnregisterKeeps
  <2>5. CASE h \notin closed
    <3>1. delivered' = delivered \cup {h} /\ UNCHANGED <<pc, registry>>
      BY <1>3, <2>1, <2>5 DEF Deliver
    <3>2. Permits' = Permits
      BY <2>2, <2>3, <3>1 DEF Permits, WithPermit
    <3> QED
      BY <3>1, <3>2, RegistryStutter
  <2> QED
    BY <2>4, <2>5
<1>4. CASE Wake \/ Tick \/ (\E new \in Capacities : ApplyNewCapacity(new)) \/ UNCHANGED vars
  <2>1. UNCHANGED <<registry, delivered, pc, hand>>
    BY <1>4 DEF Wake, Tick, ApplyNewCapacity, vars, waiters, dispatcher, handles
  <2>2. Permits' = Permits
    BY <2>1 DEF Permits
  <2> QED
    BY <2>1, <2>2, RegistryStutter
<1> QED
  BY <1>1, <1>2, <1>3, <1>4 DEF Dispatch

-------------------------------------------------------------------------------
(* The slot accounts.                                                      *)

LEMMA HolderSets ==
  \A c \in Class : IsFiniteSet(Holders(c)) /\ Cardinality(Holders(c)) \in Nat
<1>1. \A c \in Class : Holders(c) \subseteq Request
  BY DEF Holders
<1> QED
  BY <1>1, PrioritySchedulerAssumption, FS_Subset, FS_CardinalityType

(* One slot more in a lane is one holder, or the dispatcher's slot, more.  *)
LEMMA SlotTaken ==
  ASSUME TypeInv, SlotAccounting, NEW k \in Class, TakeSlot(k),
         Headroom(k) > 0 \/ FreeSlots > 0,
         \A c \in Class \ {k} : Holders(c)' = Holders(c) /\ (InHand(c)' <=> InHand(c)),
         \/ /\ InHand(k)' <=> InHand(k)
            /\ \E r \in Request \ Holders(k) : Holders(k)' = Holders(k) \cup {r}
         \/ Holders(k)' = Holders(k) /\ ~InHand(k) /\ InHand(k)'
  PROVE  SlotAccounting'
<1>1. inflight \in [Class -> Nat]
  BY U16Facts DEF TypeInv, TypeOK
<1>2. inflight'[k] = inflight[k] + 1 /\ \A c \in Class \ {k} : inflight'[c] = inflight[c]
  BY <1>1 DEF TakeSlot
<1>3. IsFiniteSet(Holders(k)) /\ Cardinality(Holders(k)) \in Nat
  BY HolderSets
<1>4. CASE /\ InHand(k)' <=> InHand(k)
           /\ \E r \in Request \ Holders(k) : Holders(k)' = Holders(k) \cup {r}
  <2>1. Cardinality(Holders(k)') = Cardinality(Holders(k)) + 1
    BY <1>3, <1>4, FS_AddElement
  <2> QED
    BY <1>1, <1>2, <1>3, <1>4, <2>1 DEF SlotAccounting
<1>5. CASE Holders(k)' = Holders(k) /\ ~InHand(k) /\ InHand(k)'
  BY <1>1, <1>2, <1>3, <1>5 DEF SlotAccounting
<1> QED
  BY <1>4, <1>5

(* One slot less is one less of them, and there was one.                   *)
LEMMA SlotReturned ==
  ASSUME TypeInv, SlotAccounting, NEW k \in Class, ReturnSlot(k),
         \A c \in Class \ {k} : Holders(c)' = Holders(c) /\ (InHand(c)' <=> InHand(c)),
         \/ /\ InHand(k)' <=> InHand(k)
            /\ \E r \in Holders(k) : Holders(k)' = Holders(k) \ {r}
         \/ Holders(k)' = Holders(k) /\ InHand(k) /\ ~InHand(k)'
  PROVE  SlotAccounting'
<1>1. inflight \in [Class -> Nat]
  BY U16Facts DEF TypeInv, TypeOK
<1>2. /\ inflight'[k] = SatSub(inflight[k], 1)
      /\ \A c \in Class \ {k} : inflight'[c] = inflight[c]
  BY <1>1 DEF ReturnSlot
<1>3. IsFiniteSet(Holders(k)) /\ Cardinality(Holders(k)) \in Nat
  BY HolderSets
<1>4. CASE /\ InHand(k)' <=> InHand(k)
           /\ \E r \in Holders(k) : Holders(k)' = Holders(k) \ {r}
  <2>1. Cardinality(Holders(k)') = Cardinality(Holders(k)) - 1
    BY <1>3, <1>4, FS_RemoveElement
  <2>2. Holders(k) # {}
    BY <1>4
  <2>3. Cardinality(Holders(k)) # 0
    BY <1>3, <2>2, FS_EmptySet
  <2>4. inflight[k] > 0
    BY <1>1, <1>3, <2>3 DEF SlotAccounting
  <2>5. inflight'[k] = inflight[k] - 1
    BY <1>1, <1>2, <2>4 DEF SatSub
  <2>6. inflight[k] = Cardinality(Holders(k)) + (IF InHand(k) THEN 1 ELSE 0)
    BY DEF SlotAccounting
  <2>7. inflight'[k] = Cardinality(Holders(k)') + (IF InHand(k)' THEN 1 ELSE 0)
    BY <1>3, <1>4, <2>1, <2>5, <2>6
  <2> QED
    BY <1>2, <2>7 DEF SlotAccounting
<1>5. CASE Holders(k)' = Holders(k) /\ InHand(k) /\ ~InHand(k)'
  <2>1. inflight[k] > 0
    BY <1>1, <1>3, <1>5 DEF SlotAccounting
  <2>2. inflight'[k] = inflight[k] - 1
    BY <1>1, <1>2, <2>1 DEF SatSub
  <2> QED
    BY <1>1, <1>2, <1>3, <1>5, <2>2 DEF SlotAccounting
<1> QED
  BY <1>4, <1>5

LEMMA SlotsStutter ==
  ASSUME SlotAccounting, UNCHANGED inflight,
         \A c \in Class : Holders(c)' = Holders(c) /\ (InHand(c)' <=> InHand(c))
  PROVE  SlotAccounting'
  BY DEF SlotAccounting

LEMMA TaskSlots ==
  ASSUME TypeInv, WaiterInv, SlotAccounting, NEW r \in Request,
         Progress(r) \/ Disturb(r) \/ Age(r)
  PROVE  SlotAccounting'
<1> USE DEF TypeInv, TypeOK, Goto, waiters, dispatcher, pool
<1> DEFINE Holding == WithPermit \cup {"register", "free"}
<1>0. /\ pc \in [Request -> Locations] /\ ClassOf[r] \in Class
      /\ r \in delivered => pc[r] \in {"kick", "waiting"}
  BY ClassOfType DEF WaiterInv
<1>1. UNCHANGED <<scan, hand>>
  BY DEF Progress, Disturb, Age, FastPath, PollSlot, Acquire, FreeSlot,
    FastPathFails, SelectVictim, MarkPreempted, FireCancel, BudgetSpent,
    RegisterInflight, Enqueue, Kick, ReceivePermit, Reap, FirstFrame, DropPermit,
    NotifyRelease, AbandonPoll, GiveUp, CancelToken, Respond
<1>2. \A c \in Class : InHand(c)' <=> InHand(c)
  BY <1>1 DEF InHand, ScanClass
<1>3. CASE FastPath(r) \/ PollSlot(r)
  <2> DEFINE k == ClassOf[r]
  <2>1. /\ TakeSlot(k) /\ Headroom(k) > 0 /\ UNCHANGED delivered
        /\ pc[r] \in {"new", "poll"} /\ pc' = [pc EXCEPT ![r] = "register"]
    BY <1>3 DEF FastPath, PollSlot, Acquire
  <2>2. /\ r \notin Holders(k) /\ Holders(k)' = Holders(k) \cup {r}
        /\ \A c \in Class \ {k} : Holders(c)' = Holders(c)
    BY <1>0, <2>1 DEF Holders, WithPermit
  <2> QED
    BY <1>0, <1>2, <2>1, <2>2, SlotTaken
<1>4. CASE FreeSlot(r)
  <2> DEFINE k == ClassOf[r]
  <2>1. /\ ReturnSlot(k) /\ UNCHANGED delivered
        /\ pc[r] = "free" /\ pc' = [pc EXCEPT ![r] = "notify"]
    BY <1>4 DEF FreeSlot
  <2>2. /\ r \in Holders(k) /\ Holders(k)' = Holders(k) \ {r}
        /\ \A c \in Class \ {k} : Holders(c)' = Holders(c)
    BY <1>0, <2>1 DEF Holders, WithPermit
  <2> QED
    BY <1>0, <1>2, <2>1, <2>2, SlotReturned
<1>5. CASE ReceivePermit(r) \/ GiveUp(r)
  <2>1. UNCHANGED inflight /\ \A c \in Class : Holders(c)' = Holders(c)
    BY <1>0, <1>5 DEF ReceivePermit, GiveUp, Holders, WithPermit
  <2> QED
    BY <1>2, <2>1, SlotsStutter
<1>6. CASE /\ UNCHANGED <<inflight, delivered>>
           /\ \E l \in Locations : pc' = [pc EXCEPT ![r] = l]
           /\ pc'[r] \in Holding <=> pc[r] \in Holding
  <2>1. \A c \in Class : Holders(c)' = Holders(c)
    BY <1>0, <1>6 DEF Holders
  <2> QED
    BY <1>2, <1>6, <2>1, SlotsStutter
<1>7. CASE CancelToken(r) \/ Age(r)
  <2>1. UNCHANGED inflight /\ \A c \in Class : Holders(c)' = Holders(c)
    BY <1>7 DEF Holders, CancelToken, Age
  <2> QED
    BY <1>2, <2>1, SlotsStutter
<1>8. ASSUME \/ FirstFrame(r) \/ DropPermit(r) \/ RegisterInflight(r)
             \/ \E header \in BOOLEAN : Respond(r, header)
      PROVE  /\ UNCHANGED <<inflight, delivered>>
             /\ \E l \in Locations : pc' = [pc EXCEPT ![r] = l]
             /\ pc'[r] \in Holding <=> pc[r] \in Holding
  BY <1>0, <1>8 DEF FirstFrame, DropPermit, RegisterInflight, Respond, WithPermit, Locations
<1>9. ASSUME FastPathFails(r) \/ BudgetSpent(r) \/ AbandonPoll(r) \/ NotifyRelease(r)
      PROVE  /\ UNCHANGED <<inflight, delivered>>
             /\ \E l \in Locations : pc' = [pc EXCEPT ![r] = l]
             /\ pc'[r] \in Holding <=> pc[r] \in Holding
  BY <1>0, <1>9 DEF FastPathFails, BudgetSpent, AbandonPoll, NotifyRelease, WithPermit,
    Locations
<1>10. ASSUME \/ SelectVictim(r) \/ MarkPreempted(r) \/ FireCancel(r) \/ Enqueue(r)
              \/ Kick(r) \/ Reap(r)
       PROVE  /\ UNCHANGED <<inflight, delivered>>
              /\ \E l \in Locations : pc' = [pc EXCEPT ![r] = l]
              /\ pc'[r] \in Holding <=> pc[r] \in Holding
  BY <1>0, <1>10 DEF SelectVictim, MarkPreempted, FireCancel, Enqueue, Kick, Reap,
    WithPermit, Locations
<1> QED
  BY <1>3, <1>4, <1>5, <1>6, <1>7, <1>8, <1>9, <1>10 DEF Progress, Disturb

LEMMA DispatcherSlots ==
  ASSUME TypeInv, WaiterInv, SlotAccounting,
         \/ Dispatch \/ Tick \/ UNCHANGED vars
         \/ \E new \in Capacities : ApplyNewCapacity(new)
  PROVE  SlotAccounting'
<1>1. CASE Scan
  <2>1. /\ UNCHANGED <<delivered, pc>> /\ hand = Nothing
        /\ \/ TakeSlot(ScanClass) /\ hand' = ASlot /\ UNCHANGED scan
              /\ (FreeSlots > 0 \/ Headroom(ScanClass) > 0)
           \/ UNCHANGED <<inflight, hand>>
    BY <1>1 DEF Scan
  <2>2. \A c \in Class : Holders(c)' = Holders(c) /\ ~InHand(c)
    BY <2>1, HandsDiffer DEF Holders, InHand
  <2>3. CASE UNCHANGED <<inflight, hand>>
    <3>1. \A c \in Class : InHand(c)' <=> InHand(c)
      BY <2>1, <2>2, <2>3, HandsDiffer DEF InHand
    <3> QED
      BY <2>2, <2>3, <3>1, SlotsStutter
  <2>4. CASE TakeSlot(ScanClass) /\ hand' = ASlot /\ UNCHANGED scan
             /\ (FreeSlots > 0 \/ Headroom(ScanClass) > 0)
    <3>0. ScanClass \in Class
      BY <1>1, ScanFacts
    <3>k. PICK k \in Class : k = ScanClass
      BY <3>0
    <3>1. \A c \in Class : InHand(c)' <=> c = k
      BY <2>4, <3>k, HandsDiffer DEF InHand, ScanClass
    <3> QED
      BY <2>2, <2>4, <3>1, <3>k, SlotTaken
  <2> QED
    BY <2>1, <2>3, <2>4
<1>2. CASE SendToHead
  <2>1. UNCHANGED <<delivered, pc>> /\ hand = ASlot /\ ScanClass \in Class
    BY <1>2, SendFacts DEF SendToHead
  <2>k. PICK k \in Class : k = ScanClass
    BY <2>1
  <2>2. \A c \in Class : Holders(c)' = Holders(c) /\ (InHand(c) <=> c = k)
    BY <2>1, <2>k, HandsDiffer DEF Holders, InHand
  <2>3. CASE hand' = Nothing /\ ReturnSlot(ScanClass)
    <3>1. \A c \in Class : ~InHand(c)'
      BY <2>3, HandsDiffer DEF InHand
    <3> QED
      BY <2>2, <2>3, <2>k, <3>1, SlotReturned
  <2>4. CASE \E h \in Request : /\ hand' = APermit(h) /\ ClassOf[h] = ScanClass
                                /\ UNCHANGED inflight
    <3>1. PICK h \in Request : /\ hand' = APermit(h) /\ ClassOf[h] = ScanClass
                               /\ UNCHANGED inflight
      BY <2>4
    <3>2. \A c \in Class : InHand(c)' <=> c = k
      BY <2>k, <3>1, HandsDiffer DEF InHand
    <3> QED
      BY <2>2, <3>1, <3>2, SlotsStutter
  <2> QED
    BY <1>2, <2>3, <2>4, SendFacts
<1>3. CASE Deliver
  <2>1. PICK h \in Request : hand = APermit(h) /\ hand.request = h
    BY <1>3, HandsDiffer DEF Deliver, TypeInv, TypeOK
  <2>2. h \notin delivered /\ pc[h] \in {"kick", "waiting", "reap", "over"}
    BY <2>1 DEF WaiterInv
  <2> DEFINE k == ClassOf[h]
  <2>3. k \in Class
    BY ClassOfType
  <2>4. \A c \in Class : (InHand(c) <=> c = k) /\ ~InHand(c)'
    BY <1>3, <2>1, HandsDiffer DEF InHand, Deliver
  <2>5. CASE h \in closed
    <3>1. UNCHANGED <<delivered, pc>> /\ ReturnSlot(k)
      BY <1>3, <2>1, <2>5 DEF Deliver
    <3>2. \A c \in Class : Holders(c)' = Holders(c)
      BY <3>1 DEF Holders
    <3> QED
      BY <2>3, <2>4, <3>1, <3>2, SlotReturned
  <2>6. CASE h \notin closed
    <3>1. UNCHANGED <<inflight, pc>> /\ delivered' = delivered \cup {h}
      BY <1>3, <2>1, <2>6 DEF Deliver
    <3>2. /\ h \notin Holders(k) /\ Holders(k)' = Holders(k) \cup {h}
          /\ \A c \in Class \ {k} : Holders(c)' = Holders(c)
      BY <2>2, <3>1 DEF Holders, WithPermit
    <3>3. IsFiniteSet(Holders(k)) /\ Cardinality(Holders(k)) \in Nat
      BY <2>3, HolderSets
    <3>4. Cardinality(Holders(k)') = Cardinality(Holders(k)) + 1
      BY <3>2, <3>3, FS_AddElement
    <3>5. inflight[k] = Cardinality(Holders(k)) + 1 /\ inflight'[k] = inflight[k]
      BY <2>3, <2>4, <3>1 DEF SlotAccounting
    <3>6. inflight'[k] = Cardinality(Holders(k)') + 0
      BY <3>3, <3>4, <3>5
    <3> HIDE DEF k
    <3> QED
      BY <2>4, <3>1, <3>2, <3>6 DEF SlotAccounting
  <2> QED
    BY <2>5, <2>6
<1>4. CASE Wake \/ Tick \/ (\E new \in Capacities : ApplyNewCapacity(new)) \/ UNCHANGED vars
  <2>1. /\ UNCHANGED <<inflight, delivered, pc, hand>>
        /\ scan' = scan \/ scan = 0
    BY <1>4 DEF Wake, Tick, ApplyNewCapacity, vars, waiters, dispatcher, pool
  <2>2. \A c \in Class : Holders(c)' = Holders(c)
    BY <2>1 DEF Holders
  <2>3. \A c \in Class : InHand(c)' <=> InHand(c)
    BY <2>1, HandsDiffer DEF InHand, ScanClass, TypeInv, RaceInv, IdsOK
  <2> QED
    BY <2>1, <2>2, <2>3, SlotsStutter
<1> QED
  BY <1>1, <1>2, <1>3, <1>4 DEF Dispatch

-------------------------------------------------------------------------------
(* The engine's invariant, and what follows from it.                       *)

AdmissionInv == TypeInv /\ WaiterInv /\ RegistryInv /\ SlotAccounting

LEMMA AdmissionInitial == Init => AdmissionInv
<1> SUFFICES ASSUME Init PROVE RegistryInv /\ SlotAccounting
  BY TypeInitial, WaitersInitial DEF AdmissionInv
<1>1. Permits = {} /\ Ids(registry) = {} /\ Distinct(registry)
  BY HandsDiffer DEF Init, Permits, WithPermit, Ids, Distinct
<1>2. \A c \in Class : Holders(c) = {} /\ ~InHand(c) /\ inflight[c] = 0
  BY HandsDiffer DEF Init, Holders, InHand, WithPermit
<1> QED
  BY <1>1, <1>2, FS_EmptySet DEF RegistryInv, SlotAccounting

LEMMA AdmissionPreserved == AdmissionInv /\ [Next]_vars => AdmissionInv'
<1> SUFFICES ASSUME AdmissionInv, [Next]_vars PROVE AdmissionInv'
  OBVIOUS
<1>1. TypeInv' /\ WaiterInv'
  BY TypePreserved, WaitersPreserved DEF AdmissionInv
<1>2. RegistryInv' /\ SlotAccounting'
  BY TaskRegistry, DispatcherRegistry, TaskSlots, DispatcherSlots DEF AdmissionInv, Next
<1> QED
  BY <1>1, <1>2 DEF AdmissionInv

(* For any number of requests, no race of delivery, timeout, disconnect,   *)
(* preemption, release and capacity change leaks a slot or frees one       *)
(* twice: every lane counts its holders and the dispatcher's own slot.     *)
THEOREM AdmissionSlotsAccountedFor == Spec => []SlotAccounting
<1>1. AdmissionInv => SlotAccounting
  BY DEF AdmissionInv
<1> QED
  BY <1>1, AdmissionInitial, AdmissionPreserved, PTL DEF Spec

(* The in-flight registry lists every live permit once, and nothing else:  *)
(* preemption never looks at a request that is gone, nor misses one.       *)
THEOREM RegistryListsPermits == Spec => []RegistryMatchesPermits
<1>1. AdmissionInv => RegistryMatchesPermits
  <2> SUFFICES ASSUME AdmissionInv PROVE RegistryMatchesPermits
    OBVIOUS
  <2>1. registry \in Seq(Request) /\ Distinct(registry) /\ Ids(registry) = Permits
    BY DEF AdmissionInv, TypeInv, TypeOK, RegistryInv
  <2>2. Registered = Ids(registry)
    BY DEF Registered, Ids
  <2>3. Cardinality(Registered) = Len(registry)
    BY <2>1, <2>2, DistinctCount
  <2> QED
    BY <2>1, <2>2, <2>3 DEF RegistryMatchesPermits, Permits
<1> QED
  BY <1>1, AdmissionInitial, AdmissionPreserved, PTL DEF Spec

(* A request that is over leaves no permit in a oneshot, no handle in the  *)
(* registry but one the dispatcher is about to drop, and no waiter that    *)
(* the queue would not reap.                                               *)
THEOREM OverIsClean == Spec => []OverLeavesNothing
<1>1. AdmissionInv => OverLeavesNothing
  <2> SUFFICES ASSUME AdmissionInv, NEW r \in Request, pc[r] = "over"
               PROVE  /\ r \notin delivered
                      /\ r \in Registered => hand = APermit(r) /\ r \in closed
                      /\ Queued(r) => r \in reaped
    BY DEF OverLeavesNothing
  <2>1. Registered = Permits
    BY DEF Registered, Ids, AdmissionInv, RegistryInv
  <2> QED
    BY <2>1 DEF AdmissionInv, WaiterInv, Permits, WithPermit
<1> QED
  BY <1>1, AdmissionInitial, AdmissionPreserved, PTL DEF Spec

-------------------------------------------------------------------------------
(* Wakeups.  While a wakeup is stored or on its way nothing is claimed.    *)
(* Otherwise a class that the priority pass has gone past has no waiter it *)
(* could serve, counting the slot in the dispatcher's hand as free: if     *)
(* send_to_head finds no waiter left it goes back without a wakeup.        *)

Silent ==
  /\ ~notified
  /\ hand.kind # "permit"
  /\ \A r \in Request : pc[r] \notin {"kick", "notify", "reap"}

Passed(c) == scan = 0 \/ \E k \in 4 .. 7 : k < scan /\ ScanOrder[k] = c

Settled ==
  IF hand = ASlot THEN [inflight EXCEPT ![ScanClass] = SatSub(@, 1)] ELSE inflight

Served(c) ==
  \/ queue[c] = << >>
  \/ /\ SlotsAvailableTo(Settled, reserved, capacity, c) = 0
     /\ Head(queue[c]) \notin reaped

WakeInv ==
  /\ capacity \in Capacities \cup {FirstCapacity}
  /\ reserved = ReservationsAt(Floor, Share, capacity)
  /\ Silent => \A c \in Class : Passed(c) => Served(c)

(* A smaller capacity wakes nobody, so it must not let anybody in: its     *)
(* reservations may not fall by more than the pool does.                   *)
ShrinksGiveNothing ==
  \A old \in Capacities \cup {FirstCapacity}, new \in Capacities :
    new < old =>
      \A counts \in [Class -> U16], c \in Class :
        SlotsAvailableTo(counts, ReservationsAt(Floor, Share, new), new, c)
          <= SlotsAvailableTo(counts, ReservationsAt(Floor, Share, old), old, c)

LEMMA PassedFacts ==
  ASSUME scan \in 0 .. 7
  PROVE  /\ scan \in 1 .. 4 => \A c \in Class : ~Passed(c)
         /\ scan # 0 => ScanClass \in Class /\ (scan > 3 => ~Passed(ScanClass))
         /\ scan # 0 /\ NextClass =>
              \A c \in Class : Passed(c)' => scan > 3 /\ (Passed(c) \/ c = ScanClass)
<1>1. scan \in 1 .. 4 => \A c \in Class : ~Passed(c)
  BY DEF Passed
<1>2. scan # 0 => ScanClass \in Class /\ (scan > 3 => ~Passed(ScanClass))
  <2>1. scan # 0 => ScanClass \in Class
    BY ScanClassType
  <2>2. ASSUME scan > 3, NEW k \in 4 .. 7, k < scan
        PROVE  ScanOrder[k] # ScanOrder[scan]
    BY <2>2 DEF ScanOrder, Bulk, Default, Interactive, System
  <2> QED
    BY <2>1, <2>2 DEF Passed, ScanClass
<1>3. ASSUME scan # 0, NextClass, NEW c \in Class, Passed(c)'
      PROVE  scan > 3 /\ (Passed(c) \/ c = ScanClass)
  <2>1. scan' = IF scan = 7 THEN 0 ELSE scan + 1
    BY <1>3, ScanLength DEF NextClass
  <2>2. CASE scan = 7
    <3>1. \E k \in 4 .. 7 : ScanOrder[k] = c
      BY DEF ScanOrder, Class, Bulk, Default, Interactive, System
    <3>2. PICK k \in 4 .. 7 : ScanOrder[k] = c
      BY <3>1
    <3>3. CASE k = 7
      BY <2>2, <3>2, <3>3 DEF ScanClass
    <3>4. CASE k # 7
      BY <2>2, <3>2, <3>4 DEF Passed
    <3> QED
      BY <3>3, <3>4, <2>2
  <2>3. CASE scan # 7
    <3>1. scan' = scan + 1 /\ scan \in 1 .. 6
      BY <1>3, <2>1, <2>3
    <3>2. PICK k \in 4 .. 7 : k < scan' /\ ScanOrder[k] = c
      BY <1>3, <3>1 DEF Passed
    <3>3. k = scan \/ k < scan
      BY <3>1, <3>2
    <3> QED
      BY <3>1, <3>2, <3>3 DEF Passed, ScanClass
  <2> QED
    BY <2>2, <2>3
<1> QED
  BY <1>1, <1>2, <1>3

LEMMA LoweredType ==
  ASSUME NEW f \in [Class -> Nat], NEW x
  PROVE  [f EXCEPT ![x] = SatSub(@, 1)] \in [Class -> Nat]
<1>1. \A c \in Class : [f EXCEPT ![x] = SatSub(@, 1)][c] \in Nat
  BY DEF SatSub
<1> QED
  BY <1>1

LEMMA SettledType ==
  ASSUME TypeInv
  PROVE  /\ Settled \in [Class -> Nat] /\ inflight \in [Class -> Nat]
         /\ reserved \in [Class -> Nat] /\ capacity \in Nat /\ capacity <= MaxU16
<1>1. /\ inflight \in [Class -> Nat] /\ reserved \in [Class -> Nat]
      /\ capacity \in Nat /\ capacity <= MaxU16
  BY U16Facts DEF TypeInv, TypeOK
<1> QED
  BY <1>1, LoweredType DEF Settled

LEMMA SlotsType ==
  ASSUME NEW n \in [Class -> Nat], NEW res \in [Class -> Nat], NEW k \in Class,
         NEW cap \in Nat, cap <= MaxU16
  PROVE  SlotsAvailableTo(n, res, cap, k) \in Nat
<1>1. Total(Claims(n, res, k)) \in Nat
  BY ClaimsFacts
<1> QED
  BY <1>1, SlotsFormula DEF SatSub

(* A step of a task that leaves every wakeup delivered takes no waiter     *)
(* from a queue nor adds one, and returns no slot.                         *)
LEMMA TaskSilent ==
  ASSUME TypeInv, NEW r \in Request, Progress(r) \/ Disturb(r) \/ Age(r), Silent'
  PROVE  /\ Silent
         /\ UNCHANGED <<queue, reaped, scan, hand, capacity, reserved>>
         /\ UNCHANGED inflight \/ \E c \in Class : TakeSlot(c)
<1> USE DEF TypeInv, TypeOK, Goto, waiters, dispatcher, pool
<1>0. pc \in [Request -> Locations] /\ ClassOf[r] \in Class
  BY ClassOfType
<1>1. CASE FastPath(r) \/ PollSlot(r)
  BY <1>0, <1>1 DEF FastPath, PollSlot, Acquire, Silent
<1>2. CASE FastPathFails(r) \/ BudgetSpent(r) \/ AbandonPoll(r) \/ RegisterInflight(r)
  BY <1>0, <1>2 DEF FastPathFails, BudgetSpent, AbandonPoll, RegisterInflight, Silent
<1>3. CASE SelectVictim(r) \/ MarkPreempted(r) \/ FireCancel(r)
  BY <1>0, <1>3 DEF SelectVictim, MarkPreempted, FireCancel, Silent
<1>4. CASE Enqueue(r)
  BY <1>0, <1>4 DEF Enqueue, Silent
<1>5. CASE Kick(r) \/ ReceivePermit(r) \/ Reap(r) \/ NotifyRelease(r)
  BY <1>5 DEF Kick, ReceivePermit, Reap, NotifyRelease, Silent
<1>6. CASE GiveUp(r)
  BY <1>0, <1>6 DEF GiveUp, Silent
<1>7. CASE FirstFrame(r) \/ DropPermit(r) \/ \E header \in BOOLEAN : Respond(r, header)
  BY <1>0, <1>7 DEF FirstFrame, DropPermit, Respond, Silent
<1>8. CASE FreeSlot(r)
  BY <1>0, <1>8 DEF FreeSlot, Silent
<1>9. CASE CancelToken(r) \/ Age(r)
  BY <1>9 DEF CancelToken, Age, Silent
<1> QED
  BY <1>1, <1>2, <1>3, <1>4, <1>5, <1>6, <1>7, <1>8, <1>9 DEF Progress, Disturb

LEMMA TaskWakes ==
  ASSUME TypeInv, TypeInv', WakeInv, NEW r \in Request, Progress(r) \/ Disturb(r) \/ Age(r)
  PROVE  WakeInv'
<1>0. UNCHANGED <<capacity, reserved>>
  BY DEF Progress, Disturb, Age, FastPath, PollSlot, Acquire, FreeSlot, pool,
    FastPathFails, SelectVictim, MarkPreempted, FireCancel, BudgetSpent,
    RegisterInflight, Enqueue, Kick, ReceivePermit, Reap, FirstFrame, DropPermit,
    NotifyRelease, AbandonPoll, GiveUp, CancelToken, Respond
<1> SUFFICES ASSUME Silent', NEW c \in Class, Passed(c)' PROVE Served(c)'
  BY <1>0 DEF WakeInv
<1>1. /\ Silent
      /\ UNCHANGED <<queue, reaped, scan, hand, capacity, reserved>>
      /\ UNCHANGED inflight \/ \E e \in Class : TakeSlot(e)
  BY TaskSilent
<1>2. Served(c)
  BY <1>1 DEF WakeInv, Passed
<1>3. inflight \in [Class -> Nat] /\ inflight' \in [Class -> Nat]
  BY SettledType, U16Facts DEF TypeInv, TypeOK
<1>4. \A e \in Class : inflight[e] <= inflight'[e]
  BY <1>1, <1>3 DEF TakeSlot
<1>5. \A e \in Class : Settled[e] <= Settled'[e]
  <2>1. CASE hand = ASlot
    <3>1. scan # 0 /\ scan \in 0 .. 7
      BY <2>1, HandsDiffer DEF TypeInv, RaceInv, IdsOK
    <3>2. ScanClass \in Class /\ ScanClass' = ScanClass
      BY <1>1, <3>1, PassedFacts DEF ScanClass
    <3>3. /\ Settled = [inflight EXCEPT ![ScanClass] = SatSub(inflight[ScanClass], 1)]
          /\ Settled' = [inflight' EXCEPT ![ScanClass] = SatSub(inflight'[ScanClass], 1)]
      BY <1>1, <2>1, <3>2 DEF Settled
    <3> QED
      BY <1>3, <1>4, <3>2, <3>3 DEF SatSub
  <2>2. CASE hand # ASlot
    BY <1>1, <1>4, <2>2 DEF Settled
  <2> QED
    BY <2>1, <2>2
<1>6. /\ Settled \in [Class -> Nat] /\ Settled' \in [Class -> Nat]
      /\ reserved \in [Class -> Nat] /\ capacity \in Nat /\ capacity <= MaxU16
  <2>1. Settled \in [Class -> Nat] /\ reserved \in [Class -> Nat]
        /\ capacity \in Nat /\ capacity <= MaxU16
    BY SettledType
  <2>2. Settled' \in [Class -> Nat]
    BY <1>3, LoweredType DEF Settled
  <2> QED
    BY <2>1, <2>2
<1>7. /\ SlotsAvailableTo(Settled', reserved, capacity, c)
           <= SlotsAvailableTo(Settled, reserved, capacity, c)
      /\ SlotsAvailableTo(Settled', reserved, capacity, c) \in Nat
  BY <1>5, <1>6, SlotsAntitone, SlotsType
<1>8. CASE SlotsAvailableTo(Settled, reserved, capacity, c) = 0
  <2>1. SlotsAvailableTo(Settled', reserved', capacity', c) = 0
    BY <1>1, <1>7, <1>8
  <2> QED
    BY <1>1, <1>2, <2>1 DEF Served
<1> QED
  BY <1>1, <1>2, <1>8 DEF Served

LEMMA ScanWakes ==
  ASSUME TypeInv, WaiterInv, WakeInv, Scan
  PROVE  WakeInv'
<1>0. UNCHANGED <<capacity, reserved, reaped, pc, notified>> /\ hand = Nothing /\ scan # 0
      /\ scan \in 0 .. 7
  BY DEF Scan, TypeInv, RaceInv, IdsOK
<1> SUFFICES ASSUME Silent', NEW c \in Class, Passed(c)' PROVE Served(c)'
  BY <1>0 DEF WakeInv
<1>1. Silent /\ Settled = inflight
  BY <1>0, HandsDiffer DEF Silent, Settled
<1>2. /\ ScanClass \in Class
      /\ \A e \in Class \ {ScanClass} : queue'[e] = queue[e]
      /\ queue'[ScanClass] # << >> => Head(queue'[ScanClass]) \notin reaped
  BY ScanFacts
<1>3. inflight \in [Class -> Nat] /\ reserved \in [Class -> Nat]
      /\ capacity \in Nat /\ capacity <= MaxU16
  BY SettledType
<1>4. CASE TakeSlot(ScanClass) /\ hand' = ASlot /\ UNCHANGED scan
  <2>1. Passed(c) /\ c # ScanClass
    <3>1. Passed(c)
      BY <1>4 DEF Passed
    <3>2. scan > 3
      BY <1>0, <3>1, PassedFacts
    <3> QED
      BY <1>0, <3>1, <3>2, PassedFacts
  <2>2. ScanClass' = ScanClass
    BY <1>4 DEF ScanClass
  <2>3. Settled' = [inflight' EXCEPT ![ScanClass] = SatSub(inflight'[ScanClass], 1)]
    BY <1>4, <2>2 DEF Settled
  <2>4. Settled' = inflight
    <3>1. inflight' = [inflight EXCEPT ![ScanClass] = inflight[ScanClass] + 1]
      BY <1>4 DEF TakeSlot
    <3>2. inflight'[ScanClass] = inflight[ScanClass] + 1
      BY <1>2, <1>3, <3>1
    <3>n. PICK n \in Nat : n = inflight[ScanClass]
      BY <1>2, <1>3
    <3>3. SatSub(inflight'[ScanClass], 1) = inflight[ScanClass]
      BY <3>2, <3>n DEF SatSub
    <3> QED
      BY <1>2, <1>3, <2>3, <3>1, <3>3
  <2>5. Served(c)
    BY <1>1, <2>1 DEF WakeInv
  <2> QED
    BY <1>0, <1>1, <1>2, <2>1, <2>4, <2>5 DEF Served
<1>5. CASE NextClass /\ UNCHANGED <<inflight, hand>>
  <2>1. scan > 3 /\ (Passed(c) \/ c = ScanClass)
    BY <1>0, <1>5, PassedFacts
  <2>2. Settled' = inflight
    BY <1>0, <1>5, HandsDiffer DEF Settled
  <2>3. CASE c # ScanClass
    <3>1. Served(c)
      BY <1>1, <2>1, <2>3 DEF WakeInv
    <3> QED
      BY <1>0, <1>1, <1>2, <2>2, <2>3, <3>1 DEF Served
  <2>4. CASE c = ScanClass
    <3>1. queue'[c] = << >> \/ ~(Headroom(c) > 0)
      <4> DEFINE q == DropLeading(queue[ScanClass], {r \in Request : IsCancelled(r)})
      <4>1. queue'[ScanClass] = q
        BY <1>2 DEF Scan, TypeInv, TypeOK
      <4>2. ~IsOverride
        BY <1>0, <2>1 DEF IsOverride
      <4>3. CASE q # << >> /\ Headroom(ScanClass) > 0
        <5>1. hand' = ASlot
          BY <4>2, <4>3 DEF Scan
        <5> QED
          BY <1>0, <1>5, <5>1, HandsDiffer
      <4> QED
        BY <2>4, <4>1, <4>3
    <3>2. Headroom(c) \in Nat
      BY <1>3, SlotsType DEF Headroom
    <3>3. CASE queue'[c] # << >>
      <4>1. Headroom(c) = 0
        BY <3>1, <3>2, <3>3
      <4>2. SlotsAvailableTo(Settled', reserved', capacity', c) = 0
        BY <1>0, <2>2, <4>1 DEF Headroom
      <4> QED
        BY <1>0, <1>2, <2>4, <3>3, <4>2 DEF Served
    <3> QED
      BY <3>3 DEF Served
  <2> QED
    BY <2>3, <2>4
<1> QED
  BY <1>4, <1>5 DEF Scan

LEMMA SendWakes ==
  ASSUME TypeInv, WaiterInv, WakeInv, SendToHead
  PROVE  WakeInv'
<1>0. UNCHANGED <<capacity, reserved, reaped, pc, notified>> /\ hand = ASlot
      /\ scan # 0 /\ scan \in 0 .. 7
  BY HandsDiffer DEF SendToHead, TypeInv, RaceInv, IdsOK
<1> SUFFICES ASSUME Silent', NEW c \in Class, Passed(c)' PROVE Served(c)'
  BY <1>0 DEF WakeInv
<1>1. /\ hand' = Nothing
      /\ queue' = [queue EXCEPT ![ScanClass] = << >>]
      /\ ReturnSlot(ScanClass) /\ NextClass
  BY SendFacts, HandsDiffer DEF Silent
<1>2. ScanClass \in Class /\ queue \in [Class -> Seq(Request)]
  BY SendFacts DEF TypeInv, TypeOK
<1>3. Silent
  BY <1>0, HandsDiffer DEF Silent
<1>4. Settled' = Settled
  BY <1>0, <1>1, HandsDiffer DEF Settled, ReturnSlot
<1>5. CASE c = ScanClass
  BY <1>1, <1>2, <1>5 DEF Served
<1>6. CASE c # ScanClass
  <2>1. Passed(c)
    BY <1>0, <1>1, <1>6, PassedFacts
  <2>2. Served(c) /\ queue'[c] = queue[c]
    BY <1>1, <1>2, <1>3, <1>6, <2>1 DEF WakeInv
  <2> QED
    BY <1>0, <1>4, <2>2 DEF Served
<1> QED
  BY <1>5, <1>6

LEMMA ResizeWakes ==
  ASSUME TypeInv, WakeInv, ShrinksGiveNothing, NEW new \in Capacities,
         ApplyNewCapacity(new)
  PROVE  WakeInv'
<1>0. /\ capacity' = new /\ reserved' = ReservationsAt(Floor, Share, new)
      /\ UNCHANGED <<inflight, queue, reaped, scan, hand, pc>> /\ scan = 0
      /\ new # capacity /\ notified' = (notified \/ new > capacity)
  BY DEF ApplyNewCapacity, waiters, dispatcher
<1> SUFFICES ASSUME Silent', NEW c \in Class PROVE Served(c)'
  BY <1>0 DEF WakeInv
<1>1. new \in Nat /\ capacity \in Nat /\ new \in U16 /\ inflight \in [Class -> U16]
  BY PrioritySchedulerAssumption, U16Facts DEF TypeInv, TypeOK
<1>2. ~notified /\ new < capacity
  <2>1. ~notified'
    BY DEF Silent
  <2>2. ~notified /\ ~(new > capacity)
    BY <1>0, <2>1, Zenon
  <2> QED
    BY <1>0, <1>1, <2>2
<1>3. Silent /\ hand = Nothing
  BY <1>0, <1>2 DEF Silent, TypeInv, RaceInv, IdsOK
<1>4. Settled = inflight /\ Settled' = inflight
  BY <1>0, <1>3, HandsDiffer DEF Settled
<1>5. Served(c)
  BY <1>0, <1>3 DEF WakeInv, Passed
<1>6. CASE SlotsAvailableTo(Settled, reserved, capacity, c) = 0
  <2>1. SlotsAvailableTo(inflight, reserved', capacity', c)
          <= SlotsAvailableTo(inflight, reserved, capacity, c)
    BY <1>0, <1>1, <1>2 DEF WakeInv, ShrinksGiveNothing
  <2>2. SlotsAvailableTo(inflight, reserved', capacity', c) \in Nat
    <3>1. Floor \in [Class -> Nat] /\ Share \in [Class -> [num : Nat, den : Nat \ {0}]]
      BY PrioritySchedulerAssumption, U16Facts
    <3>2. ReservationsAt(Floor, Share, new) \in [Class -> U16]
      BY <1>1, <3>1, ReservationsAtFacts
    <3>4. reserved' \in [Class -> Nat]
      BY <1>0, <3>2, U16Facts
    <3>3. capacity' \in Nat /\ capacity' <= MaxU16 /\ inflight \in [Class -> Nat]
      BY <1>0, <1>1, U16Facts
    <3> QED
      BY <3>3, <3>4, SlotsType
  <2>3. SlotsAvailableTo(Settled', reserved', capacity', c) = 0
    BY <1>4, <1>6, <2>1, <2>2
  <2> QED
    BY <1>0, <1>5, <2>3 DEF Served
<1> QED
  BY <1>0, <1>5, <1>6 DEF Served

LEMMA DispatcherWakes ==
  ASSUME TypeInv, WaiterInv, WakeInv, ShrinksGiveNothing,
         \/ Dispatch \/ Tick \/ UNCHANGED vars
         \/ \E new \in Capacities : ApplyNewCapacity(new)
  PROVE  WakeInv'
<1>1. CASE Wake \/ Tick \/ Deliver
  <2>1. UNCHANGED <<capacity, reserved>> /\ scan' = 1
    BY <1>1 DEF Wake, Tick, Deliver, pool
  <2>2. \A c \in Class : ~Passed(c)'
    BY <2>1 DEF Passed
  <2> QED
    BY <2>1, <2>2 DEF WakeInv
<1>2. CASE UNCHANGED vars
  BY <1>2 DEF WakeInv, Silent, Passed, Served, Settled, ScanClass, vars, pool, waiters,
    dispatcher
<1> QED
  BY <1>1, <1>2, ScanWakes, SendWakes, ResizeWakes DEF Dispatch

LEMMA WakesInitial == Init => WakeInv
<1> SUFFICES ASSUME Init PROVE WakeInv
  OBVIOUS
<1>1. ReservationsAt(Floor, Share, FirstCapacity)
        = DesiredReservations(Floor, Share, FirstCapacity)
  BY PrioritySchedulerAssumption DEF ReservationsAt, ClampReservationsToCapacity
<1>2. \A c \in Class : Served(c)
  BY DEF Init, Served
<1> QED
  BY <1>1, <1>2 DEF Init, WakeInv

LEMMA WakesPreserved ==
  ShrinksGiveNothing /\ TypeInv /\ WaiterInv /\ WakeInv /\ [Next]_vars => WakeInv'
<1> SUFFICES ASSUME ShrinksGiveNothing, TypeInv, WaiterInv, WakeInv, [Next]_vars
             PROVE  WakeInv'
  OBVIOUS
<1>1. TypeInv'
  BY TypePreserved
<1> QED
  BY <1>1, TaskWakes, DispatcherWakes DEF Next

LEMMA WakeInvSuffices == TypeInv /\ WakeInv => NoLostWakeup
<1> SUFFICES ASSUME TypeInv, WakeInv, Quiet, NEW c \in Class, queue[c] # << >>
             PROVE  Headroom(c) = 0 /\ Head(queue[c]) \notin reaped
  BY DEF NoLostWakeup
<1>1. hand = Nothing /\ scan = 0
  BY DEF Quiet, TypeInv, RaceInv, IdsOK
<1>2. Silent /\ Settled = inflight /\ Passed(c)
  BY <1>1, HandsDiffer DEF Quiet, Silent, Settled, Passed
<1> QED
  BY <1>2 DEF WakeInv, Served, Headroom

(* No wakeup is lost, for any requests and queues, as long as a shrink of  *)
(* the pool lets nobody in: when the dispatcher sleeps and nothing is on   *)
(* its way to wake it, no queue has a waiter that a slot is free for.      *)
THEOREM NoWakeupIsLost == ShrinksGiveNothing => (Spec => []NoLostWakeup)
<1> SUFFICES ASSUME ShrinksGiveNothing PROVE Spec => []NoLostWakeup
  OBVIOUS
<1>1. AdmissionInv /\ WakeInv /\ [Next]_vars => AdmissionInv' /\ WakeInv'
  BY AdmissionPreserved, WakesPreserved DEF AdmissionInv
<1>2. Init => AdmissionInv /\ WakeInv
  BY AdmissionInitial, WakesInitial
<1>3. AdmissionInv /\ WakeInv => NoLostWakeup
  BY WakeInvSuffices DEF AdmissionInv
<1> QED
  BY <1>1, <1>2, <1>3, PTL DEF Spec

(* Fixed floors that fit every capacity, and no shares.                    *)
FixedFloors ==
  /\ \A c \in Class : Share[c].num = 0
  /\ \A n \in Capacities \cup {FirstCapacity} : Total(Floor) <= n

LEMMA FixedReservations ==
  ASSUME FixedFloors, NEW n \in Capacities \cup {FirstCapacity}
  PROVE  ReservationsAt(Floor, Share, n) = Floor
<1>0. /\ n \in Nat /\ Floor \in [Class -> Nat] /\ Total(Floor) <= n
      /\ Share \in [Class -> [num : Nat, den : Nat \ {0}]]
  BY PrioritySchedulerAssumption, U16Facts DEF FixedFloors
<1>1. ASSUME NEW c \in Class
      PROVE  DesiredReservations(Floor, Share, n)[c] = Floor[c]
  <2>d. PICK d \in Nat : d = Share[c].den /\ d > 0
    BY <1>0
  <2>1. ShareOf(Share[c], n) = (d - 1) \div d
    BY <1>0, <2>d DEF ShareOf, FixedFloors
  <2>2. (d - 1) \div d = 0
    BY <2>d
  <2>3. Floor[c] \in Nat /\ Floor[c] <= n
    <3>1. Total(Floor) \in Nat /\ Floor[c] <= Total(Floor) /\ Floor[c] \in Nat
      BY <1>0, TotalFacts
    <3> QED
      BY <1>0, <3>1
  <2> QED
    BY <1>0, <2>1, <2>2, <2>3 DEF DesiredReservations, AtMost
<1>2. DesiredReservations(Floor, Share, n) = Floor
  BY <1>0, <1>1 DEF DesiredReservations
<1> QED
  BY <1>0, <1>2 DEF ReservationsAt, ClampReservationsToCapacity

LEMMA FixedFloorsGiveNothing == FixedFloors => ShrinksGiveNothing
<1> SUFFICES ASSUME FixedFloors,
                    NEW old \in Capacities \cup {FirstCapacity}, NEW new \in Capacities,
                    new < old, NEW counts \in [Class -> U16], NEW c \in Class
             PROVE  SlotsAvailableTo(counts, ReservationsAt(Floor, Share, new), new, c)
                      <= SlotsAvailableTo(counts, ReservationsAt(Floor, Share, old), old, c)
  BY DEF ShrinksGiveNothing
<1>1. /\ ReservationsAt(Floor, Share, new) = Floor
      /\ ReservationsAt(Floor, Share, old) = Floor
  BY FixedReservations
<1>2. /\ old \in Nat /\ old <= MaxU16 /\ new \in Nat /\ new <= MaxU16
      /\ Floor \in [Class -> Nat] /\ counts \in [Class -> Nat]
  BY PrioritySchedulerAssumption, U16Facts
<1>n. PICK n \in Nat : n = Total(Claims(counts, Floor, c))
  BY <1>2, ClaimsFacts
<1>3. /\ SlotsAvailableTo(counts, Floor, new, c) = SatSub(new, n)
      /\ SlotsAvailableTo(counts, Floor, old, c) = SatSub(old, n)
  BY <1>2, <1>n, SlotsFormula
<1>4. SatSub(new, n) <= SatSub(old, n)
  BY <1>2 DEF SatSub
<1> QED
  BY <1>1, <1>3, <1>4

(* In particular with floors only, that fit every capacity the pool is     *)
(* ever given: whatever the sequence of capacities, no wakeup is lost.     *)
THEOREM NoWakeupIsLostWithFixedFloors == FixedFloors => (Spec => []NoLostWakeup)
  BY NoWakeupIsLost, FixedFloorsGiveNothing
=============================================================================
