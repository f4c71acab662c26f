---------------------------- MODULE LwwEngineProofs ----------------------------
(***************************************************************************)
(* The writes of a key are serial, a local write always wins, and when the *)
(* writes are over the key and its log hold the newest version, for any    *)
(* number of local writers and batches.                                    *)
(***************************************************************************)
EXTENDS LwwEngine, WellFoundedInduction, FiniteSetTheorems, TLAPS

(* A non-empty set of naturals has a least element.                        *)
LEMMA LeastElement ==
  ASSUME NEW T \in SUBSET Nat, T # {}
  PROVE  \E x \in T : \A y \in T : x <= y
<1> DEFINE R == OpToRel(<, Nat)
<1>1. IsWellFoundedOn(R, Nat)
  BY NatLessThanWellFounded
<1>2. PICK x \in T : \A y \in T : ~ (<<y, x>> \in R)
  BY <1>1, WFMin
<1>3. ASSUME NEW y \in T
      PROVE  x <= y
  <2>1. x \in Nat /\ y \in Nat
    OBVIOUS
  <2>2. y < x => <<y, x>> \in R
    BY <2>1 DEF OpToRel
  <2> HIDE DEF R
  <2>3. ~(<<y, x>> \in R)
    BY <1>2
  <2> QED
    BY <2>1, <2>2, <2>3
<1> QED
  BY <1>3

WriteTypes ==
  /\ clock \in Nat
  /\ meta \in Op \cup {NoOp}
  /\ mapped \in Nat
  /\ ref \in [Task -> Nat]
  /\ pc \in [Task -> Locations]
  /\ op \in [Task -> Op \cup {NoOp}]
  /\ todo \in [Task -> SUBSET Op]

(* A task that waits for the lock or holds it has the mutex the map has,   *)
(* so two of them never have different ones; and one of them holds it.     *)
LockInv ==
  /\ \A t \in Task : pc[t] \in Critical \cup {"lock"} => mapped # 0 /\ ref[t] = mapped
  /\ \A t, u \in Task : pc[t] \in Critical /\ pc[u] \in Critical => t = u

(* Inside a write the metadata is ahead of the bytes by the operation of   *)
(* the task that holds the lock.                                           *)
BytesInv ==
  /\ StoreMatchesWinner
  /\ \A t \in Task : Unapplied(t) => op[t] = meta /\ meta \in Op
  /\ \A t \in Task : pc[t] = "log" => IsLocal(t)

(* The clock is ahead of the metadata and of what is about to enter it.    *)
ClockInv ==
  /\ meta # NoOp => meta.ts <= clock
  /\ \A t \in Task : pc[t] = "record" => op[t] \in Op /\ op[t].ts <= clock
  /\ \A t \in Task : pc[t] \in {"enter", "lock"} /\ ~IsLocal(t)
                       => op[t] \in Op /\ op[t].ts <= clock
  /\ \A t \in Task : pc[t] = "record" /\ IsLocal(t) /\ meta # NoOp
                       => op[t].ts > meta.ts

WriteInv == WriteTypes /\ LockInv /\ BytesInv /\ ClockInv

-------------------------------------------------------------------------------

(* A non-empty set of operations has an oldest one.                        *)
LEMMA OldestExists ==
  ASSUME NEW S \in SUBSET Op, S # {}
  PROVE  Oldest(S) \in S
<1> DEFINE times == {o.ts : o \in S}
<1>1. times \in SUBSET Nat /\ times # {}
  BY DEF Op
<1>2. PICK m \in times : \A n \in times : m <= n
  BY <1>1, LeastElement
<1> DEFINE first == {o \in S : o.ts = m}
           reps == {o.rep : o \in first}
<1>3. reps \in SUBSET Nat /\ reps # {}
  BY <1>2 DEF Op
<1>4. PICK k \in reps : \A n \in reps : k <= n
  BY <1>3, LeastElement
<1>5. PICK o \in first : o.rep = k
  BY <1>4
<1>6. ASSUME NEW p \in S
      PROVE  ~Newer(o, p)
  <2>1. o.ts = m /\ p.ts \in times /\ m <= p.ts
    BY <1>2, <1>5
  <2>2. p.ts = m => p.rep \in reps
    OBVIOUS
  <2>3. p.ts = m => o.rep <= p.rep
    BY <2>2, <1>4, <1>5
  <2>4. m \in Nat /\ p.ts \in Nat /\ p.rep \in Nat /\ o.rep \in Nat
    BY <1>1, <1>2 DEF Op
  <2> QED
    BY <2>1, <2>3, <2>4 DEF Newer
<1> QED
  BY <1>5, <1>6 DEF Oldest

LEMMA KindFacts ==
  ASSUME NEW t \in Task
  PROVE  /\ KindOf[t] \in {"put", "delete", "remote"}
         /\ Start[KindOf[t]] \in {"enter", "filter"}
         /\ Start[KindOf[t]] = "enter" => IsLocal(t)
  BY LwwAssumption DEF Start, IsLocal

(* key_lock_for gives the mapped mutex, or maps a new one.                 *)
LEMMA EnterFacts ==
  ASSUME NEW t \in Task, Enter(t)
  PROVE  \E lock \in Nat \ {0} : /\ mapped # 0 => lock = mapped
                                 /\ mapped' = lock
                                 /\ ref' = [ref EXCEPT ![t] = lock]
<1>1. Cardinality(Task) \in Nat
  BY LwwAssumption, FS_CardinalityType
<1>2. \A lock \in 1 .. Cardinality(Task) + 1 : lock \in Nat \ {0}
  BY <1>1
<1> QED
  BY <1>2 DEF Enter

LEMMA TypesPreserved ==
  ASSUME WriteTypes, NEW t \in Task, Step(t)
  PROVE  WriteTypes'
<1> USE DEF WriteTypes, Locations, Critical, Goto, engine, locks, batch
<1>1. CASE Enter(t)
  <2>1. PICK lock \in Nat : mapped' = lock /\ ref' = [ref EXCEPT ![t] = lock]
    BY <1>1, EnterFacts
  <2> QED
    BY <1>1, <2>1 DEF Enter
<1>2. CASE Lock(t) \/ Unlock(t) \/ CheckLock(t) \/ DropLock(t)
  BY <1>2 DEF Lock, Unlock, CheckLock, DropLock
<1>3. CASE RemoveLock(t)
  BY <1>3 DEF RemoveLock
<1>4. CASE Tick(t)
  <2>1. [ts |-> clock + 1, rep |-> Self, dead |-> KindOf[t] = "delete"] \in Op
    BY LwwAssumption DEF Op
  <2> QED
    BY <1>4, <2>1 DEF Tick
<1>5. CASE Record(t)
  BY <1>5 DEF Record
<1>6. CASE Store(t) \/ AppendOp(t) \/ Notify(t)
  BY <1>6 DEF Store, AppendOp, Notify
<1>7. CASE Filter(t)
  <2>1. {o \in Batch[t] : \A p \in log : ~SameVersion(o, p)} \in SUBSET Op
    BY LwwAssumption
  <2> QED
    BY <1>7, <2>1 DEF Filter
<1>8. CASE MergeBatch(t) \/ ValuesBefore(t) \/ Changes(t)
  BY <1>8 DEF MergeBatch, ValuesBefore, Changes
<1>9. CASE Observe(t)
  <2>1. Oldest(todo[t]) \in todo[t]
    BY <1>9, OldestExists DEF Observe
  <2>2. Oldest(todo[t]) \in Op
    BY <2>1
  <2>3. clock' \in Nat
    BY <1>9, <2>2 DEF Observe, Op
  <2> QED
    BY <1>9, <2>2, <2>3 DEF Observe
<1> QED
  BY <1>1, <1>2, <1>3, <1>4, <1>5, <1>6, <1>7, <1>8, <1>9 DEF Step

-------------------------------------------------------------------------------
(* The lock.                                                               *)

(* A task that finds only itself and the map holding the mutex is the only *)
(* one with a reference to it.                                             *)
LEMMA SoleReference ==
  ASSUME WriteTypes, NEW t \in Task, ref[t] = mapped, StrongCount(mapped) <= 2,
         NEW u \in Task, ref[u] = mapped
  PROVE  u = t
<1> DEFINE S == {v \in Task : ref[v] = mapped}
<1>1. IsFiniteSet(S)
  BY LwwAssumption, FS_Subset
<1>2. Cardinality(S) \in Nat
  BY <1>1, FS_CardinalityType
<1>3. Cardinality(S) <= 1
  BY <1>2 DEF StrongCount
<1>4. t \in S /\ u \in S
  OBVIOUS
<1>5. IsFiniteSet({t, u}) /\ (t # u => Cardinality({t, u}) = 2)
  <2>1. IsFiniteSet({t}) /\ Cardinality({t}) = 1
    BY FS_Singleton
  <2>2. {t, u} = {t} \cup {u}
    OBVIOUS
  <2>3. IsFiniteSet({t} \cup {u})
    BY <2>1, FS_AddElement
  <2>4. t # u => Cardinality({t} \cup {u}) = Cardinality({t}) + 1
    BY <2>1, FS_AddElement
  <2> QED
    BY <2>1, <2>2, <2>3, <2>4
<1>6. Cardinality({t, u}) <= Cardinality(S)
  BY <1>1, <1>4, FS_Subset
<1> QED
  BY <1>2, <1>3, <1>5, <1>6

LEMMA LockPreserved ==
  ASSUME WriteTypes, LockInv, NEW t \in Task, Step(t)
  PROVE  LockInv'
<1> USE DEF WriteTypes, Locations, LockInv, Critical, Goto, locks
<1>1. CASE Enter(t)
  <2>1. PICK lock \in Nat \ {0} : /\ mapped # 0 => lock = mapped
                                  /\ mapped' = lock
                                  /\ ref' = [ref EXCEPT ![t] = lock]
    BY <1>1, EnterFacts
  <2> QED
    BY <1>1, <2>1 DEF Enter
<1>2. CASE Lock(t)
  BY <1>2 DEF Lock, IsHeld
<1>3. CASE Unlock(t) \/ CheckLock(t)
  BY <1>3 DEF Unlock, CheckLock
<1>4. CASE DropLock(t)
  BY <1>4 DEF DropLock
<1>5. CASE RemoveLock(t)
  <2>1. CASE mapped' = mapped
    BY <1>5, <2>1 DEF RemoveLock
  <2>2. CASE mapped' # mapped
    <3>1. ref[t] = mapped /\ StrongCount(mapped) <= 2
      BY <1>5, <2>2 DEF RemoveLock
    <3>2. \A u \in Task : u # t => pc[u] \notin Critical \cup {"lock"}
      BY <3>1, SoleReference
    <3> QED
      BY <1>5, <3>2 DEF RemoveLock
  <2> QED
    BY <2>1, <2>2
<1>6. CASE Tick(t) \/ Record(t) \/ Store(t) \/ AppendOp(t)
  BY <1>6 DEF Tick, Record, Store, AppendOp
<1>7. CASE Notify(t) \/ Filter(t) \/ MergeBatch(t) \/ ValuesBefore(t)
  BY <1>7 DEF Notify, Filter, MergeBatch, ValuesBefore
<1>8. CASE Observe(t) \/ Changes(t)
  BY <1>8 DEF Observe, Changes
<1> QED
  BY <1>1, <1>2, <1>3, <1>4, <1>5, <1>6, <1>7, <1>8 DEF Step

-------------------------------------------------------------------------------
(* The bytes.                                                              *)

Holds(o) == IF o = NoOp THEN NoOp ELSE Bytes(o)

LEMMA BytesPreserved ==
  ASSUME WriteTypes, LockInv, BytesInv, ClockInv, NEW t \in Task,
         Step(t)
  PROVE  BytesInv'
<1> USE DEF WriteTypes, Locations, Critical, Goto, engine, Unapplied, IsLocal
<1>a. \A u \in Task : pc[u] = "log" => IsLocal(u)
  BY DEF BytesInv
<1>b. \A u \in Task : Unapplied(u) => op[u] = meta /\ meta \in Op
  BY DEF BytesInv
<1>c. (\A u \in Task : ~Unapplied(u)) => store = Holds(meta)
  BY DEF BytesInv, StoreMatchesWinner, Holds
<1>d. SUFFICES /\ (\A u \in Task : ~Unapplied(u)') => store' = Holds(meta')
               /\ \A u \in Task : Unapplied(u)' => op'[u] = meta' /\ meta' \in Op
               /\ \A u \in Task : pc'[u] = "log" => IsLocal(u)
  BY DEF BytesInv, StoreMatchesWinner, Holds
<1>e. ASSUME NEW u \in Task, u # t, pc[t] \in Critical
      PROVE  ~Unapplied(u)
  BY <1>e DEF LockInv
<1>1. CASE Record(t)
  <2>1. \A u \in Task : ~Unapplied(u)
    BY <1>1, <1>e DEF Record
  <2>2. CASE Accepts(op[t])
    <3>1. meta' = op[t] /\ op[t] \in Op
      BY <1>1, <2>2 DEF Record, ClockInv
    <3>2. pc' = [pc EXCEPT ![t] = IF KindOf[t] = "delete" THEN "log" ELSE "store"]
      BY <1>1, <2>2 DEF Record
    <3>3. Unapplied(t)'
      BY <3>2
    <3> QED
      BY <1>1, <1>a, <2>1, <3>1, <3>2, <3>3 DEF Record
  <2>3. CASE ~Accepts(op[t])
    BY <1>1, <1>a, <1>c, <2>1, <2>3 DEF Record
  <2> QED
    BY <2>2, <2>3
<1>2. CASE Store(t)
  <2>1. op[t] = meta /\ meta \in Op
    BY <1>2, <1>b DEF Store
  <2>2. store' = Holds(meta')
    BY <1>2, <2>1, LwwAssumption DEF Store, Holds
  <2>3. \A u \in Task : ~Unapplied(u)'
    BY <1>2, <1>e DEF Store
  <2>4. \A u \in Task : pc'[u] = "log" => IsLocal(u)
    BY <1>2, <1>a DEF Store
  <2> QED
    BY <2>2, <2>3, <2>4
<1>3. CASE AppendOp(t)
  <2>1. \A u \in Task : Unapplied(u)' => Unapplied(u)
    BY <1>3, <1>a DEF AppendOp
  <2>2. (\A u \in Task : ~Unapplied(u)') => \A u \in Task : ~Unapplied(u)
    BY <1>3, <1>e, <1>a DEF AppendOp
  <2> QED
    BY <1>3, <1>a, <1>b, <1>c, <2>1, <2>2 DEF AppendOp
<1>4. CASE Tick(t)
  BY <1>4, <1>a, <1>b, <1>c DEF Tick
<1>5. CASE Enter(t) \/ Lock(t) \/ Unlock(t) \/ CheckLock(t)
  BY <1>5, <1>a, <1>b, <1>c DEF Enter, Lock, Unlock, CheckLock
<1>6. CASE RemoveLock(t) \/ DropLock(t) \/ Notify(t)
  BY <1>6, <1>a, <1>b, <1>c DEF RemoveLock, DropLock, Notify
<1>7. CASE Filter(t) \/ MergeBatch(t) \/ ValuesBefore(t)
  BY <1>7, <1>a, <1>b, <1>c DEF Filter, MergeBatch, ValuesBefore
<1>8. CASE Observe(t) \/ Changes(t)
  BY <1>8, <1>a, <1>b, <1>c DEF Observe, Changes
<1> QED
  BY <1>1, <1>2, <1>3, <1>4, <1>5, <1>6, <1>7, <1>8 DEF Step

-------------------------------------------------------------------------------
(* The clock.                                                              *)

LEMMA ClockPreserved ==
  ASSUME WriteTypes, WriteTypes', LockInv, ClockInv, NEW t \in Task, Step(t)
  PROVE  ClockInv'
<1> USE DEF WriteTypes, Locations, Critical, Goto, engine, ClockInv
<1>1. CASE Tick(t)
  <2>1. /\ op'[t] = [ts |-> clock + 1, rep |-> Self, dead |-> KindOf[t] = "delete"]
        /\ \A u \in Task : u # t => op'[u] = op[u] /\ pc'[u] = pc[u]
        /\ pc'[t] = "record" /\ clock' = clock + 1 /\ meta' = meta
    BY <1>1 DEF Tick
  <2>2. op'[t] \in Op /\ op'[t].ts = clock + 1
    BY <2>1, LwwAssumption DEF Op
  <2>3. meta # NoOp => meta.ts \in Nat
    BY DEF Op
  <2>4. \A u \in Task : op[u] \in Op => op[u].ts \in Nat
    BY DEF Op
  <2> QED
    BY <2>1, <2>2, <2>3, <2>4
<1>2. CASE Record(t)
  <2>1. \A u \in Task : u # t => pc[u] # "record"
    BY <1>2 DEF Record, LockInv
  <2>2. op[t] \in Op /\ op[t].ts <= clock
    BY <1>2 DEF Record
  <2>3. meta' = meta \/ meta' = op[t]
    BY <1>2 DEF Record
  <2>4. \A u \in Task : pc'[u] # "record" /\ (u # t => pc'[u] = pc[u])
    BY <1>2, <2>1 DEF Record
  <2>5. clock' = clock /\ op' = op /\ pc'[t] \notin {"enter", "lock"}
    BY <1>2 DEF Record
  <2> QED
    BY <2>2, <2>3, <2>4, <2>5
<1>3. CASE Observe(t)
  <2>1. Oldest(todo[t]) \in Op
    BY <1>3, OldestExists DEF Observe
  <2>2. /\ op'[t] = Oldest(todo[t])
        /\ \A u \in Task : u # t => op'[u] = op[u] /\ pc'[u] = pc[u]
        /\ pc'[t] = "enter" /\ meta' = meta
        /\ clock' = (IF op'[t].ts > clock THEN op'[t].ts ELSE clock) + 1
    BY <1>3 DEF Observe
  <2>3. op'[t].ts \in Nat
    BY <2>1, <2>2 DEF Op
  <2>4. op'[t].ts <= clock' /\ clock <= clock'
    BY <2>2, <2>3
  <2>5. meta # NoOp => meta.ts \in Nat
    BY DEF Op
  <2>6. \A u \in Task : op[u] \in Op => op[u].ts \in Nat
    BY DEF Op
  <2> QED
    BY <2>1, <2>2, <2>4, <2>5, <2>6
<1>4. CASE Lock(t)
  BY <1>4 DEF Lock
<1>5. CASE Enter(t)
  BY <1>5 DEF Enter
<1>6. CASE Unlock(t) \/ CheckLock(t) \/ RemoveLock(t) \/ DropLock(t) \/ Notify(t)
  BY <1>6 DEF Unlock, CheckLock, RemoveLock, DropLock, Notify
<1>7. CASE Store(t) \/ AppendOp(t)
  BY <1>7 DEF Store, AppendOp
<1>8. CASE Filter(t) \/ MergeBatch(t) \/ ValuesBefore(t) \/ Changes(t)
  BY <1>8 DEF Filter, MergeBatch, ValuesBefore, Changes
<1> QED
  BY <1>1, <1>2, <1>3, <1>4, <1>5, <1>6, <1>7, <1>8 DEF Step

-------------------------------------------------------------------------------

LEMMA WriteInitial ==
  Init => WriteInv
<1> SUFFICES ASSUME Init PROVE WriteInv
  OBVIOUS
<1>1. WriteTypes
  BY KindFacts DEF Init, WriteTypes, Locations, Critical
<1>2. \A t \in Task : pc[t] \in {"enter", "filter"} /\ (pc[t] = "enter" => IsLocal(t))
  BY KindFacts DEF Init
<1>3. LockInv
  BY <1>2 DEF LockInv, Critical
<1>4. BytesInv
  BY <1>2 DEF Init, BytesInv, StoreMatchesWinner, Unapplied
<1>5. ClockInv
  BY <1>2 DEF Init, ClockInv
<1> QED
  BY <1>1, <1>3, <1>4, <1>5 DEF WriteInv

LEMMA WritePreserved ==
  WriteInv /\ [Next]_vars => WriteInv'
<1> SUFFICES ASSUME WriteInv, [Next]_vars PROVE WriteInv'
  OBVIOUS
<1>1. ASSUME NEW t \in Task, Step(t)
      PROVE  WriteInv'
  <2>1. Step(t)
    BY <1>1
  <2>2. WriteTypes'
    BY <2>1, TypesPreserved DEF WriteInv
  <2>3. LockInv'
    BY <2>1, LockPreserved DEF WriteInv
  <2>4. BytesInv'
    BY <2>1, BytesPreserved DEF WriteInv
  <2>5. ClockInv'
    BY <2>1, <2>2, ClockPreserved DEF WriteInv
  <2> QED
    BY <2>2, <2>3, <2>4, <2>5 DEF WriteInv
<1>2. CASE UNCHANGED vars
  BY <1>2 DEF vars, engine, locks, batch, WriteInv, WriteTypes, LockInv, BytesInv,
    ClockInv, StoreMatchesWinner, Unapplied
<1> QED
  BY <1>1, <1>2 DEF Next, Terminated

(* For any number of puts, deletes and batches on a key, the bytes get     *)
(* returns are those of the version that won.                              *)
THEOREM WritesAreSerial ==
  Spec => []StoreMatchesWinner
<1>1. WriteInv => StoreMatchesWinner
  BY DEF WriteInv, BytesInv
<1> QED
  BY <1>1, WriteInitial, WritePreserved, PTL DEF Spec

(* For any number of puts, deletes and batches on a key,                   *)
(* record_insert_metadata and record_remove_metadata accept every local    *)
(* write: the tick taken under the key's lock is newer than any version    *)
(* the metadata can hold, batches being applied included.                  *)
THEOREM LocalWritesAlwaysWin ==
  Spec => []LocalWriteWins
<1>1. WriteInv => LocalWriteWins
  <2> SUFFICES ASSUME WriteInv, NEW t \in Task, IsLocal(t), pc[t] = "record"
               PROVE  Accepts(op[t])
    BY DEF LocalWriteWins
  <2>1. op[t] \in Op /\ (meta # NoOp => op[t].ts > meta.ts)
    BY DEF WriteInv, ClockInv
  <2>2. op[t].ts \in Nat /\ (meta # NoOp => meta.ts \in Nat)
    BY <2>1 DEF WriteInv, WriteTypes, Op
  <2> QED
    BY <2>1, <2>2 DEF Accepts, Newer, SameVersion
<1> QED
  BY <1>1, WriteInitial, WritePreserved, PTL DEF Spec

-------------------------------------------------------------------------------
(* Versions are ordered.                                                   *)

LEMMA NewerFacts ==
  ASSUME NEW o \in Op, NEW p \in Op, NEW q \in Op
  PROVE  /\ ~Newer(o, o)
         /\ Newer(o, p) => ~Newer(p, o)
         /\ ~Newer(o, p) /\ ~Newer(p, q) => ~Newer(o, q)
         /\ ~Newer(o, p) /\ ~Newer(p, o) => SameVersion(o, p)
         /\ SameVersion(o, p) => ~Newer(o, p)
  <1>1. /\ o.ts \in Nat /\ p.ts \in Nat /\ q.ts \in Nat
        /\ o.rep \in Nat /\ p.rep \in Nat /\ q.rep \in Nat
    BY DEF Op
  <1> QED
    BY <1>1 DEF Newer, SameVersion

(* A finite, non-empty set of operations has a newest one: a smallest set  *)
(* without one would have one, found by taking an element away.            *)
LEMMA NewestExists ==
  ASSUME NEW S \in SUBSET Op, IsFiniteSet(S), S # {}
  PROVE  \E o \in S : \A p \in S : ~Newer(p, o)
<1> DEFINE HasNewest(A) == \E o \in A : \A p \in A : ~Newer(p, o)
           Bad == {A \in SUBSET S : A # {} /\ ~HasNewest(A)}
           sizes == {Cardinality(A) : A \in Bad}
<1>1. \A A \in SUBSET S : IsFiniteSet(A) /\ Cardinality(A) \in Nat
  BY FS_Subset, FS_CardinalityType
<1>2. SUFFICES ASSUME ~HasNewest(S) PROVE FALSE
  OBVIOUS
<1>3. S \in Bad
  BY <1>2
<1>4. sizes \in SUBSET Nat /\ sizes # {}
  BY <1>1, <1>3
<1>5. PICK n \in sizes : \A m \in sizes : n <= m
  BY <1>4, LeastElement
<1>6. PICK A \in Bad : n = Cardinality(A)
  BY <1>5
<1>7. A \in SUBSET S /\ A # {} /\ ~HasNewest(A)
  BY <1>6
<1>8. PICK o \in A : TRUE
  BY <1>7
<1> DEFINE B == A \ {o}
<1>9. IsFiniteSet(A) /\ Cardinality(A) \in Nat
  BY <1>1, <1>7
<1>10. Cardinality(B) = Cardinality(A) - 1
  BY <1>8, <1>9, FS_RemoveElement
<1>11. B \notin Bad
  <2>1. SUFFICES ASSUME B \in Bad PROVE FALSE
    OBVIOUS
  <2>2. Cardinality(B) \in sizes
    BY <2>1
  <2>3. n <= Cardinality(B)
    BY <1>5, <2>2
  <2> QED
    BY <1>6, <1>9, <1>10, <2>3
<1>12. \A p \in A : p \in Op
  BY <1>7
<1>13. CASE B = {}
  <2>1. A = {o}
    BY <1>8, <1>13
  <2>2. ~Newer(o, o)
    BY <1>8, <1>12, NewerFacts
  <2> QED
    BY <1>7, <2>1, <2>2
<1>14. CASE B # {}
  <2>1. HasNewest(B)
    BY <1>7, <1>11, <1>14
  <2>2. PICK b \in B : \A p \in B : ~Newer(p, b)
    BY <2>1
  <2>3. CASE ~Newer(o, b)
    BY <1>7, <2>2, <2>3
  <2>4. CASE Newer(o, b)
    <3>1. ~Newer(b, o) /\ ~Newer(o, o)
      BY <1>8, <1>12, <2>2, <2>4, NewerFacts
    <3>2. \A p \in B : ~Newer(p, o)
      BY <1>8, <1>12, <2>2, <3>1, NewerFacts
    <3> QED
      BY <1>7, <1>8, <3>1, <3>2
  <2> QED
    BY <2>3, <2>4
<1> QED
  BY <1>13, <1>14

LEMMA FoldFacts ==
  ASSUME NEW S \in SUBSET Op, IsFiniteSet(S), S # {}
  PROVE  LwwFold(S) \in S /\ \A p \in S : ~Newer(p, LwwFold(S))
  BY NewestExists DEF LwwFold

(* Where versions are unique, nothing but the newest operation is the fold. *)
LEMMA FoldIsNewest ==
  ASSUME NEW S \in SUBSET Op, NEW m \in S, \A p \in S : ~Newer(p, m),
         \A p \in S : SameVersion(p, m) => p = m
  PROVE  LwwFold(S) = m
<1>1. \A o \in S : (\A p \in S : ~Newer(p, o)) => o = m
  BY NewerFacts
<1> QED
  BY <1>1 DEF LwwFold
-------------------------------------------------------------------------------
(* What the tasks are applying, and where it comes from.                   *)

DataTypes ==
  /\ store \in Op \cup {NoOp}
  /\ log \in SUBSET Op
  /\ IsFiniteSet(log)
  /\ before \in [Task -> Op \cup {NoOp}]
  /\ announced \in BOOLEAN

(* A local write has its operation from the tick on ...                    *)
LocalInv(t) ==
  /\ todo[t] = {}
  /\ op[t] = NoOp <=> pc[t] \in {"enter", "lock", "tick"}
  /\ op[t] # NoOp => op[t].rep = Self /\ op[t].ts <= clock
  /\ pc[t] \notin {"filter", "merge", "snapshot", "observe"}

(* ... and a batch applies its own operations, none before the merge.      *)
RemoteInv(t) ==
  /\ todo[t] \subseteq Batch[t]
  /\ op[t] \in Batch[t] \cup {NoOp}
  /\ pc[t] \in {"enter", "lock", "record", "store"} => op[t] # NoOp
  /\ pc[t] \in {"filter", "merge", "snapshot"} => op[t] = NoOp
  /\ pc[t] \in {"filter", "done", "notify"} => todo[t] = {}
  /\ pc[t] = "merge" => todo[t] # {}
  /\ pc[t] \notin {"tick", "log"}

OpsInv ==
  /\ DataTypes
  /\ \A t \in Task : IsLocal(t) => LocalInv(t)
  /\ \A t \in Task : ~IsLocal(t) => RemoteInv(t)
  /\ \A t, u \in Task :
       IsLocal(t) /\ IsLocal(u) /\ t # u /\ op[t] # NoOp /\ op[u] # NoOp
         => op[t].ts # op[u].ts
  /\ meta # NoOp => meta \in Issued
  /\ log \subseteq Issued

LEMMA DataPreserved ==
  ASSUME WriteInv, OpsInv, NEW t \in Task, Step(t)
  PROVE  DataTypes'
<1> USE DEF DataTypes, Goto, engine, batch
<1>0. DataTypes /\ WriteTypes
  BY DEF OpsInv, WriteInv
<1>1. CASE Enter(t) \/ Lock(t) \/ Unlock(t) \/ CheckLock(t)
  BY <1>0, <1>1 DEF Enter, Lock, Unlock, CheckLock
<1>2. CASE RemoveLock(t) \/ DropLock(t) \/ Notify(t) \/ Record(t) \/ Tick(t)
  BY <1>0, <1>2 DEF RemoveLock, DropLock, Notify, Record, Tick
<1>3. CASE Filter(t) \/ ValuesBefore(t) \/ Observe(t) \/ Changes(t)
  BY <1>0, <1>3 DEF Filter, ValuesBefore, Observe, Changes
<1>4. CASE Store(t)
  <2>1. op[t] \in Op
    BY <1>4 DEF WriteInv, BytesInv, Unapplied, Store
  <2>2. announced' \in BOOLEAN
    BY <1>4 DEF Store
  <2>3. store' \in Op \cup {NoOp}
    BY <1>4, <2>1 DEF Store, Bytes
  <2> QED
    BY <1>0, <1>4, <2>2, <2>3 DEF Store
<1>5. CASE AppendOp(t)
  <2>1. op[t] \in Op
    BY <1>0, <1>5 DEF AppendOp, WriteInv, BytesInv, OpsInv, LocalInv, WriteTypes
  <2>2. log \cup {op[t]} \in SUBSET Op /\ IsFiniteSet(log \cup {op[t]})
    BY <1>0, <2>1, FS_AddElement
  <2>3. LwwFold(log \cup {op[t]}) \in log \cup {op[t]}
    BY <2>2, FoldFacts
  <2>4. IsFiniteSet({LwwFold(log \cup {op[t]})})
    BY FS_Singleton
  <2> QED
    BY <1>0, <1>5, <2>2, <2>3, <2>4 DEF AppendOp
<1>6. CASE MergeBatch(t)
  <2>1. ~IsLocal(t)
    BY <1>6 DEF MergeBatch, OpsInv, LocalInv
  <2>2. todo[t] # {} /\ todo[t] \subseteq Batch[t]
    BY <1>6, <2>1 DEF MergeBatch, OpsInv, RemoteInv
  <2>3. IsFiniteSet(todo[t])
    BY <2>2, LwwAssumption, FS_Subset
  <2>4. log \cup todo[t] \in SUBSET Op /\ IsFiniteSet(log \cup todo[t])
    BY <1>0, <2>2, <2>3, LwwAssumption, FS_Union
  <2>5. LwwFold(log \cup todo[t]) \in log \cup todo[t]
    BY <2>2, <2>4, FoldFacts
  <2>6. IsFiniteSet({LwwFold(log \cup todo[t])})
    BY FS_Singleton
  <2> QED
    BY <1>0, <1>6, <2>4, <2>5, <2>6 DEF MergeBatch
<1> QED
  BY <1>1, <1>2, <1>3, <1>4, <1>5, <1>6 DEF Step

LEMMA LocalPreserved ==
  ASSUME WriteInv, OpsInv, NEW t \in Task, Step(t), NEW u \in Task, IsLocal(u)
  PROVE  LocalInv(u)'
<1> USE DEF LocalInv, Goto, engine, batch
<1>0. LocalInv(u) /\ WriteTypes
  BY DEF OpsInv, WriteInv
<1>a. op[u] # NoOp => op[u].ts \in Nat
  BY <1>0 DEF WriteTypes, Op
<1>1. CASE Enter(t) \/ Lock(t) \/ Unlock(t) \/ CheckLock(t)
  BY <1>0, <1>1 DEF Enter, Lock, Unlock, CheckLock, WriteTypes
<1>2. CASE RemoveLock(t) \/ DropLock(t) \/ Notify(t)
  BY <1>0, <1>2 DEF RemoveLock, DropLock, Notify, WriteTypes
<1>3. CASE Record(t)
  BY <1>0, <1>3 DEF Record, WriteTypes
<1>4. CASE Store(t) \/ AppendOp(t)
  BY <1>0, <1>4 DEF Store, AppendOp, WriteTypes
<1>5. CASE Tick(t)
  <2>1. [ts |-> clock + 1, rep |-> Self, dead |-> KindOf[t] = "delete"] \in Op
    BY <1>0, LwwAssumption DEF Op, WriteTypes
  <2> QED
    BY <1>0, <1>a, <1>5, <2>1, LwwAssumption DEF Tick, WriteTypes
<1>6. CASE Filter(t) \/ MergeBatch(t) \/ ValuesBefore(t) \/ Changes(t)
  BY <1>0, <1>6 DEF Filter, MergeBatch, ValuesBefore, Changes, WriteTypes
<1>7. CASE Observe(t)
  <2>1. u # t
    BY <1>0, <1>7 DEF Observe
  <2>2. Oldest(todo[t]) \in Op
    BY <1>0, <1>7, OldestExists DEF Observe, WriteTypes
  <2>3. clock' >= clock
    BY <1>0, <1>7, <2>2 DEF Observe, WriteTypes, Op
  <2>4. clock' \in Nat /\ clock \in Nat
    BY <1>0, <1>7, <2>2 DEF Observe, WriteTypes, Op
  <2>5. /\ op'[u] = op[u] /\ todo'[u] = todo[u] /\ pc'[u] = pc[u]
    BY <1>0, <1>7, <2>1 DEF Observe, WriteTypes
  <2> QED
    BY <1>0, <1>a, <2>3, <2>4, <2>5
<1> QED
  BY <1>1, <1>2, <1>3, <1>4, <1>5, <1>6, <1>7 DEF Step

LEMMA RemotePreserved ==
  ASSUME WriteInv, OpsInv, NEW t \in Task, Step(t), NEW u \in Task, ~IsLocal(u)
  PROVE  RemoteInv(u)'
<1> USE DEF RemoteInv, Goto, engine, batch
<1>0. RemoteInv(u) /\ WriteTypes
  BY DEF OpsInv, WriteInv
<1>a. \A o \in Batch[u] : o # NoOp
  BY LwwAssumption
<1>b. KindOf[u] \notin {"put", "delete"}
  BY DEF IsLocal
<1>1. CASE Enter(t) \/ Lock(t) \/ Unlock(t) \/ CheckLock(t)
  BY <1>0, <1>1 DEF Enter, Lock, Unlock, CheckLock, WriteTypes
<1>2. CASE RemoveLock(t) \/ DropLock(t) \/ Notify(t)
  BY <1>0, <1>2 DEF RemoveLock, DropLock, Notify, WriteTypes
<1>3. CASE Record(t)
  BY <1>0, <1>b, <1>3 DEF Record, WriteTypes
<1>4. CASE Store(t) \/ AppendOp(t)
  BY <1>0, <1>b, <1>4 DEF Store, AppendOp, WriteTypes
<1>5. CASE Tick(t)
  <2>1. u # t
    BY <1>0, <1>5 DEF Tick
  <2> QED
    BY <1>0, <1>5, <2>1 DEF Tick, WriteTypes
<1>6. CASE Filter(t) \/ MergeBatch(t) \/ ValuesBefore(t) \/ Changes(t)
  BY <1>0, <1>6 DEF Filter, MergeBatch, ValuesBefore, Changes, WriteTypes
<1>7. CASE Observe(t)
  <2>1. Oldest(todo[t]) \in todo[t]
    BY <1>0, <1>7, OldestExists DEF Observe, WriteTypes
  <2> QED
    BY <1>0, <1>a, <1>7, <2>1 DEF Observe, WriteTypes
<1> QED
  BY <1>1, <1>2, <1>3, <1>4, <1>5, <1>6, <1>7 DEF Step
-------------------------------------------------------------------------------
(* The operations the metadata and the log may come from.                  *)

(* A step forgets no operation that was issued, and a local write keeps    *)
(* the operation it has.                                                   *)
LEMMA IssuedGrows ==
  ASSUME WriteInv, OpsInv, NEW t \in Task, Step(t)
  PROVE  /\ \A u \in Task : IsLocal(u) /\ op[u] # NoOp => op'[u] = op[u]
         /\ \A o \in Issued : o # NoOp => o \in Issued'
<1>0. WriteTypes /\ \A u \in Task : IsLocal(u) => LocalInv(u)
  BY DEF OpsInv, WriteInv
<1>1. \A u \in Task : IsLocal(u) /\ op[u] # NoOp => op'[u] = op[u]
  <2> SUFFICES ASSUME NEW u \in Task, IsLocal(u), op[u] # NoOp
               PROVE  op'[u] = op[u]
    OBVIOUS
  <2>1. LocalInv(u)
    BY <1>0
  <2>2. CASE Tick(t)
    BY <1>0, <2>1, <2>2 DEF LocalInv, Tick, WriteTypes
  <2>3. CASE Observe(t)
    BY <1>0, <2>1, <2>3 DEF LocalInv, Observe, WriteTypes
  <2>4. CASE ~Tick(t) /\ ~Observe(t)
    BY <2>4 DEF Step, Enter, Lock, Unlock, CheckLock, RemoveLock, DropLock, Record,
      Store, AppendOp, Notify, Filter, MergeBatch, ValuesBefore, Changes
  <2> QED
    BY <2>2, <2>3, <2>4
<1>2. ASSUME NEW o \in Issued, o # NoOp
      PROVE  o \in Issued'
  <2>1. CASE \E u \in Task : IsLocal(u) /\ o = op[u]
    <3>1. PICK u \in Task : IsLocal(u) /\ o = op[u]
      BY <2>1
    <3>2. o = op'[u]
      BY <1>1, <1>2, <3>1
    <3> QED
      BY <3>1, <3>2 DEF Issued, IsLocal
  <2>2. CASE \E u \in Task : KindOf[u] = "remote" /\ o \in Batch[u]
    BY <2>2 DEF Issued
  <2> QED
    BY <2>1, <2>2 DEF Issued
<1> QED
  BY <1>1, <1>2

LEMMA IssuedFacts ==
  /\ \A u \in Task : IsLocal(u) => op[u] \in Issued
  /\ \A u \in Task : ~IsLocal(u) => Batch[u] \subseteq Issued
  /\ \A o \in Issued : \/ \E u \in Task : IsLocal(u) /\ o = op[u]
                       \/ \E u \in Task : ~IsLocal(u) /\ o \in Batch[u]
  BY KindFacts DEF Issued, IsLocal

(* No two operations that were issued have the same version.               *)
LEMMA IssuedUnique ==
  ASSUME WriteInv, OpsInv, NEW o \in Issued, NEW p \in Issued,
         o # NoOp, p # NoOp, SameVersion(o, p)
  PROVE  o = p
<1>1. CASE (\E u \in Task : IsLocal(u) /\ o = op[u]) /\ (\E u \in Task : IsLocal(u) /\ p = op[u])
  BY <1>1 DEF OpsInv, SameVersion
<1>2. CASE (\E u \in Task : IsLocal(u) /\ o = op[u]) /\ (\E u \in Task : ~IsLocal(u) /\ p \in Batch[u])
  BY <1>2, VersionsAssumption, KindFacts DEF OpsInv, LocalInv, SameVersion, IsLocal
<1>3. CASE (\E u \in Task : ~IsLocal(u) /\ o \in Batch[u]) /\ (\E u \in Task : IsLocal(u) /\ p = op[u])
  BY <1>3, VersionsAssumption, KindFacts DEF OpsInv, LocalInv, SameVersion, IsLocal
<1>4. CASE (\E u \in Task : ~IsLocal(u) /\ o \in Batch[u]) /\ (\E u \in Task : ~IsLocal(u) /\ p \in Batch[u])
  BY <1>4, VersionsAssumption, KindFacts DEF SameVersion, IsLocal
<1> QED
  BY <1>1, <1>2, <1>3, <1>4, IssuedFacts

(* What the steps that write the log put into it.                          *)
LEMMA LogFacts ==
  ASSUME WriteInv, OpsInv, NEW t \in Task, Step(t)
  PROVE  /\ log' = log \/ AppendOp(t) \/ MergeBatch(t)
         /\ AppendOp(t) => /\ op[t] \in Op /\ IsLocal(t)
                           /\ \A o \in log' : o \in log \/ o = op[t]
                           /\ \A o \in log \cup {op[t]} : \E p \in log' : ~Newer(o, p)
         /\ MergeBatch(t) => /\ ~IsLocal(t)
                             /\ \A o \in log' : o \in log \/ o \in todo[t]
                             /\ \A o \in log \cup todo[t] : \E p \in log' : ~Newer(o, p)
<1>0. WriteTypes /\ DataTypes
  BY DEF OpsInv, WriteInv
<1>1. log' = log \/ AppendOp(t) \/ MergeBatch(t)
  BY DEF Step, engine, Enter, Lock, Unlock, CheckLock, RemoveLock, DropLock, Tick,
    Record, Store, Notify, Filter, ValuesBefore, Observe, Changes
<1>2. ASSUME AppendOp(t)
      PROVE  /\ op[t] \in Op /\ IsLocal(t)
             /\ \A o \in log' : o \in log \/ o = op[t]
             /\ \A o \in log \cup {op[t]} : \E p \in log' : ~Newer(o, p)
  <2> DEFINE S == log \cup {op[t]}
  <2>1. op[t] \in Op /\ IsLocal(t)
    BY <1>0, <1>2 DEF AppendOp, WriteInv, BytesInv, OpsInv, LocalInv, WriteTypes
  <2>2. S \in SUBSET Op /\ IsFiniteSet(S) /\ S # {}
    BY <1>0, <2>1, FS_AddElement DEF DataTypes
  <2>3. log' = S \/ log' = {LwwFold(S)}
    BY <1>2 DEF AppendOp
  <2> HIDE DEF S
  <2>4. LwwFold(S) \in S /\ \A p \in S : ~Newer(p, LwwFold(S))
    BY <2>2, FoldFacts
  <2>5. \A o \in S : \E p \in log' : ~Newer(o, p)
    BY <2>2, <2>3, <2>4, NewerFacts
  <2>6. \A o \in log' : o \in S
    BY <2>3, <2>4
  <2> QED
    BY <2>1, <2>5, <2>6 DEF S
<1>3. ASSUME MergeBatch(t)
      PROVE  /\ ~IsLocal(t)
             /\ \A o \in log' : o \in log \/ o \in todo[t]
             /\ \A o \in log \cup todo[t] : \E p \in log' : ~Newer(o, p)
  <2> DEFINE S == log \cup todo[t]
  <2>1. ~IsLocal(t)
    BY <1>3 DEF MergeBatch, OpsInv, LocalInv
  <2>2. todo[t] # {} /\ todo[t] \subseteq Batch[t]
    BY <1>3, <2>1 DEF MergeBatch, OpsInv, RemoteInv
  <2>3. IsFiniteSet(todo[t])
    BY <2>2, LwwAssumption, FS_Subset
  <2>4. S \in SUBSET Op /\ IsFiniteSet(S) /\ S # {}
    BY <1>0, <2>2, <2>3, LwwAssumption, FS_Union DEF DataTypes
  <2>5. log' = {LwwFold(S)}
    BY <1>3 DEF MergeBatch
  <2> HIDE DEF S
  <2>6. LwwFold(S) \in S /\ \A p \in S : ~Newer(p, LwwFold(S))
    BY <2>4, FoldFacts
  <2> QED
    BY <2>1, <2>5, <2>6 DEF S
<1> QED
  BY <1>1, <1>2, <1>3

(* What Record does to the metadata.                                       *)
LEMMA MetaFacts ==
  ASSUME WriteInv, OpsInv, NEW t \in Task, Step(t)
  PROVE  /\ meta' = meta \/ (Record(t) /\ meta' = op[t])
         /\ Record(t) => /\ op[t] \in Op
                         /\ meta' # NoOp
                         /\ ~Newer(op[t], meta')
                         /\ meta # NoOp => ~Newer(meta, meta')
<1>0. WriteTypes
  BY DEF WriteInv
<1>1. meta' = meta \/ Record(t)
  BY DEF Step, engine, Enter, Lock, Unlock, CheckLock, RemoveLock, DropLock, Tick,
    AppendOp, MergeBatch, Store, Notify, Filter, ValuesBefore, Observe, Changes
<1>2. ASSUME Record(t)
      PROVE  /\ op[t] \in Op
             /\ meta' = meta \/ meta' = op[t]
             /\ meta' # NoOp
             /\ ~Newer(op[t], meta')
             /\ meta # NoOp => ~Newer(meta, meta')
  <2>1. op[t] \in Op /\ op[t] # NoOp
    BY <1>2, LwwAssumption DEF WriteInv, ClockInv, Record
  <2>2. meta # NoOp => meta \in Op
    BY <1>0 DEF WriteTypes
  <2>3. CASE Accepts(op[t])
    <3>1. meta' = op[t]
      BY <1>2, <2>3 DEF Record
    <3>2. meta # NoOp => ~Newer(meta, op[t])
      BY <2>3 DEF Accepts
    <3> QED
      BY <2>1, <3>1, <3>2, NewerFacts
  <2>4. CASE ~Accepts(op[t])
    <3>1. meta' = meta
      BY <1>2, <2>4 DEF Record
    <3>2. meta # NoOp /\ (Newer(meta, op[t]) \/ SameVersion(op[t], meta))
      BY <2>4 DEF Accepts
    <3> QED
      BY <2>1, <2>2, <3>1, <3>2, NewerFacts
  <2> QED
    BY <2>3, <2>4
<1> QED
  BY <1>1, <1>2

LEMMA OpsPreserved ==
  ASSUME WriteInv, OpsInv, NEW t \in Task, Step(t)
  PROVE  OpsInv'
<1>0. WriteTypes /\ DataTypes
  BY DEF OpsInv, WriteInv
<1>1. DataTypes'
  BY DataPreserved
<1>2. \A u \in Task : IsLocal(u) => LocalInv(u)'
  BY LocalPreserved
<1>3. \A u \in Task : ~IsLocal(u) => RemoteInv(u)'
  BY RemotePreserved
<1>4. ASSUME NEW u \in Task, NEW v \in Task, IsLocal(u), IsLocal(v), u # v,
             op'[u] # NoOp, op'[v] # NoOp
      PROVE  op'[u].ts # op'[v].ts
  <2>1. /\ LocalInv(u) /\ LocalInv(v)
        /\ op[u] # NoOp /\ op[v] # NoOp => op[u].ts # op[v].ts
    BY <1>4 DEF OpsInv
  <2>2. clock \in Nat /\ (op[u] # NoOp => op[u].ts \in Nat) /\ (op[v] # NoOp => op[v].ts \in Nat)
    BY <1>0, <1>4 DEF WriteTypes, Op
  <2>3. CASE Tick(t)
    <3>1. /\ op'[t].ts = clock + 1
          /\ \A w \in Task : w # t => op'[w] = op[w]
      BY <1>0, <2>3 DEF Tick, WriteTypes
    <3> QED
      BY <1>4, <2>1, <2>2, <3>1 DEF LocalInv
  <2>4. CASE Observe(t)
    <3>1. \A w \in Task : w # t => op'[w] = op[w]
      BY <1>0, <2>4 DEF Observe, WriteTypes
    <3>2. u # t /\ v # t
      BY <2>1, <2>4 DEF LocalInv, Observe
    <3> QED
      BY <1>4, <2>1, <3>1, <3>2
  <2>5. CASE ~Tick(t) /\ ~Observe(t)
    <3>1. op' = op
      BY <2>5 DEF Step, Enter, Lock, Unlock, CheckLock, RemoveLock, DropLock, Record,
        Store, AppendOp, Notify, Filter, MergeBatch, ValuesBefore, Changes
    <3> QED
      BY <1>4, <2>1, <3>1
  <2> QED
    BY <2>3, <2>4, <2>5
<1>5. \A o \in Issued : o # NoOp => o \in Issued'
  BY IssuedGrows
<1>6. ASSUME NEW u \in Task, op[u] \in Op
      PROVE  op[u] \in Issued
  BY <1>6, IssuedFacts, LwwAssumption DEF OpsInv, RemoteInv
<1>7. meta' # NoOp => meta' \in Issued'
  <2>1. meta' = meta \/ (meta' = op[t] /\ op[t] \in Op)
    BY MetaFacts
  <2> QED
    BY <1>5, <1>6, <2>1 DEF OpsInv
<1>8. log' \subseteq Issued'
  <2>1. ASSUME NEW o \in log'
        PROVE  o \in log \/ (o = op[t] /\ op[t] \in Op) \/ (~IsLocal(t) /\ o \in todo[t])
    BY <2>1, LogFacts
  <2>2. ASSUME NEW o \in log'
        PROVE  o \in Issued /\ o # NoOp
    <3>1. CASE o \in log
      BY <1>0, <3>1, LwwAssumption DEF OpsInv, DataTypes
    <3>2. CASE o = op[t] /\ op[t] \in Op
      BY <1>6, <3>2, LwwAssumption
    <3>3. CASE ~IsLocal(t) /\ o \in todo[t]
      BY <3>3, IssuedFacts, LwwAssumption DEF OpsInv, RemoteInv
    <3> QED
      BY <2>1, <2>2, <3>1, <3>2, <3>3
  <2> QED
    BY <1>5, <2>2
<1> QED
  BY <1>1, <1>2, <1>3, <1>4, <1>7, <1>8 DEF OpsInv, IsLocal
-------------------------------------------------------------------------------
(* No write is lost: whatever was issued is at most as new as the winner,  *)
(* or as an operation some task has still to record.                       *)

Pending(u) ==
  todo[u] \cup (IF pc[u] \in {"enter", "lock", "record"} THEN {op[u]} \ {NoOp} ELSE {})

Covered(o) ==
  \/ meta # NoOp /\ ~Newer(o, meta)
  \/ \E u \in Task : \E p \in Pending(u) : ~Newer(o, p)

CoverInv ==
  /\ \A o \in log : Covered(o)
  /\ \A t \in Task : IsLocal(t) /\ op[t] # NoOp => Covered(op[t])
  /\ \A t \in Task : ~IsLocal(t) /\ pc[t] # "filter" => \A o \in Batch[t] : Covered(o)

LEMMA OthersStay ==
  ASSUME WriteTypes, NEW t \in Task, Step(t), NEW u \in Task, u # t
  PROVE  pc'[u] = pc[u]
<1>1. \E where : pc' = [pc EXCEPT ![t] = where]
  <2>1. CASE Record(t)
    BY <2>1 DEF Record, Goto
  <2>2. CASE Filter(t)
    BY <2>2 DEF Filter, Goto
  <2>3. CASE ~Record(t) /\ ~Filter(t)
    BY <2>3 DEF Step, Goto, Enter, Lock, Unlock, CheckLock, RemoveLock, DropLock, Tick,
      Store, AppendOp, Notify, MergeBatch, ValuesBefore, Observe, Changes
  <2> QED
    BY <2>1, <2>2, <2>3
<1> QED
  BY <1>1 DEF WriteTypes

(* The operation a step stops waiting for is the one it records.           *)
LEMMA PendingFacts ==
  ASSUME WriteInv, OpsInv, NEW t \in Task, Step(t)
  PROVE  /\ \A u \in Task : u # t => Pending(u)' = Pending(u)
         /\ \A p \in Pending(t) : p \in Pending(t)' \/ (Record(t) /\ p = op[t])
<1>0. WriteTypes
  BY DEF WriteInv
<1> USE <1>0 DEF WriteTypes, Pending, Goto, batch
<1>a. IsLocal(t) => LocalInv(t)
  BY DEF OpsInv
<1>b. ~IsLocal(t) => RemoteInv(t)
  BY DEF OpsInv
<1>1. CASE Enter(t)
  BY <1>1 DEF Enter
<1>2. CASE Lock(t)
  BY <1>2, <1>a DEF Lock, LocalInv
<1>3. CASE Unlock(t) \/ CheckLock(t) \/ RemoveLock(t) \/ DropLock(t) \/ Notify(t)
  BY <1>3 DEF Unlock, CheckLock, RemoveLock, DropLock, Notify
<1>4. CASE Tick(t)
  BY <1>4 DEF Tick
<1>5. CASE Record(t)
  BY <1>5 DEF Record
<1>6. CASE Store(t) \/ AppendOp(t)
  BY <1>6 DEF Store, AppendOp
<1>7. CASE Filter(t)
  <2>1. todo[t] = {}
    BY <1>7, <1>a, <1>b DEF Filter, LocalInv, RemoteInv
  <2> QED
    BY <1>7, <2>1 DEF Filter
<1>8. CASE MergeBatch(t) \/ ValuesBefore(t) \/ Changes(t)
  BY <1>8 DEF MergeBatch, ValuesBefore, Changes
<1>9. CASE Observe(t)
  <2>1. Oldest(todo[t]) \in Op /\ Oldest(todo[t]) # NoOp
    BY <1>9, OldestExists, LwwAssumption DEF Observe
  <2> QED
    BY <1>9, <2>1 DEF Observe
<1> QED
  BY <1>1, <1>2, <1>3, <1>4, <1>5, <1>6, <1>7, <1>8, <1>9 DEF Step

LEMMA PendingType ==
  ASSUME WriteTypes, NEW u \in Task
  PROVE  Pending(u) \subseteq Op
  BY DEF WriteTypes, Pending

LEMMA CoverKept ==
  ASSUME WriteInv, WriteInv', OpsInv, NEW t \in Task, Step(t), NEW o \in Op, Covered(o)
  PROVE  Covered(o)'
<1>0. WriteTypes /\ WriteTypes'
  BY DEF WriteInv
<1>a. (meta \in Op \/ meta = NoOp) /\ (meta' \in Op \/ meta' = NoOp)
  BY <1>0 DEF WriteTypes
<1>1. CASE meta # NoOp /\ ~Newer(o, meta)
  <2>1. meta' # NoOp /\ (meta' = meta \/ ~Newer(meta, meta'))
    BY <1>1, MetaFacts
  <2>2. ~Newer(o, meta')
    BY <1>1, <1>a, <2>1, NewerFacts
  <2> QED
    BY <2>1, <2>2 DEF Covered
<1>2. CASE \E u \in Task : \E p \in Pending(u) : ~Newer(o, p)
  <2>1. PICK u \in Task : \E p \in Pending(u) : ~Newer(o, p)
    BY <1>2
  <2>2. PICK p \in Pending(u) : ~Newer(o, p)
    BY <2>1
  <2>3. p \in Op
    BY <1>0, <2>2, PendingType
  <2>4. CASE p \in Pending(u)'
    BY <2>2, <2>4 DEF Covered
  <2>5. CASE Record(t) /\ p = op[t]
    <3>1. meta' # NoOp /\ ~Newer(p, meta')
      BY <2>5, MetaFacts
    <3>2. ~Newer(o, meta')
      BY <1>a, <2>2, <2>3, <3>1, NewerFacts
    <3> QED
      BY <3>1, <3>2 DEF Covered
  <2> QED
    BY <2>2, <2>4, <2>5, PendingFacts
<1> QED
  BY <1>1, <1>2 DEF Covered

(* What is no newer than something covered is covered.                     *)
LEMMA CoverBelow ==
  ASSUME WriteTypes, NEW o \in Op, NEW p \in Op, ~Newer(o, p), Covered(p)
  PROVE  Covered(o)
<1>1. CASE meta # NoOp /\ ~Newer(p, meta)
  BY <1>1, NewerFacts DEF Covered, WriteTypes
<1>2. CASE \E u \in Task : \E q \in Pending(u) : ~Newer(p, q)
  BY <1>2, PendingType, NewerFacts DEF Covered
<1> QED
  BY <1>1, <1>2 DEF Covered

LEMMA CoverPreserved ==
  ASSUME WriteInv, WriteInv', OpsInv, OpsInv', CoverInv, NEW t \in Task, Step(t)
  PROVE  CoverInv'
<1>0. WriteTypes /\ DataTypes /\ WriteTypes'
  BY DEF OpsInv, WriteInv
<1>1. ASSUME NEW o \in log'
      PROVE  Covered(o)'
  <2>1. CASE o \in log
    <3>1. o \in Op /\ Covered(o)
      BY <1>0, <2>1 DEF CoverInv, DataTypes
    <3> QED
      BY <3>1, CoverKept
  <2>2. CASE AppendOp(t) /\ o = op[t]
    <3>1. op[t] \in Op /\ IsLocal(t)
      BY <2>2, LogFacts
    <3>2. Covered(o)
      BY <2>2, <3>1, LwwAssumption DEF CoverInv
    <3> QED
      BY <2>2, <3>1, <3>2, CoverKept
  <2>3. CASE MergeBatch(t) /\ o \in todo[t]
    <3>1. o \in Op
      BY <1>0, <2>3 DEF WriteTypes
    <3>2. ~Newer(o, o)
      BY <3>1, NewerFacts
    <3>3. Covered(o)
      BY <2>3, <3>2 DEF Covered, Pending
    <3> QED
      BY <3>1, <3>3, CoverKept
  <2> QED
    BY <1>1, <2>1, <2>2, <2>3, LogFacts
<1>2. ASSUME NEW u \in Task, IsLocal(u), op'[u] # NoOp
      PROVE  Covered(op[u])'
  <2>0. op'[u] \in Op
    BY <1>0, <1>2 DEF WriteTypes
  <2>1. CASE op[u] # NoOp
    <3>1. op'[u] = op[u]
      BY <1>2, <2>1, IssuedGrows
    <3>2. Covered(op[u])
      BY <1>2, <2>1 DEF CoverInv
    <3> DEFINE o == op[u]
    <3>3. o \in Op /\ Covered(o)
      BY <2>0, <3>1, <3>2
    <3>4. PICK c \in Op : c = o
      BY <3>3
    <3>5. Covered(c)'
      BY <3>2, <3>4, CoverKept
    <3>6. c = op'[u]
      BY <3>1, <3>4
    <3> QED
      BY <3>5, <3>6
  <2>2. CASE op[u] = NoOp
    <3>1. Tick(t) /\ u = t
      <4>1. CASE Tick(t)
        BY <1>0, <1>2, <2>2, <4>1 DEF Tick, WriteTypes
      <4>2. CASE Observe(t)
        <5>1. ~IsLocal(t)
          BY <4>2 DEF Observe, OpsInv, LocalInv
        <5> QED
          BY <1>0, <1>2, <2>2, <4>2, <5>1 DEF Observe, WriteTypes
      <4>3. CASE ~Tick(t) /\ ~Observe(t)
        BY <1>2, <2>2, <4>3 DEF Step, Enter, Lock, Unlock, CheckLock, RemoveLock, DropLock,
          Record, Store, AppendOp, Notify, Filter, MergeBatch, ValuesBefore, Changes
      <4> QED
        BY <4>1, <4>2, <4>3
    <3>2. pc'[u] = "record"
      BY <1>0, <3>1 DEF Tick, Goto, WriteTypes
    <3>3. op'[u] \in Pending(u)'
      BY <1>2, <3>2 DEF Pending
    <3>4. ~Newer(op'[u], op'[u])
      BY <2>0, NewerFacts
    <3> QED
      BY <3>3, <3>4 DEF Covered
  <2> QED
    BY <2>1, <2>2
<1>3. ASSUME NEW u \in Task, ~IsLocal(u), pc'[u] # "filter", NEW o \in Batch[u]
      PROVE  Covered(o)'
  <2>0. o \in Op
    BY LwwAssumption
  <2>1. CASE pc[u] # "filter"
    BY <1>3, <2>0, <2>1, CoverKept DEF CoverInv
  <2>2. CASE pc[u] = "filter"
    <3>a. u = t
      BY <1>0, <1>3, <2>2, OthersStay
    <3>1. Filter(t) /\ u = t
      BY <2>2, <3>a DEF Step, Enter, Lock, Unlock, CheckLock, RemoveLock, DropLock, Tick,
        Record, Store, AppendOp, Notify, MergeBatch, ValuesBefore, Observe, Changes
    <3>2. CASE \A p \in log : ~SameVersion(o, p)
      <4>1. o \in todo'[u]
        BY <1>0, <3>1, <3>2 DEF Filter, WriteTypes
      <4>2. ~Newer(o, o)
        BY <2>0, NewerFacts
      <4> QED
        BY <4>1, <4>2 DEF Covered, Pending
    <3>3. CASE \E p \in log : SameVersion(o, p)
      <4>1. PICK p \in log : SameVersion(o, p)
        BY <3>3
      <4>2. p \in Op /\ Covered(p) /\ ~Newer(o, p)
        BY <1>0, <2>0, <4>1, NewerFacts DEF CoverInv, DataTypes
      <4>3. Covered(o)
        BY <1>0, <2>0, <4>2, CoverBelow
      <4> QED
        BY <2>0, <4>3, CoverKept
    <3> QED
      BY <3>2, <3>3
  <2> QED
    BY <2>1, <2>2
<1> QED
  BY <1>1, <1>2, <1>3 DEF CoverInv, IsLocal
-------------------------------------------------------------------------------
(* No write is missing from the log: the log has something as new as the   *)
(* winner, unless the task that recorded the winner has yet to append it.  *)

LogAbove(o) == \E p \in log : ~Newer(o, p)

Unlogged(t) ==
  \/ KindOf[t] = "put" /\ pc[t] \in {"store", "log"}
  \/ KindOf[t] = "delete" /\ pc[t] = "log"

(* A batch is in the log before any of it is applied.                      *)
LogInv ==
  /\ meta # NoOp => \/ LogAbove(meta)
                    \/ \E t \in Task : Unlogged(t) /\ ~Newer(meta, op[t])
  /\ \A t \in Task : ~IsLocal(t) /\ pc[t] \notin {"filter", "merge"}
                       => /\ \A o \in todo[t] : LogAbove(o)
                          /\ op[t] # NoOp => LogAbove(op[t])

LEMMA LogKept ==
  ASSUME WriteInv, OpsInv, OpsInv', NEW t \in Task, Step(t), NEW o \in Op, LogAbove(o)
  PROVE  LogAbove(o)'
<1>0. log \subseteq Op /\ log' \subseteq Op
  BY DEF OpsInv, DataTypes
<1>1. PICK p \in log : ~Newer(o, p)
  BY DEF LogAbove
<1>2. p \in Op
  BY <1>0, <1>1
<1>3. \E q \in log' : ~Newer(p, q)
  <2>1. CASE log' = log
    BY <1>1, <1>2, <2>1, NewerFacts
  <2>2. CASE AppendOp(t) \/ MergeBatch(t)
    BY <1>1, <2>2, LogFacts
  <2> QED
    BY <2>1, <2>2, LogFacts
<1>4. PICK q \in log' : ~Newer(p, q)
  BY <1>3
<1>5. ~Newer(o, q)
  BY <1>0, <1>1, <1>2, <1>4, NewerFacts
<1> QED
  BY <1>5 DEF LogAbove

(* A task stops being unlogged by appending its operation.                 *)
LEMMA UnloggedFacts ==
  ASSUME WriteInv, OpsInv, NEW t \in Task, Step(t), NEW u \in Task, Unlogged(u)
  PROVE  \/ Unlogged(u)' /\ op'[u] = op[u]
         \/ AppendOp(t) /\ u = t
<1>0. WriteTypes /\ IsLocal(u) /\ LocalInv(u)
  BY DEF WriteInv, OpsInv, Unlogged, IsLocal
<1>1. op'[u] = op[u]
  BY <1>0, IssuedGrows DEF LocalInv, Unlogged
<1>2. CASE u # t
  BY <1>0, <1>1, <1>2, OthersStay DEF Unlogged
<1>3. CASE u = t
  <2>1. Store(t) \/ AppendOp(t)
    BY <1>3 DEF Unlogged, Step, Enter, Lock, Unlock, CheckLock, RemoveLock, DropLock, Tick,
      Record, Notify, Filter, MergeBatch, ValuesBefore, Observe, Changes
  <2>2. CASE Store(t)
    BY <1>0, <1>1, <1>3, <2>2 DEF Unlogged, Store, Goto, WriteTypes
  <2> QED
    BY <1>3, <2>1, <2>2
<1> QED
  BY <1>2, <1>3

(* What a batch has to apply, it had.                                      *)
LEMMA PendingSources ==
  ASSUME WriteInv, OpsInv, NEW t \in Task, Step(t), NEW u \in Task, ~IsLocal(u),
         pc[u] \notin {"filter", "merge"}, NEW o, o \in todo'[u] \/ o = op'[u]
  PROVE  o \in todo[u] \/ o = op[u]
<1>0. WriteTypes /\ RemoteInv(u)
  BY DEF WriteInv, OpsInv
<1> USE <1>0 DEF WriteTypes, Goto, batch
<1>1. CASE Observe(t)
  <2>1. Oldest(todo[t]) \in todo[t]
    BY <1>1, OldestExists DEF Observe
  <2> QED
    BY <1>1, <2>1 DEF Observe
<1>2. CASE Filter(t)
  BY <1>2 DEF Filter
<1>3. CASE Tick(t)
  BY <1>3 DEF Tick, RemoteInv
<1>4. CASE Enter(t) \/ Lock(t) \/ Unlock(t) \/ CheckLock(t) \/ RemoveLock(t) \/ DropLock(t)
  BY <1>4 DEF Enter, Lock, Unlock, CheckLock, RemoveLock, DropLock
<1>5. CASE Record(t) \/ Store(t) \/ AppendOp(t) \/ Notify(t) \/ MergeBatch(t)
             \/ ValuesBefore(t) \/ Changes(t)
  BY <1>5 DEF Record, Store, AppendOp, Notify, MergeBatch, ValuesBefore, Changes
<1> QED
  BY <1>1, <1>2, <1>3, <1>4, <1>5 DEF Step

LEMMA LogPreserved ==
  ASSUME WriteInv, WriteInv', OpsInv, OpsInv', LogInv, NEW t \in Task, Step(t)
  PROVE  LogInv'
<1>0. WriteTypes /\ DataTypes /\ WriteTypes' /\ DataTypes'
  BY DEF OpsInv, WriteInv
<1>1. ASSUME meta' # NoOp
      PROVE  LogAbove(meta)' \/ \E u \in Task : (Unlogged(u) /\ ~Newer(meta, op[u]))'
  <2>0. PICK m \in Op : m = meta'
    BY <1>0, <1>1 DEF WriteTypes
  <2>1. CASE meta' = meta
    <3>1. CASE LogAbove(meta)
      <4>1. LogAbove(m)'
        BY <2>0, <2>1, <3>1, LogKept
      <4> QED
        BY <2>0, <4>1
    <3>2. CASE \E u \in Task : Unlogged(u) /\ ~Newer(meta, op[u])
      <4>1. PICK u \in Task : Unlogged(u) /\ ~Newer(meta, op[u])
        BY <3>2
      <4>2. CASE Unlogged(u)' /\ op'[u] = op[u]
        BY <2>1, <4>1, <4>2
      <4>3. CASE AppendOp(t) /\ u = t
        <5>1. op[t] \in Op
          BY <4>3, LogFacts
        <5>2. PICK p \in log' : ~Newer(op[t], p)
          BY <4>3, LogFacts
        <5>3. p \in Op
          BY <1>0, <5>2 DEF DataTypes
        <5>4. ~Newer(m, op[t])
          BY <2>0, <2>1, <4>1, <4>3
        <5>5. ~Newer(m, p)
          BY <5>1, <5>2, <5>3, <5>4, NewerFacts
        <5> QED
          BY <2>0, <5>5 DEF LogAbove
      <4> QED
        BY <4>1, <4>2, <4>3, UnloggedFacts
    <3> QED
      BY <1>1, <2>1, <3>1, <3>2 DEF LogInv
  <2>2. CASE Record(t) /\ meta' = op[t] /\ meta' # meta
    <3>1. ~Newer(m, m)
      BY NewerFacts
    <3>2. CASE IsLocal(t)
      <4>1. Unlogged(t)'
        BY <1>0, <2>2, <3>2 DEF Record, Goto, Unlogged, IsLocal, WriteTypes
      <4>2. op'[t] = m
        BY <2>0, <2>2 DEF Record
      <4> QED
        BY <2>0, <3>1, <4>1, <4>2
    <3>3. CASE ~IsLocal(t)
      <4>1. pc[t] = "record"
        BY <2>2 DEF Record
      <4>2. LogAbove(op[t])
        BY <1>1, <2>2, <3>3, <4>1 DEF LogInv
      <4>3. LogAbove(m)
        BY <2>0, <2>2, <4>2
      <4>4. LogAbove(m)'
        BY <4>3, LogKept
      <4> QED
        BY <2>0, <4>4
    <3> QED
      BY <3>2, <3>3
  <2> QED
    BY <2>1, <2>2, MetaFacts
<1>2. ASSUME NEW u \in Task, ~IsLocal(u), pc'[u] \notin {"filter", "merge"}
      PROVE  /\ \A o \in todo'[u] : LogAbove(o)'
             /\ op'[u] # NoOp => LogAbove(op[u])'
  <2>r. RemoteInv(u) /\ RemoteInv(u)'
    BY <1>2 DEF OpsInv, IsLocal
  <2>a. SUFFICES ASSUME NEW o \in Op, o \in todo'[u] \/ o = op'[u]
                 PROVE  LogAbove(o)'
    <3>1. \A o \in todo'[u] : o \in Op
      BY <1>0 DEF WriteTypes
    <3>2. op'[u] # NoOp => op'[u] \in Op
      BY <1>0 DEF WriteTypes
    <3>3. \A o \in Op : o = op'[u] => (LogAbove(o)' => LogAbove(op[u])')
      BY DEF LogAbove
    <3> QED
      BY <3>1, <3>2, <3>3
  <2>b. o # NoOp
    BY LwwAssumption
  <2>1. CASE pc[u] \notin {"filter", "merge"}
    <3>1. o \in todo[u] \/ o = op[u]
      BY <1>2, <2>1, <2>a, PendingSources
    <3>2. LogAbove(o)
      BY <1>2, <2>1, <2>b, <3>1 DEF LogInv
    <3> QED
      BY <3>2, LogKept
  <2>2. CASE pc[u] \in {"filter", "merge"}
    <3>1. u = t
      BY <1>0, <1>2, <2>2, OthersStay
    <3>2. CASE Filter(t)
      <4>1. todo'[u] = {} /\ op'[u] = NoOp
        BY <1>0, <1>2, <2>r, <3>1, <3>2 DEF Filter, Goto, RemoteInv, WriteTypes
      <4> QED
        BY <2>a, <2>b, <4>1
    <3>3. CASE MergeBatch(t)
      <4>1. o \in todo[t]
        BY <2>2, <2>a, <2>b, <2>r, <3>1, <3>3 DEF MergeBatch, batch, RemoteInv
      <4>2. \E p \in log' : ~Newer(o, p)
        BY <3>3, <4>1, LogFacts
      <4> QED
        BY <4>2 DEF LogAbove
    <3> QED
      BY <2>2, <3>1, <3>2, <3>3 DEF Step, Enter, Lock, Unlock, CheckLock, RemoveLock,
        DropLock, Tick, Record, Store, AppendOp, Notify, ValuesBefore, Observe, Changes
  <2> QED
    BY <2>1, <2>2
<1> QED
  BY <1>1, <1>2 DEF LogInv, IsLocal

-------------------------------------------------------------------------------

ConvergenceInv == WriteInv /\ OpsInv /\ CoverInv /\ LogInv

LEMMA ConvergenceInitial ==
  Init => ConvergenceInv
<1> SUFFICES ASSUME Init PROVE ConvergenceInv
  OBVIOUS
<1>1. WriteInv
  BY WriteInitial
<1>2. DataTypes
  BY FS_EmptySet DEF Init, DataTypes
<1>3. \A t \in Task : IsLocal(t) => LocalInv(t)
  BY KindFacts DEF Init, LocalInv, Start, IsLocal
<1>4. \A t \in Task : ~IsLocal(t) => RemoteInv(t)
  BY KindFacts DEF Init, RemoteInv, Start, IsLocal
<1>5. OpsInv
  <2>1. meta = NoOp /\ log = {} /\ \A t \in Task : op[t] = NoOp
    BY DEF Init
  <2> QED
    BY <1>2, <1>3, <1>4, <2>1 DEF OpsInv
<1>6. CoverInv
  BY KindFacts DEF Init, CoverInv, Start, IsLocal
<1>7. LogInv
  BY DEF Init, LogInv
<1> QED
  BY <1>1, <1>5, <1>6, <1>7 DEF ConvergenceInv

LEMMA ConvergencePreserved ==
  ConvergenceInv /\ [Next]_vars => ConvergenceInv'
<1> SUFFICES ASSUME ConvergenceInv, [Next]_vars PROVE ConvergenceInv'
  OBVIOUS
<1>0. WriteInv /\ OpsInv /\ CoverInv /\ LogInv
  BY DEF ConvergenceInv
<1>1. WriteInv'
  BY <1>0, WritePreserved
<1>2. ASSUME NEW t \in Task, Step(t)
      PROVE  ConvergenceInv'
  <2>1. Step(t)
    BY <1>2
  <2>2. OpsInv'
    BY <1>0, <2>1, OpsPreserved
  <2>3. CoverInv'
    BY <1>0, <1>1, <2>1, <2>2, CoverPreserved
  <2>4. LogInv'
    BY <1>0, <1>1, <2>1, <2>2, LogPreserved
  <2> QED
    BY <1>1, <2>2, <2>3, <2>4 DEF ConvergenceInv
<1>3. CASE UNCHANGED vars
  <2>1. OpsInv'
    BY <1>0, <1>3 DEF vars, engine, batch, OpsInv, DataTypes, LocalInv, RemoteInv, Issued,
      IsLocal
  <2>2. CoverInv'
    BY <1>0, <1>3 DEF vars, engine, batch, CoverInv, Covered, Pending, IsLocal
  <2>3. LogInv'
    BY <1>0, <1>3 DEF vars, engine, batch, LogInv, LogAbove, Unlogged, IsLocal
  <2> QED
    BY <1>1, <2>1, <2>2, <2>3 DEF ConvergenceInv
<1> QED
  BY <1>2, <1>3 DEF Next, Terminated

(* When every call has returned nothing is pending: whatever was issued is *)
(* no newer than the winner.                                               *)
LEMMA QuietFacts ==
  ASSUME ConvergenceInv, Quiet
  PROVE  /\ \A o \in Issued : o \in Op /\ meta # NoOp /\ ~Newer(o, meta)
         /\ meta # NoOp => meta \in Issued /\ LogAbove(meta)
         /\ log \subseteq Issued
<1>0. WriteInv /\ OpsInv /\ CoverInv /\ LogInv /\ WriteTypes
  BY DEF ConvergenceInv, WriteInv
<1>1. \A u \in Task : Pending(u) = {}
  <2> SUFFICES ASSUME NEW u \in Task PROVE todo[u] = {} /\ pc[u] = "done"
    BY DEF Pending
  <2>1. pc[u] = "done"
    BY DEF Quiet
  <2> QED
    BY <1>0, <2>1 DEF OpsInv, LocalInv, RemoteInv
<1>2. \A o : Covered(o) => meta # NoOp /\ ~Newer(o, meta)
  BY <1>1 DEF Covered
<1>3. ASSUME NEW o \in Issued
      PROVE  o \in Op /\ Covered(o)
  <2>1. CASE \E u \in Task : IsLocal(u) /\ o = op[u]
    <3>1. PICK u \in Task : IsLocal(u) /\ o = op[u]
      BY <2>1
    <3>2. op[u] # NoOp
      BY <1>0, <3>1 DEF OpsInv, LocalInv, Quiet
    <3> QED
      BY <1>0, <3>1, <3>2 DEF CoverInv, WriteTypes
  <2>2. CASE \E u \in Task : ~IsLocal(u) /\ o \in Batch[u]
    BY <1>0, <2>2, LwwAssumption DEF CoverInv, Quiet
  <2> QED
    BY <1>3, <2>1, <2>2, IssuedFacts
<1>4. meta # NoOp => LogAbove(meta)
  BY <1>0 DEF LogInv, Unlogged, Quiet
<1> QED
  BY <1>0, <1>2, <1>3, <1>4 DEF OpsInv

(* Convergence, for any number of puts, deletes and batches on a key and   *)
(* any interleaving of their steps: when they are over, the metadata holds *)
(* the newest version among everything written here and everything the     *)
(* batches carried.                                                        *)
THEOREM WinnerIsNewest ==
  Spec => []QuietStateIsNewest
<1>1. ConvergenceInv => QuietStateIsNewest
  <2> SUFFICES ASSUME ConvergenceInv, Quiet, Issued # {}
               PROVE  LwwFold(Issued) = meta
    BY DEF QuietStateIsNewest
  <2>1. /\ Issued \in SUBSET Op /\ meta # NoOp /\ meta \in Issued
        /\ \A o \in Issued : ~Newer(o, meta)
    BY QuietFacts
  <2>2. \A o \in Issued : SameVersion(o, meta) => o = meta
    BY <2>1, IssuedUnique, LwwAssumption DEF ConvergenceInv
  <2> QED
    BY <2>1, <2>2, FoldIsNewest
<1> QED
  BY <1>1, ConvergenceInitial, ConvergencePreserved, PTL DEF Spec

(* The log, folded, is what the key holds: no accepted write is missing    *)
(* from what the node gossips, and nothing it gossips is unapplied here,   *)
(* although puts append after they record, deletes before they remove, and *)
(* batches merge into the log before they take the key's lock.             *)
THEOREM LogFoldsToWinner ==
  Spec => []LogHoldsWinner
<1>1. ConvergenceInv => LogHoldsWinner
  <2> SUFFICES ASSUME ConvergenceInv, Quiet
               PROVE  IF meta = NoOp THEN log = {} ELSE log # {} /\ meta = LwwFold(log)
    BY DEF LogHoldsWinner
  <2>1. log \in SUBSET Issued /\ Issued \in SUBSET Op
    BY QuietFacts
  <2>2. CASE meta = NoOp
    BY <2>1, <2>2, QuietFacts
  <2>3. CASE meta # NoOp
    <3>1. meta \in Issued /\ LogAbove(meta) /\ \A o \in Issued : ~Newer(o, meta)
      BY <2>3, QuietFacts
    <3>2. \A o \in Issued : SameVersion(o, meta) => o = meta
      BY <2>1, <2>3, <3>1, IssuedUnique, LwwAssumption DEF ConvergenceInv
    <3>3. PICK p \in log : ~Newer(meta, p)
      BY <3>1 DEF LogAbove
    <3>4. SameVersion(p, meta)
      BY <2>1, <3>1, <3>3, NewerFacts
    <3>5. meta \in log
      BY <2>1, <3>2, <3>3, <3>4
    <3>6. LwwFold(log) = meta
      BY <2>1, <3>1, <3>2, <3>5, FoldIsNewest
    <3> QED
      BY <2>3, <3>5, <3>6
  <2> QED
    BY <2>2, <2>3
<1> QED
  BY <1>1, ConvergenceInitial, ConvergencePreserved, PTL DEF Spec

(* The engine's state keeps its types: in particular a fold is only taken  *)
(* of operations that exist, and a batch only ever applies its own.        *)
THEOREM EngineTypeCorrect ==
  Spec => []TypeOK
<1>1. ConvergenceInv => TypeOK
  BY DEF ConvergenceInv, WriteInv, WriteTypes, OpsInv, DataTypes, LocalInv, RemoteInv,
    TypeOK
<1> QED
  BY <1>1, ConvergenceInitial, ConvergencePreserved, PTL DEF Spec
================================================================================
