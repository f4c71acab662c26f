------------------------------- MODULE LwwEngine -------------------------------
(***************************************************************************)
(* The last-writer-wins engine of the mesh store on one node, for one key: *)
(* local puts and deletes and batches of operations from peers, each a     *)
(* task that runs once, at the grain of the locks and atomics they share   *)
(* (a DashMap entry, the key's mutex and the count of its references, the  *)
(* Lamport counter, the op log's lock).                                    *)
(*                                                                         *)
(* A value is the operation that wrote it.  The log of one key is a set:   *)
(* its order among other keys is left out, and so is the truncation of a   *)
(* log beyond its documented size.  Nothing calls the tombstone collector, *)
(* so it is left out too.                                                  *)
(***************************************************************************)
EXTENDS Naturals, FiniteSets

CONSTANTS
  Task,     \* calls into the engine
  KindOf,   \* what each one does
  Batch,    \* the operations a remote batch carries
  Self,     \* this node's replica id
  NoOp

Op == [ts : Nat, rep : Nat, dead : BOOLEAN]

ASSUME LwwAssumption ==
  /\ IsFiniteSet(Task)
  /\ KindOf \in [Task -> {"put", "delete", "remote"}]
  /\ Batch \in [Task -> SUBSET Op]
  /\ \A t \in Task : IsFiniteSet(Batch[t])
  /\ Self \in Nat
  /\ NoOp \notin Op

VARIABLES
  clock,      \* LamportClock.counter
  meta,       \* the winning ValueMetadata of the key, or NoOp
  store,      \* the operation whose bytes the store holds, or NoOp
  log,        \* operations of the key in the log
  mapped,     \* the lock key_locks holds for the key; 0: none
  ref,        \* the lock each task holds a reference to; 0: none
  pc,         \* where each task is
  op,         \* the operation each task is applying
  todo,       \* operations of its batch a task has yet to apply
  before,     \* a batch's snapshot of the observable value
  announced   \* subscribers have had an event since the value last changed

engine == <<clock, meta, store, log>>
locks  == <<mapped, ref>>
batch  == <<todo, before>>
vars   == <<engine, locks, batch, pc, op, announced>>

Critical == {"tick", "record", "store", "log", "unlock"}

Locations ==
  Critical \cup {"filter", "merge", "snapshot", "observe", "enter", "lock", "check",
                 "remove", "drop", "notify", "done"}

TypeOK ==
  /\ clock \in Nat
  /\ meta \in Op \cup {NoOp}
  /\ store \in Op \cup {NoOp}
  /\ log \subseteq Op
  /\ mapped \in Nat
  /\ ref \in [Task -> Nat]
  /\ pc \in [Task -> Locations]
  /\ op \in [Task -> Op \cup {NoOp}]
  /\ todo \in [Task -> SUBSET Op]
  /\ \A t \in Task : todo[t] \subseteq Batch[t]
  /\ before \in [Task -> Op \cup {NoOp}]
  /\ announced \in BOOLEAN

Start == [put |-> "enter", delete |-> "enter", remote |-> "filter"]

Init ==
  /\ clock = 0
  /\ meta = NoOp
  /\ store = NoOp
  /\ log = {}
  /\ mapped = 0
  /\ ref = [t \in Task |-> 0]
  /\ pc = [t \in Task |-> Start[KindOf[t]]]
  /\ op = [t \in Task |-> NoOp]
  /\ todo = [t \in Task |-> {}]
  /\ before = [t \in Task |-> NoOp]
  /\ announced = TRUE

Goto(t, where) == pc' = [pc EXCEPT ![t] = where]

IsLocal(t) == KindOf[t] \in {"put", "delete"}

-------------------------------------------------------------------------------
(* Versions.                                                               *)

SameVersion(o, p) == o.ts = p.ts /\ o.rep = p.rep

(* "(replica_id, timestamp) must be unique": two operations of the batches *)
(* with one version are one operation, and none has this node's replica    *)
(* id.  A batch is fixed from the start, so it has no echoes of the writes *)
(* this node makes; the log has them already when one comes back.          *)
ASSUME VersionsAssumption ==
  \A t, u \in {v \in Task : KindOf[v] = "remote"} :
    \A o \in Batch[t], p \in Batch[u] :
      (SameVersion(o, p) => o = p) /\ o.rep # Self

(* Mutant: the replica id does not break a tie.                            *)
NewerByTime(o, p) == o.ts > p.ts

Newer(o, p) == o.ts > p.ts \/ (o.ts = p.ts /\ o.rep > p.rep)

(* lww_fold: the newest of a non-empty set of operations.                  *)
LwwFold(ops) == CHOOSE o \in ops : \A p \in ops : ~Newer(p, o)

Oldest(ops)  == CHOOSE o \in ops : \A p \in ops : ~Newer(o, p)

(* record_insert_metadata and record_remove_metadata accept o.             *)
Accepts(o) ==
  \/ meta = NoOp
  \/ /\ ~Newer(meta, o)
     /\ SameVersion(o, meta) => o.dead /\ ~meta.dead

IsTombstonedOrUnknown == meta = NoOp \/ meta.dead

-------------------------------------------------------------------------------
(* The key's lock.                                                         *)

StrongCount(lock) ==
  Cardinality({t \in Task : ref[t] = lock}) + (IF mapped = lock THEN 1 ELSE 0)

IsHeld(lock) == \E t \in Task : ref[t] = lock /\ pc[t] \in Critical

(* A mutex nobody refers to.                                               *)
IsFresh(lock) == lock # 0 /\ \A t \in Task : ref[t] # lock

(* key_lock_for.                                                           *)
Enter(t) ==
  /\ pc[t] = "enter"
  /\ \E lock \in 1 .. Cardinality(Task) + 1 :
       /\ IF mapped # 0
          THEN lock = mapped
          ELSE IsFresh(lock) /\ \A other \in 1 .. lock - 1 : ~IsFresh(other)
       /\ mapped' = lock
       /\ ref' = [ref EXCEPT ![t] = lock]
  /\ Goto(t, "lock")
  /\ UNCHANGED <<engine, batch, op, announced>>

Lock(t) ==
  /\ pc[t] = "lock"
  /\ ~IsHeld(ref[t])
  /\ Goto(t, IF IsLocal(t) THEN "tick" ELSE "record")
  /\ UNCHANGED <<engine, locks, batch, op, announced>>

(* drop(key_guard).                                                        *)
Unlock(t) ==
  /\ pc[t] = "unlock"
  /\ Goto(t, "check")
  /\ UNCHANGED <<engine, locks, batch, op, announced>>

(* try_cleanup_key_lock: a key with a value keeps its lock ...             *)
CheckLock(t) ==
  /\ pc[t] = "check"
  /\ Goto(t, IF store # NoOp \/ ~IsTombstonedOrUnknown THEN "drop" ELSE "remove")
  /\ UNCHANGED <<engine, locks, batch, op, announced>>

(* Mutant: the references other tasks hold are not counted.                *)
RemoveSharedLock(t) ==
  /\ pc[t] = "remove"
  /\ mapped' = IF mapped = ref[t] /\ ~IsHeld(mapped) THEN 0 ELSE mapped
  /\ Goto(t, "drop")
  /\ UNCHANGED <<engine, ref, batch, op, announced>>

(* ... else the entry goes, if nobody but the map and this task has it.    *)
RemoveLock(t) ==
  /\ pc[t] = "remove"
  /\ mapped' = IF mapped = ref[t] /\ StrongCount(mapped) <= 2 /\ ~IsHeld(mapped)
               THEN 0 ELSE mapped
  /\ Goto(t, "drop")
  /\ UNCHANGED <<engine, ref, batch, op, announced>>

(* The call returns: a local one to its notify, a remote one to the batch. *)
DropLock(t) ==
  /\ pc[t] = "drop"
  /\ ref' = [ref EXCEPT ![t] = 0]
  /\ Goto(t, IF IsLocal(t) THEN "notify" ELSE "observe")
  /\ UNCHANGED <<engine, mapped, batch, op, announced>>

-------------------------------------------------------------------------------
(* The write itself, with the lock held.                                   *)

Tick(t) ==
  /\ pc[t] = "tick"
  /\ clock' = clock + 1
  /\ op' = [op EXCEPT ![t] = [ts |-> clock + 1, rep |-> Self,
                              dead |-> KindOf[t] = "delete"]]
  /\ Goto(t, "record")
  /\ UNCHANGED <<meta, store, log, locks, batch, announced>>

(* A put stores, then logs; a delete logs, then removes; an operation from *)
(* a batch is in the log already.                                          *)
Record(t) ==
  /\ pc[t] = "record"
  /\ IF Accepts(op[t])
     THEN meta' = op[t] /\ Goto(t, IF KindOf[t] = "delete" THEN "log" ELSE "store")
     ELSE UNCHANGED meta /\ Goto(t, "unlock")
  /\ UNCHANGED <<clock, store, log, locks, batch, op, announced>>

Bytes(o) == IF o.dead THEN NoOp ELSE o

(* store.insert or store.remove.                                           *)
Store(t) ==
  /\ pc[t] = "store"
  /\ store' = Bytes(op[t])
  /\ announced' = (announced /\ store' = store)
  /\ Goto(t, IF KindOf[t] = "put" THEN "log" ELSE "unlock")
  /\ UNCHANGED <<clock, meta, log, locks, batch, op>>

(* Mutant: compaction keeps the operation at hand, not the newest.         *)
AppendForgets(t) ==
  /\ pc[t] = "log"
  /\ \/ log' = log \cup {op[t]}
     \/ log' = {op[t]}
  /\ Goto(t, IF KindOf[t] = "put" THEN "unlock" ELSE "store")
  /\ UNCHANGED <<clock, meta, store, locks, batch, op, announced>>

(* append_op; how long the log is depends on the other keys, so it may be  *)
(* compacted at any append.                                                *)
AppendOp(t) ==
  /\ pc[t] = "log"
  /\ \/ log' = log \cup {op[t]}
     \/ log' = {LwwFold(log \cup {op[t]})}
  /\ Goto(t, IF KindOf[t] = "put" THEN "unlock" ELSE "store")
  /\ UNCHANGED <<clock, meta, store, locks, batch, op, announced>>

(* CrdtNamespace::put and delete, and merge_crdt_ops, send the event.      *)
Notify(t) ==
  /\ pc[t] = "notify"
  /\ announced' = TRUE
  /\ Goto(t, "done")
  /\ UNCHANGED <<engine, locks, batch, op>>

-------------------------------------------------------------------------------
(* apply_remote_ops.                                                       *)

(* Mutant: the log is replayed along with the batch.                       *)
FilterReplaysLog(t) ==
  /\ pc[t] = "filter"
  /\ todo' = [todo EXCEPT ![t] = Batch[t] \cup log]
  /\ Goto(t, IF todo'[t] = {} THEN "done" ELSE "merge")
  /\ UNCHANGED <<engine, locks, before, op, announced>>

(* What the log has not seen.                                              *)
Filter(t) ==
  LET unseen == {o \in Batch[t] : \A p \in log : ~SameVersion(o, p)}
  IN  /\ pc[t] = "filter"
      /\ todo' = [todo EXCEPT ![t] = unseen]
      /\ Goto(t, IF unseen = {} THEN "done" ELSE "merge")
      /\ UNCHANGED <<engine, locks, before, op, announced>>

(* Mutant: the batch replaces what the log had of the key.                 *)
MergeOverwrites(t) ==
  /\ pc[t] = "merge"
  /\ log' = {LwwFold(todo[t])}
  /\ Goto(t, "snapshot")
  /\ UNCHANGED <<clock, meta, store, locks, batch, op, announced>>

MergeBatch(t) ==
  /\ pc[t] = "merge"
  /\ log' = {LwwFold(log \cup todo[t])}
  /\ Goto(t, "snapshot")
  /\ UNCHANGED <<clock, meta, store, locks, batch, op, announced>>

ValuesBefore(t) ==
  /\ pc[t] = "snapshot"
  /\ before' = [before EXCEPT ![t] = store]
  /\ Goto(t, "observe")
  /\ UNCHANGED <<engine, locks, todo, op, announced>>

(* Mutant: the clock does not follow the peers'.                           *)
ObserveWithoutClock(t) ==
  /\ pc[t] = "observe"
  /\ todo[t] # {}
  /\ op' = [op EXCEPT ![t] = Oldest(todo[t])]
  /\ todo' = [todo EXCEPT ![t] = @ \ {Oldest(todo[t])}]
  /\ clock' = clock + 1
  /\ Goto(t, "enter")
  /\ UNCHANGED <<meta, store, log, locks, before, announced>>

(* The next operation of the batch, oldest first: clock.update.            *)
Observe(t) ==
  /\ pc[t] = "observe"
  /\ todo[t] # {}
  /\ op' = [op EXCEPT ![t] = Oldest(todo[t])]
  /\ todo' = [todo EXCEPT ![t] = @ \ {Oldest(todo[t])}]
  /\ clock' = (IF op'[t].ts > clock THEN op'[t].ts ELSE clock) + 1
  /\ Goto(t, "enter")
  /\ UNCHANGED <<meta, store, log, locks, before, announced>>

(* changes: an event only if the value differs from the snapshot.          *)
Changes(t) ==
  /\ pc[t] = "observe"
  /\ todo[t] = {}
  /\ Goto(t, IF store # before[t] THEN "notify" ELSE "done")
  /\ UNCHANGED <<engine, locks, batch, op, announced>>

-------------------------------------------------------------------------------

Step(t) ==
  \/ Enter(t) \/ Lock(t) \/ Unlock(t)
  \/ CheckLock(t) \/ RemoveLock(t) \/ DropLock(t)
  \/ Tick(t) \/ Record(t) \/ Store(t) \/ AppendOp(t) \/ Notify(t)
  \/ Filter(t) \/ MergeBatch(t) \/ ValuesBefore(t) \/ Observe(t) \/ Changes(t)

Quiet == \A t \in Task : pc[t] = "done"

(* All calls have returned; any other state without a step is a deadlock.  *)
Terminated == Quiet /\ UNCHANGED vars

Next == (\E t \in Task : Step(t)) \/ Terminated

Spec == Init /\ [][Next]_vars

-------------------------------------------------------------------------------

(* A task has recorded the winning version but not yet moved the bytes.    *)
Unapplied(t) ==
  \/ pc[t] = "store"
  \/ pc[t] = "log" /\ KindOf[t] = "delete"

(* "same-key writes serialise with metadata updates": outside a write, get *)
(* answers with the bytes of the version the metadata says won, and with   *)
(* nothing when that is a tombstone, whichever writes raced.               *)
StoreMatchesWinner ==
  (\A t \in Task : ~Unapplied(t)) =>
     store = IF meta = NoOp THEN NoOp ELSE Bytes(meta)

(* A local write is never rejected: the clock has passed every version the *)
(* metadata can hold by the time a tick is compared with it, remote        *)
(* batches that are half applied included.                                 *)
LocalWriteWins ==
  \A t \in Task : IsLocal(t) /\ pc[t] = "record" => Accepts(op[t])

Issued ==
  {op[t] : t \in {u \in Task : IsLocal(u)}}
    \cup UNION {Batch[t] : t \in {u \in Task : KindOf[u] = "remote"}}

(* Convergence: when the writes are over the winner is the newest version  *)
(* among all of them, whatever their order.                                *)
QuietStateIsNewest ==
  Quiet /\ Issued # {} => meta = LwwFold(Issued)

(* What the node will gossip about the key, folded, is what it holds: no   *)
(* accepted write is missing from the log, and none is only in the log.    *)
LogHoldsWinner ==
  Quiet => IF meta = NoOp THEN log = {} ELSE log # {} /\ meta = LwwFold(log)

(* "One CrdtChange per key whose observable value changed": when the       *)
(* writes are over, subscribers have had an event since the last change,   *)
(* so one that reads the store on each event has seen the final value.     *)
EveryChangeIsAnnounced == Quiet => announced
================================================================================
