---------------------------- MODULE MeshReplication ----------------------------
(***************************************************************************)
(* Replication of the mesh store between nodes: rounds that send what a    *)
(* peer has not acknowledged, bounded channels that drop what does not     *)
(* fit, acknowledgements that may be dropped too, streams that break and   *)
(* are dialled again, and nodes that restart with nothing but a new        *)
(* replica id.                                                             *)
(*                                                                         *)
(* A node's engine is what LwwEngine shows it to be between calls: the     *)
(* newest operation of each key, which is also what its log folds to.      *)
(* Puts and deletes are alike here: an operation stands for its value or   *)
(* its tombstone.  Each frame carries one operation, or the                *)
(* acknowledgement of one: the finest cut build_crdt_batches can make.     *)
(* Left out: acks of older peers, which carry no replica id and are read   *)
(* as ReplicaId::MAX.                                                      *)
(***************************************************************************)
EXTENDS Versions, FiniteSets, Sequences

CONSTANTS
  Node,
  Link,         \* pairs <<sender, receiver>>; a stream carries both ways
  ReplicaIds,   \* replica ids a restart may draw
  FirstReplica, \* the id each node starts with
  ChannelSize,  \* frames an outbound channel holds
  MaxClock,     \* bound: the clocks stop here, and so do writes
  MaxWrites,    \* bound: operations issued
  MaxFaults     \* bound: streams broken by the network

ASSUME ReplicationAssumption ==
  /\ IsFiniteSet(Node)
  /\ Link \subseteq Node \X Node
  /\ \A l \in Link : l[1] # l[2] /\ <<l[2], l[1]>> \in Link
  /\ ReplicaIds \subseteq Nat
  /\ FirstReplica \in [Node -> ReplicaIds]
  /\ \A m, n \in Node : FirstReplica[m] = FirstReplica[n] => m = n
  /\ ChannelSize \in Nat \ {0}
  /\ MaxClock \in Nat
  /\ MaxWrites \in Nat
  /\ MaxFaults \in Nat

VARIABLES
  store,    \* the newest operation each node has of each key
  replica,  \* CrdtOrMap.replica_id of each node's current life
  clock,    \* its Lamport clock
  round,    \* the operations of current_stream_batch
  open,     \* links whose stream is up
  acked,    \* CrdtWatermark of each link: the version the receiver has acked
  channel,  \* frames on their way
  issued,   \* history: every operation written so far
  drawn,    \* history: replica ids in use now or before
  faults

node == <<store, issued, replica, clock, round>>
link == <<open, acked, channel, faults>>
vars == <<node, link, drawn>>

Frame == [kind : {"batch", "ack"}, op : Op]

TypeOK ==
  /\ store \in [Node -> [Key -> Op]]
  /\ issued \subseteq Op
  /\ replica \in [Node -> ReplicaIds]
  /\ clock \in [Node -> 0 .. MaxClock]
  /\ round \in [Node -> [Key -> Op]]
  /\ open \subseteq Link
  /\ acked \in [Link -> [Key -> Op]]
  /\ channel \in [Link -> Seq(Frame)]
  /\ \A l \in Link : Len(channel[l]) <= ChannelSize
  /\ drawn \subseteq ReplicaIds
  /\ faults \in Nat

Back(l) == <<l[2], l[1]>>

Init ==
  /\ store = [n \in Node |-> Empty]
  /\ issued = {}
  /\ replica = FirstReplica
  /\ clock = [n \in Node |-> 0]
  /\ round = [n \in Node |-> Empty]
  /\ open = {}
  /\ acked = [l \in Link |-> Empty]
  /\ channel = [l \in Link |-> << >>]
  /\ drawn = {FirstReplica[n] : n \in Node}
  /\ faults = 0

-------------------------------------------------------------------------------
(* One node.                                                               *)

Stamped(n, k, v) ==
  [key |-> k, ts |-> clock[n] + 1, rep |-> replica[n], val |-> v]

(* put or delete: the clock ticks and the operation is the newest here.    *)
Put(n, k, v) ==
  /\ clock[n] < MaxClock
  /\ Cardinality(issued) < MaxWrites
  /\ clock' = [clock EXCEPT ![n] = @ + 1]
  /\ store' = [store EXCEPT ![n][k] = Stamped(n, k, v)]
  /\ issued' = issued \cup {Stamped(n, k, v)}
  /\ UNCHANGED <<replica, round, link, drawn>>

(* collect_round_batch: the operation log snapshot the senders read.       *)
CollectRound(n) ==
  /\ round' = [round EXCEPT ![n] = store[n]]
  /\ UNCHANGED <<store, issued, replica, clock, link, drawn>>

(* Mutant: the replica id comes from the server's name, as MeshKV's does.  *)
RestartWithOldId(n, id) ==
  /\ clock' = [clock EXCEPT ![n] = 0]
  /\ store' = [store EXCEPT ![n] = Empty]
  /\ round' = [round EXCEPT ![n] = Empty]
  /\ open' = {l \in open : n \notin {l[1], l[2]}}
  /\ acked' = [l \in Link |-> IF n \in {l[1], l[2]} THEN Empty ELSE acked[l]]
  /\ channel' = [l \in Link |-> IF n \in {l[1], l[2]} THEN << >> ELSE channel[l]]
  /\ UNCHANGED <<issued, replica, faults, drawn>>

(* Mutant: the peers keep their watermark for the node across streams.     *)
RestartUnnoticed(n, id) ==
  /\ id \in ReplicaIds \ drawn
  /\ replica' = [replica EXCEPT ![n] = id]
  /\ drawn' = drawn \cup {id}
  /\ clock' = [clock EXCEPT ![n] = 0]
  /\ store' = [store EXCEPT ![n] = Empty]
  /\ round' = [round EXCEPT ![n] = Empty]
  /\ open' = {l \in open : n \notin {l[1], l[2]}}
  /\ acked' = [l \in Link |-> IF n = l[1] THEN Empty ELSE acked[l]]
  /\ channel' = [l \in Link |-> IF n \in {l[1], l[2]} THEN << >> ELSE channel[l]]
  /\ UNCHANGED <<issued, faults>>

(* A new process: an empty CrdtOrMap with a fresh UUID, a clock at zero;   *)
(* its streams are gone, and the watermarks with them.                     *)
Restart(n, id) ==
  /\ id \in ReplicaIds \ drawn
  /\ replica' = [replica EXCEPT ![n] = id]
  /\ drawn' = drawn \cup {id}
  /\ clock' = [clock EXCEPT ![n] = 0]
  /\ store' = [store EXCEPT ![n] = Empty]
  /\ round' = [round EXCEPT ![n] = Empty]
  /\ open' = {l \in open : n \notin {l[1], l[2]}}
  /\ acked' = [l \in Link |-> IF n \in {l[1], l[2]} THEN Empty ELSE acked[l]]
  /\ channel' = [l \in Link |-> IF n \in {l[1], l[2]} THEN << >> ELSE channel[l]]
  /\ UNCHANGED <<issued, faults>>

-------------------------------------------------------------------------------
(* The streams.                                                            *)

(* One stream for each pair, dialled by one end.                           *)
Connect(l) ==
  /\ l \notin open
  /\ open' = open \cup {l, Back(l)}
  /\ UNCHANGED <<node, acked, channel, faults, drawn>>

(* The stream fails or sits idle; what it carried is lost, and the         *)
(* watermarks of both ends go with their handlers.                         *)
Disconnect(l) ==
  /\ l \in open
  /\ faults < MaxFaults
  /\ faults' = faults + 1
  /\ open' = open \ {l, Back(l)}
  /\ acked' = [acked EXCEPT ![l] = Empty, ![Back(l)] = Empty]
  /\ channel' = [channel EXCEPT ![l] = << >>, ![Back(l)] = << >>]
  /\ UNCHANGED <<node, drawn>>

(* Mutant: a version is compared by its time alone, as a legacy peer acks. *)
AllowsByTime(l, o) == o.ts > acked[l][o.key].ts

(* CrdtWatermark.allows.                                                   *)
Allows(l, o) == Newer(o, acked[l][o.key])

(* Mutant: one frame too many.                                             *)
HasRoomForOne(l) == Len(channel[l]) <= ChannelSize

HasRoom(l) == Len(channel[l]) < ChannelSize

(* Mutant: a peer that has acknowledged one key is taken to have them all. *)
SendUntilAcked(l, k) ==
  /\ l \in open
  /\ HasRoom(l)
  /\ \A j \in Key : acked[l][j] = Nothing(j)
  /\ Allows(l, round[l[1]][k])
  /\ channel' = [channel EXCEPT
                   ![l] = Append(@, [kind |-> "batch", op |-> round[l[1]][k]])]
  /\ UNCHANGED <<node, open, acked, faults, drawn>>

(* send_round, one frame of it; a frame the channel cannot take is dropped,*)
(* and with it the rest of the round.                                      *)
SendRound(l, k) ==
  /\ l \in open
  /\ HasRoom(l)
  /\ Allows(l, round[l[1]][k])
  /\ channel' = [channel EXCEPT
                   ![l] = Append(@, [kind |-> "batch", op |-> round[l[1]][k]])]
  /\ UNCHANGED <<node, open, acked, faults, drawn>>

AtMostClock(t) == IF t > MaxClock THEN MaxClock ELSE t

(* LamportClock.update, for an operation the log does not show as seen.    *)
Update(n, o) ==
  IF store[n][o.key] = o THEN clock[n]
  ELSE AtMostClock((IF o.ts > clock[n] THEN o.ts ELSE clock[n]) + 1)

(* Mutant: the operation that came last wins.                              *)
ReceiveOverwrites(l) ==
  LET n == l[2]
      o == Head(channel[l]).op
  IN  /\ channel[l] # << >>
      /\ Head(channel[l]).kind = "batch"
      /\ clock' = [clock EXCEPT ![n] = Update(n, o)]
      /\ store' = [store EXCEPT ![n][o.key] = o]
      /\ channel' = [channel EXCEPT
                       ![l] = Tail(@),
                       ![Back(l)] = IF HasRoom(Back(l))
                                    THEN Append(@, [kind |-> "ack", op |-> o])
                                    ELSE @]
      /\ UNCHANGED <<issued, replica, round, open, acked, faults, drawn>>

(* dispatch_crdt_batch: merge, and acknowledge if the channel back has     *)
(* room.  What is acknowledged is what came, newer than what was there or  *)
(* not.                                                                    *)
ReceiveBatch(l) ==
  LET n == l[2]
      o == Head(channel[l]).op
  IN  /\ channel[l] # << >>
      /\ Head(channel[l]).kind = "batch"
      /\ clock' = [clock EXCEPT ![n] = Update(n, o)]
      /\ store' = IF Newer(o, store[n][o.key])
                  THEN [store EXCEPT ![n][o.key] = o] ELSE store
      /\ channel' = [channel EXCEPT
                       ![l] = Tail(@),
                       ![Back(l)] = IF HasRoom(Back(l))
                                    THEN Append(@, [kind |-> "ack", op |-> o])
                                    ELSE @]
      /\ UNCHANGED <<issued, replica, round, open, acked, faults, drawn>>

(* crdt_ack_to_watermark and merge_max.                                    *)
ReceiveAck(l) ==
  LET o == Head(channel[l]).op
  IN  /\ channel[l] # << >>
      /\ Head(channel[l]).kind = "ack"
      /\ acked' = IF Newer(o, acked[Back(l)][o.key])
                  THEN [acked EXCEPT ![Back(l)][o.key] = o] ELSE acked
      /\ channel' = [channel EXCEPT ![l] = Tail(@)]
      /\ UNCHANGED <<node, open, faults, drawn>>

-------------------------------------------------------------------------------

Next ==
  \/ \E n \in Node :
       \/ \E k \in Key, v \in Value : Put(n, k, v)
       \/ CollectRound(n)
       \/ \E id \in ReplicaIds : Restart(n, id)
  \/ \E l \in Link :
       \/ Connect(l)
       \/ Disconnect(l)
       \/ \E k \in Key : SendRound(l, k)
       \/ ReceiveBatch(l)
       \/ ReceiveAck(l)

Spec == Init /\ [][Next]_vars

(* A running node collects rounds and its streams carry on; a sender is    *)
(* not forever held off by a full channel, which drains between ticks.     *)
Fairness ==
  /\ \A n \in Node : WF_vars(CollectRound(n))
  /\ \A l \in Link :
       /\ WF_vars(Connect(l))
       /\ WF_vars(ReceiveBatch(l) \/ ReceiveAck(l))
       /\ \A k \in Key : SF_vars(SendRound(l, k))

FairSpec == Spec /\ Fairness

-------------------------------------------------------------------------------
(* Properties.                                                             *)

(* The sender's watermark, and every acknowledgement on its way to it, is  *)
(* no newer than what the receiver holds now, across lost frames, repeated *)
(* frames, broken streams and restarts: no key is ever skipped for a peer  *)
(* that does not have it.                                                  *)
AckedIsHeld ==
  \A l \in open :
    /\ \A k \in Key : ~Newer(acked[l][k], store[l[2]][k])
    /\ \A i \in 1 .. Len(channel[Back(l)]) :
         LET f == channel[Back(l)][i]
         IN  f.kind = "ack" => ~Newer(f.op, store[l[2]][f.op.key])

(* "Globally unique node identity": one version, one write.  Operations    *)
(* are deduplicated by version, so two writes of one version would leave   *)
(* nodes with different values for ever.                                   *)
VersionsIdentifyWrites ==
  \A o, p \in issued : SameVersion(o, p) => o = p

(* Nothing is left to send on a link: the round is current and the         *)
(* watermark covers it.                                                    *)
Idle(l) ==
  /\ l \in open
  /\ channel[l] = << >>
  /\ round[l[1]] = store[l[1]]
  /\ \A k \in Key : ~Allows(l, round[l[1]][k])

(* The senders fall silent only when there is nothing left to say: two     *)
(* ends of a stream that both have nothing to send hold the same           *)
(* operations.                                                             *)
SilenceMeansEqual ==
  \A l \in Link : Idle(l) /\ Idle(Back(l)) => store[l[1]] = store[l[2]]

(* The detailed store implements the abstract one.                         *)
Register == INSTANCE MeshRegister WITH shown <- store
ImplementsRegister == Register!Spec

(* When writes, restarts and faults are over, all nodes come to hold the   *)
(* same operations, whichever frames and acknowledgements were dropped.    *)
Converges == <>[](\A m, n \in Node : store[m] = store[n])
===============================================================================
