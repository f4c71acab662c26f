------------------------- MODULE MeshReplicationProofs -------------------------
(***************************************************************************)
(* For every number of nodes, links, keys and faults: watermarks never run *)
(* ahead of the peer, senders that fall silent agree, versions identify    *)
(* writes, and the replicated store implements MeshRegister.               *)
(***************************************************************************)
EXTENDS MeshReplication, TLAPS

-------------------------------------------------------------------------------
(* The order of versions.                                                  *)

(* Newer is transitive, also through versions that are not newer.          *)
LEMMA NewerTransitive ==
  ASSUME NEW o \in Op, NEW p \in Op, NEW q \in Op
  PROVE  /\ Newer(o, p) /\ Newer(p, q) => Newer(o, q)
         /\ ~Newer(o, p) /\ Newer(q, p) => ~Newer(o, q)
         /\ ~Newer(o, p) /\ ~Newer(p, q) => ~Newer(o, q)
         /\ ~Newer(o, o)
BY DEF Newer, Op

(* Nothing is as old as any operation.                                     *)
LEMMA NothingIsOldest ==
  ASSUME NEW k \in Key, NEW o \in Op
  PROVE  ~Newer(Nothing(k), o)
BY DEF Nothing, Op, Newer

(* Nothing is an operation of its key.                                     *)
LEMMA EmptyType ==
  /\ Empty \in [Key -> Op]
  /\ \A k \in Key : Empty[k] = Nothing(k)
  /\ \A k \in Key : Nothing(k) \in Op /\ Nothing(k).key = k /\ Nothing(k).ts = 0
BY DEF Empty, Nothing, Op

(* The other direction of a link is a link.                                *)
LEMMA BackIsLink ==
  ASSUME NEW l \in Link
  PROVE  /\ Back(l) \in Link
         /\ Back(l)[1] = l[2]
         /\ Back(l)[2] = l[1]
         /\ Back(Back(l)) = l
         /\ l # Back(l)
         /\ l[1] \in Node
         /\ l[2] \in Node
         /\ l[1] # l[2]
BY ReplicationAssumption DEF Back

-------------------------------------------------------------------------------
(* The inductive invariant.                                                *)

(* What a node holds or collects for a key is an operation of that key     *)
(* that somebody issued, or nothing.                                       *)
IsIssued(o, k) == o.key = k /\ (o \in issued \/ o = Nothing(k))

HeldIsIssued ==
  \A n \in Node, k \in Key : IsIssued(store[n][k], k) /\ IsIssued(round[n][k], k)

(* A frame carries an issued operation, and an acknowledgement one no      *)
(* newer than what its sender holds.                                       *)
GoodFrame(f, n) ==
  /\ f.op \in issued
  /\ f.kind = "ack" => ~Newer(f.op, store[n][f.op.key])

FramesGood ==
  \A l \in Link : \A i \in 1 .. Len(channel[l]) : GoodFrame(channel[l][i], l[1])

WatermarksHeld ==
  \A l \in Link, k \in Key : ~Newer(acked[l][k], store[l[2]][k])

(* Clocks are ahead of what nodes hold and of what they issued.            *)
ClocksAhead ==
  /\ \A n \in Node, k \in Key : store[n][k].ts <= clock[n]
  /\ \A o \in issued : 1 <= o.ts /\ o.ts <= MaxClock
  /\ \A n \in Node, o \in issued : o.rep = replica[n] => o.ts <= clock[n]

(* No replica id belongs to two lives.                                     *)
IdsUnique ==
  /\ \A m, n \in Node : replica[m] = replica[n] => m = n
  /\ \A n \in Node : replica[n] \in drawn
  /\ \A o \in issued : o.rep \in drawn

Inv ==
  /\ TypeOK
  /\ HeldIsIssued
  /\ FramesGood
  /\ WatermarksHeld
  /\ ClocksAhead
  /\ IdsUnique
  /\ VersionsIdentifyWrites

LEMMA InitInv == Init => Inv
<1> SUFFICES ASSUME Init PROVE Inv
  OBVIOUS
<1> USE EmptyType
<1>1. TypeOK
  BY ReplicationAssumption DEF Init, TypeOK
<1>2. HeldIsIssued
  BY DEF Init, HeldIsIssued, IsIssued
<1>3. FramesGood
  BY DEF Init, FramesGood
<1>4. WatermarksHeld
  BY BackIsLink, NothingIsOldest DEF Init, WatermarksHeld
<1>5. ClocksAhead
  BY ReplicationAssumption DEF Init, ClocksAhead
<1>6. IdsUnique
  BY ReplicationAssumption DEF Init, IdsUnique
<1>7. VersionsIdentifyWrites
  BY DEF Init, VersionsIdentifyWrites
<1> QED
  BY <1>1, <1>2, <1>3, <1>4, <1>5, <1>6, <1>7 DEF Inv

(* A write is newer than all its node holds, and has a version of its own. *)
LEMMA PutIsNew ==
  ASSUME Inv, NEW n \in Node, NEW k \in Key, NEW v \in Value
  PROVE  /\ Stamped(n, k, v) \in Op
         /\ Stamped(n, k, v).key = k
         /\ Stamped(n, k, v).ts = clock[n] + 1
         /\ Stamped(n, k, v).rep = replica[n]
         /\ Newer(Stamped(n, k, v), store[n][k])
         /\ \A p \in issued : ~SameVersion(Stamped(n, k, v), p)
<1> USE DEF Inv
<1>1. clock[n] \in Nat /\ replica[n] \in Nat
  <2>1. clock[n] \in 0 .. MaxClock /\ MaxClock \in Nat
    BY ReplicationAssumption DEF TypeOK
  <2>2. replica[n] \in ReplicaIds /\ ReplicaIds \subseteq Nat
    BY ReplicationAssumption DEF TypeOK
  <2>3. replica[n] \in Nat
    BY <2>2, Zenon
  <2> QED
    BY <2>1, <2>3
<1>2. store[n][k] \in Op
  BY DEF TypeOK
<1>3. /\ Stamped(n, k, v) \in Op
      /\ Stamped(n, k, v).key = k
      /\ Stamped(n, k, v).ts = clock[n] + 1
      /\ Stamped(n, k, v).rep = replica[n]
  BY <1>1 DEF Stamped, Op
<1>4. Newer(Stamped(n, k, v), store[n][k])
  BY <1>1, <1>2, <1>3 DEF ClocksAhead, Newer, Op
<1>5. \A p \in issued : ~SameVersion(Stamped(n, k, v), p)
  <2> TAKE p \in issued
  <2>1. p.ts \in Nat /\ (p.rep = replica[n] => p.ts <= clock[n])
    BY DEF ClocksAhead, TypeOK, Op
  <2> QED
    BY <2>1, <1>1, <1>3 DEF SameVersion
<1> QED
  BY <1>3, <1>4, <1>5

(* What comes out of a channel is an operation of a key, issued before.    *)
LEMMA HeadFacts ==
  ASSUME Inv, NEW l \in Link, channel[l] # << >>
  PROVE  /\ channel[l] \in Seq(Frame)
         /\ Head(channel[l]) \in Frame
         /\ Head(channel[l]).op \in Op
         /\ Head(channel[l]).op.key \in Key
         /\ GoodFrame(Head(channel[l]), l[1])
         /\ Tail(channel[l]) \in Seq(Frame)
         /\ \A i \in 1 .. Len(Tail(channel[l])) :
              GoodFrame(Tail(channel[l])[i], l[1])
<1> USE DEF Inv
<1>1. channel[l] \in Seq(Frame) /\ Len(channel[l]) \in Nat /\ Len(channel[l]) >= 1
  BY DEF TypeOK
<1>2. Head(channel[l]) = channel[l][1] /\ Head(channel[l]) \in Frame
  BY <1>1
<1>3. Head(channel[l]).op \in Op /\ Head(channel[l]).op.key \in Key
  BY <1>2 DEF Frame, Op
<1>4. GoodFrame(Head(channel[l]), l[1])
  BY <1>1, <1>2 DEF FramesGood
<1>5. Tail(channel[l]) \in Seq(Frame)
  BY <1>1
<1>6. \A i \in 1 .. Len(Tail(channel[l])) : GoodFrame(Tail(channel[l])[i], l[1])
  <2> TAKE i \in 1 .. Len(Tail(channel[l]))
  <2>1. Tail(channel[l])[i] = channel[l][i + 1] /\ i + 1 \in 1 .. Len(channel[l])
    BY <1>1
  <2> QED
    BY <2>1 DEF FramesGood
<1> QED
  BY <1>1, <1>2, <1>3, <1>4, <1>5, <1>6

-------------------------------------------------------------------------------
(* Every step keeps the invariant.                                         *)

LEMMA PutInv ==
  ASSUME Inv, NEW n \in Node, NEW k \in Key, NEW v \in Value, Put(n, k, v)
  PROVE  Inv'
<1> DEFINE o == Stamped(n, k, v)
<1>1. /\ o \in Op
      /\ o.key = k
      /\ issued' = issued \cup {o}
      /\ store' = [store EXCEPT ![n][k] = o]
      /\ Newer(o, store[n][k])
      /\ \A p \in issued : ~SameVersion(o, p)
  BY PutIsNew DEF Put
<1>2. o.ts = clock[n] + 1 /\ o.rep = replica[n]
  BY PutIsNew
<1> HIDE DEF o
<1> USE DEF Inv
<1>3. UNCHANGED <<replica, round, open, acked, channel, faults, drawn>>
  BY DEF Put, link
<1>4. clock' = [clock EXCEPT ![n] = @ + 1] /\ clock[n] < MaxClock /\ clock[n] \in Nat
  BY ReplicationAssumption DEF Put, TypeOK
<1>5. /\ store'[n][k] = o
      /\ \A m \in Node, j \in Key :
           (m # n \/ j # k) => store'[m][j] = store[m][j]
  BY <1>1 DEF TypeOK
<1>6. \A m \in Node, j \in Key, p \in Op :
        ~Newer(p, store[m][j]) => ~Newer(p, store'[m][j])
  <2> TAKE m \in Node, j \in Key, p \in Op
  <2>1. store[m][j] \in Op
    BY DEF TypeOK
  <2>2. CASE m = n /\ j = k
    BY <2>1, <2>2, <1>1, <1>5, NewerTransitive
  <2>3. CASE m # n \/ j # k
    BY <2>3, <1>5
  <2> QED
    BY <2>2, <2>3
<1>7. TypeOK'
  <2>1. store' \in [Node -> [Key -> Op]]
    BY <1>1 DEF TypeOK
  <2>2. clock' \in [Node -> 0 .. MaxClock]
    BY <1>4, ReplicationAssumption DEF TypeOK
  <2> QED
    BY <1>1, <1>3, <2>1, <2>2 DEF TypeOK
<1>8. HeldIsIssued'
  BY <1>1, <1>3, <1>5 DEF HeldIsIssued, IsIssued
<1>9. FramesGood'
  <2> SUFFICES ASSUME NEW l \in Link, NEW i \in 1 .. Len(channel[l])
               PROVE  GoodFrame(channel[l][i], l[1])'
    BY <1>3 DEF FramesGood
  <2>1. channel[l][i] \in Frame /\ GoodFrame(channel[l][i], l[1])
    BY DEF TypeOK, FramesGood
  <2>2. channel[l][i].op \in Op /\ channel[l][i].op.key \in Key
    BY <2>1 DEF Frame, Op
  <2> QED
    BY <1>1, <1>3, <1>6, <2>1, <2>2, BackIsLink DEF GoodFrame
<1>10. WatermarksHeld'
  BY <1>3, <1>6, BackIsLink DEF WatermarksHeld, TypeOK
<1>11. ClocksAhead'
  <2>1. \A m \in Node : clock[m] \in Nat /\ clock'[m] \in Nat /\ clock[m] <= clock'[m]
    BY <1>4, ReplicationAssumption DEF TypeOK
  <2>2. \A m \in Node, j \in Key : store'[m][j].ts <= clock'[m]
    <3> TAKE m \in Node, j \in Key
    <3>1. CASE m = n /\ j = k
      BY <3>1, <1>2, <1>4, <1>5 DEF TypeOK
    <3>2. CASE m # n \/ j # k
      <4>1. store'[m][j] = store[m][j] /\ store[m][j].ts \in Nat
        BY <3>2, <1>5 DEF TypeOK, Op
      <4> QED
        BY <4>1, <2>1 DEF ClocksAhead
    <3> QED
      BY <3>1, <3>2
  <2>3. \A p \in issued' : 1 <= p.ts /\ p.ts <= MaxClock
    BY <1>1, <1>2, <1>4, ReplicationAssumption DEF ClocksAhead
  <2>4. \A m \in Node, p \in issued' : p.rep = replica'[m] => p.ts <= clock'[m]
    <3> TAKE m \in Node, p \in issued'
    <3> HAVE p.rep = replica'[m]
    <3>1. CASE p \in issued
      <4>1. p.ts \in Nat /\ p.ts <= clock[m]
        BY <3>1, <1>3 DEF ClocksAhead, TypeOK, Op
      <4> QED
        BY <4>1, <2>1
    <3>2. CASE p = o
      BY <3>2, <1>2, <1>3, <1>4 DEF IdsUnique, TypeOK
    <3> QED
      BY <3>1, <3>2, <1>1
  <2> QED
    BY <2>2, <2>3, <2>4 DEF ClocksAhead
<1>12. IdsUnique'
  BY <1>1, <1>2, <1>3 DEF IdsUnique
<1>13. VersionsIdentifyWrites'
  BY <1>1 DEF VersionsIdentifyWrites, SameVersion
<1> QED
  BY <1>7, <1>8, <1>9, <1>10, <1>11, <1>12, <1>13

LEMMA CollectRoundInv ==
  ASSUME Inv, NEW n \in Node, CollectRound(n)
  PROVE  Inv'
<1> USE DEF Inv
<1>1. round' = [round EXCEPT ![n] = store[n]]
  BY DEF CollectRound
<1>2. UNCHANGED <<store, issued, replica, clock, open, acked, channel, faults, drawn>>
  BY DEF CollectRound, link
<1>3. TypeOK'
  BY <1>1, <1>2 DEF TypeOK
<1>4. HeldIsIssued'
  BY <1>1, <1>2 DEF HeldIsIssued, IsIssued, TypeOK
<1>5. FramesGood' /\ WatermarksHeld' /\ ClocksAhead' /\ IdsUnique'
      /\ VersionsIdentifyWrites'
  BY <1>2 DEF FramesGood, GoodFrame, WatermarksHeld, ClocksAhead, IdsUnique,
              VersionsIdentifyWrites
<1> QED
  BY <1>3, <1>4, <1>5

LEMMA RestartInv ==
  ASSUME Inv, NEW n \in Node, NEW id \in ReplicaIds, Restart(n, id)
  PROVE  Inv'
<1> USE DEF Inv
<1>1. /\ issued' = issued
      /\ store' = [store EXCEPT ![n] = Empty]
      /\ round' = [round EXCEPT ![n] = Empty]
      /\ clock' = [clock EXCEPT ![n] = 0]
      /\ replica' = [replica EXCEPT ![n] = id]
      /\ drawn' = drawn \cup {id}
      /\ id \notin drawn
      /\ faults' = faults
  BY DEF Restart
<1>2. open' \subseteq open
  BY DEF Restart
<1>3. \A l \in Link :
        IF n \in {l[1], l[2]}
        THEN acked'[l] = Empty /\ channel'[l] = << >>
        ELSE acked'[l] = acked[l] /\ channel'[l] = channel[l]
  BY DEF Restart
<1>4. TypeOK'
  <2>1. acked' \in [Link -> [Key -> Op]]
    BY EmptyType DEF Restart, TypeOK
  <2>2. channel' \in [Link -> Seq(Frame)]
    BY DEF Restart, TypeOK
  <2>3. clock' \in [Node -> 0 .. MaxClock]
    BY <1>1, ReplicationAssumption DEF TypeOK
  <2>4. \A m \in Link : Len(channel'[m]) <= ChannelSize
    BY <1>3, ReplicationAssumption DEF TypeOK
  <2> QED
    BY <1>1, <1>2, <2>1, <2>2, <2>3, <2>4, EmptyType DEF TypeOK
<1>5. HeldIsIssued'
  BY <1>1, EmptyType DEF HeldIsIssued, IsIssued, TypeOK
<1>6. FramesGood'
  <2> SUFFICES ASSUME NEW l \in Link, NEW i \in 1 .. Len(channel'[l])
               PROVE  GoodFrame(channel[l][i], l[1])'
    BY DEF FramesGood
  <2>1. n # l[1] /\ channel'[l] = channel[l]
    BY <1>3
  <2> QED
    BY <2>1, <1>1, BackIsLink DEF FramesGood, GoodFrame, TypeOK
<1>7. WatermarksHeld'
  <2> SUFFICES ASSUME NEW l \in Link, NEW k \in Key
               PROVE  ~Newer(acked'[l][k], store'[l[2]][k])
    BY DEF WatermarksHeld
  <2>1. CASE n \in {l[1], l[2]}
    BY <2>1, <1>3, <1>4, EmptyType, NothingIsOldest, BackIsLink DEF TypeOK
  <2>2. CASE n \notin {l[1], l[2]}
    BY <2>2, <1>1, <1>3, BackIsLink DEF WatermarksHeld, TypeOK
  <2> QED
    BY <2>1, <2>2
<1>8. ClocksAhead'
  BY <1>1, EmptyType, ReplicationAssumption DEF ClocksAhead, IdsUnique, TypeOK
<1>9. IdsUnique'
  BY <1>1 DEF IdsUnique, TypeOK
<1>10. VersionsIdentifyWrites'
  BY <1>1 DEF VersionsIdentifyWrites
<1> QED
  BY <1>4, <1>5, <1>6, <1>7, <1>8, <1>9, <1>10

LEMMA ConnectInv ==
  ASSUME Inv, NEW l \in Link, Connect(l)
  PROVE  Inv'
<1> USE DEF Inv
<1>1. UNCHANGED <<store, issued, replica, clock, round, acked, channel, faults, drawn>>
  BY DEF Connect, node
<1>2. TypeOK'
  BY <1>1, BackIsLink DEF TypeOK, Connect
<1>3. HeldIsIssued' /\ FramesGood' /\ WatermarksHeld' /\ ClocksAhead' /\ IdsUnique'
      /\ VersionsIdentifyWrites'
  BY <1>1 DEF HeldIsIssued, IsIssued, FramesGood, GoodFrame, WatermarksHeld,
              ClocksAhead, IdsUnique, VersionsIdentifyWrites
<1> QED
  BY <1>2, <1>3

LEMMA DisconnectInv ==
  ASSUME Inv, NEW l \in Link, Disconnect(l)
  PROVE  Inv'
<1> USE DEF Inv
<1>1. UNCHANGED <<store, issued, replica, clock, round, drawn>>
  BY DEF Disconnect, node
<1>2. \A m \in Link :
        IF m \in {l, Back(l)}
        THEN acked'[m] = Empty /\ channel'[m] = << >>
        ELSE acked'[m] = acked[m] /\ channel'[m] = channel[m]
  BY BackIsLink DEF Disconnect, TypeOK
<1>3. TypeOK'
  <2>1. acked' \in [Link -> [Key -> Op]]
    BY EmptyType DEF Disconnect, TypeOK
  <2>2. << >> \in Seq(Frame)
    OBVIOUS
  <2>3. channel' \in [Link -> Seq(Frame)]
    BY <2>2 DEF Disconnect, TypeOK
  <2>4. open' \subseteq Link /\ faults' \in Nat
    BY DEF TypeOK, Disconnect
  <2>5. \A m \in Link : Len(channel'[m]) <= ChannelSize
    BY <1>2, ReplicationAssumption DEF TypeOK
  <2> QED
    BY <1>1, <2>1, <2>3, <2>4, <2>5 DEF TypeOK
<1>4. HeldIsIssued' /\ ClocksAhead' /\ IdsUnique' /\ VersionsIdentifyWrites'
  BY <1>1 DEF HeldIsIssued, IsIssued, ClocksAhead, IdsUnique, VersionsIdentifyWrites
<1>5. FramesGood'
  <2> SUFFICES ASSUME NEW m \in Link, NEW i \in 1 .. Len(channel'[m])
               PROVE  GoodFrame(channel[m][i], m[1])'
    BY DEF FramesGood
  <2>1. channel'[m] = channel[m]
    BY <1>2
  <2> QED
    BY <2>1, <1>1 DEF FramesGood, GoodFrame
<1>6. WatermarksHeld'
  <2> SUFFICES ASSUME NEW m \in Link, NEW k \in Key
               PROVE  ~Newer(acked'[m][k], store[m[2]][k])
    BY <1>1 DEF WatermarksHeld
  <2>1. store[m[2]][k] \in Op
    BY BackIsLink DEF TypeOK
  <2>2. CASE m \in {l, Back(l)}
    BY <2>1, <2>2, <1>2, EmptyType, NothingIsOldest
  <2>3. CASE m \notin {l, Back(l)}
    BY <2>3, <1>2 DEF WatermarksHeld
  <2> QED
    BY <2>2, <2>3
<1> QED
  BY <1>3, <1>4, <1>5, <1>6

(* A good frame may join a channel.                                        *)
LEMMA AppendGood ==
  ASSUME NEW n \in Node, NEW s \in Seq(Frame), NEW f \in Frame, GoodFrame(f, n),
         \A i \in 1 .. Len(s) : GoodFrame(s[i], n)
  PROVE  /\ Append(s, f) \in Seq(Frame)
         /\ \A i \in 1 .. Len(Append(s, f)) : GoodFrame(Append(s, f)[i], n)
<1>1. Append(s, f) \in Seq(Frame)
  OBVIOUS
<1>2. ASSUME NEW i \in 1 .. Len(Append(s, f))
      PROVE  GoodFrame(Append(s, f)[i], n)
  <2>1. CASE i \in 1 .. Len(s)
    <3>1. Append(s, f)[i] = s[i]
      BY <2>1
    <3> QED
      BY <3>1, <2>1
  <2>2. CASE i = Len(s) + 1
    <3>1. Append(s, f)[i] = f
      BY <2>2
    <3> QED
      BY <3>1
  <2> QED
    BY <2>1, <2>2
<1> QED
  BY <1>1, <1>2

LEMMA SendRoundInv ==
  ASSUME Inv, NEW l \in Link, NEW k \in Key, SendRound(l, k)
  PROVE  Inv'
<1> DEFINE f == [kind |-> "batch", op |-> round[l[1]][k]]
<1> USE DEF Inv
<1>1. UNCHANGED <<store, issued, replica, clock, round, open, acked, faults, drawn>>
  BY DEF SendRound, node
<1>2. round[l[1]][k] \in Op /\ acked[l][k] \in Op /\ l[1] \in Node
  BY BackIsLink DEF TypeOK
<1>3. round[l[1]][k] \in issued
  <2>1. IsIssued(round[l[1]][k], k)
    BY <1>2 DEF HeldIsIssued
  <2>2. Newer(round[l[1]][k], acked[l][k])
    BY <2>1 DEF SendRound, Allows, IsIssued
  <2> QED
    BY <1>2, <2>1, <2>2, NothingIsOldest DEF IsIssued
<1>4. f \in Frame /\ GoodFrame(f, l[1])
  BY <1>2, <1>3 DEF Frame, GoodFrame
<1>5. channel' = [channel EXCEPT ![l] = Append(channel[l], f)]
  BY DEF SendRound
<1> HIDE DEF f
<1>6. channel[l] \in Seq(Frame) /\ \A i \in 1 .. Len(channel[l]) : GoodFrame(channel[l][i], l[1])
  BY DEF TypeOK, FramesGood
<1>7. /\ Append(channel[l], f) \in Seq(Frame)
      /\ \A i \in 1 .. Len(Append(channel[l], f)) : GoodFrame(Append(channel[l], f)[i], l[1])
  BY <1>2, <1>4, <1>6, AppendGood
<1>8. TypeOK'
  <2>1. Len(Append(channel[l], f)) <= ChannelSize
    BY <1>4, <1>6, ReplicationAssumption DEF SendRound, HasRoom
  <2>2. \A m \in Link : Len(channel'[m]) <= ChannelSize
    BY <2>1, <1>5 DEF TypeOK
  <2> QED
    BY <1>1, <1>5, <1>7, <2>2 DEF TypeOK
<1>9. FramesGood'
  <2> SUFFICES ASSUME NEW m \in Link, NEW i \in 1 .. Len(channel'[m])
               PROVE  GoodFrame(channel[m][i], m[1])'
    BY DEF FramesGood
  <2>1. GoodFrame(channel'[m][i], m[1])
    BY <1>5, <1>7 DEF FramesGood, TypeOK
  <2> QED
    BY <2>1, <1>1 DEF GoodFrame
<1>10. HeldIsIssued' /\ WatermarksHeld' /\ ClocksAhead' /\ IdsUnique'
       /\ VersionsIdentifyWrites'
  BY <1>1 DEF HeldIsIssued, IsIssued, WatermarksHeld, ClocksAhead, IdsUnique,
              VersionsIdentifyWrites
<1> QED
  BY <1>8, <1>9, <1>10

LEMMA ReceiveBatchInv ==
  ASSUME Inv, NEW l \in Link, ReceiveBatch(l)
  PROVE  Inv'
<1> DEFINE n == l[2]
           o == Head(channel[l]).op
           ack == [kind |-> "ack", op |-> o]
<1> USE DEF Inv
<1>1. UNCHANGED <<issued, replica, round, open, acked, faults, drawn>>
  BY DEF ReceiveBatch
<1>2. n \in Node /\ Back(l) \in Link /\ l # Back(l) /\ Back(l)[1] = n
  BY BackIsLink
<1>3. /\ o \in Op
      /\ o.key \in Key
      /\ o \in issued
      /\ Tail(channel[l]) \in Seq(Frame)
      /\ \A i \in 1 .. Len(Tail(channel[l])) : GoodFrame(Tail(channel[l])[i], l[1])
  BY HeadFacts DEF ReceiveBatch, GoodFrame
<1>4. clock' = [clock EXCEPT ![n] = Update(n, o)]
  BY DEF ReceiveBatch
<1>5. store' = IF Newer(o, store[n][o.key])
               THEN [store EXCEPT ![n][o.key] = o] ELSE store
  BY DEF ReceiveBatch
<1>6. /\ channel'[l] = Tail(channel[l])
      /\ channel'[Back(l)] = IF HasRoom(Back(l)) THEN Append(channel[Back(l)], ack)
                                                 ELSE channel[Back(l)]
      /\ \A m \in Link : m # l /\ m # Back(l) => channel'[m] = channel[m]
      /\ DOMAIN channel' = Link
      /\ channel' = [m \in Link |-> channel'[m]]
  BY <1>2 DEF ReceiveBatch, TypeOK
<1>7. ack \in Frame /\ ack.kind = "ack" /\ ack.op = o
  BY <1>3 DEF Frame
<1> HIDE DEF n, o, ack
<1>8. \A m \in Node, j \in Key : store[m][j] \in Op /\ store[m][j].ts \in Nat
  BY DEF TypeOK, Op
<1>9. /\ store' \in [Node -> [Key -> Op]]
      /\ \A m \in Node, j \in Key : store'[m][j] = store[m][j] \/ store'[m][j] = o
      /\ \A m \in Node, j \in Key : store'[m][j] # store[m][j] =>
           m = n /\ j = o.key /\ Newer(o, store[n][o.key])
      /\ ~Newer(o, store'[n][o.key])
  <2>1. CASE Newer(o, store[n][o.key])
    <3>1. store' = [store EXCEPT ![n][o.key] = o]
      BY <2>1, <1>5
    <3>2. store'[n][o.key] = o
      BY <3>1, <1>2, <1>3 DEF TypeOK
    <3> QED
      BY <2>1, <3>1, <3>2, <1>2, <1>3, NewerTransitive DEF TypeOK
  <2>2. CASE ~Newer(o, store[n][o.key])
    BY <2>2, <1>5 DEF TypeOK
  <2> QED
    BY <2>1, <2>2
<1>10. \A m \in Node, j \in Key, p \in Op :
         ~Newer(p, store[m][j]) => ~Newer(p, store'[m][j])
  <2> TAKE m \in Node, j \in Key, p \in Op
  <2>1. CASE store'[m][j] = store[m][j]
    BY <2>1
  <2>2. CASE store'[m][j] # store[m][j]
    BY <2>2, <1>2, <1>3, <1>8, <1>9, NewerTransitive
  <2> QED
    BY <2>1, <2>2
<1>11. /\ clock' \in [Node -> 0 .. MaxClock]
       /\ \A m \in Node : clock[m] \in Nat /\ clock'[m] \in Nat /\ clock[m] <= clock'[m]
       /\ store[n][o.key] # o => o.ts <= clock'[n]
  <2>1. clock[n] \in 0 .. MaxClock /\ MaxClock \in Nat /\ o.ts \in Nat /\ o.ts <= MaxClock
    BY <1>2, <1>3, ReplicationAssumption DEF TypeOK, Op, ClocksAhead
  <2>2. /\ Update(n, o) \in 0 .. MaxClock
        /\ clock[n] <= Update(n, o)
        /\ store[n][o.key] # o => o.ts <= Update(n, o)
    BY <2>1 DEF Update, AtMostClock
  <2> QED
    BY <2>1, <2>2, <1>2, <1>4 DEF TypeOK
<1>12. \A m \in Link : /\ channel'[m] \in Seq(Frame)
                       /\ \A i \in 1 .. Len(channel'[m]) :
                            GoodFrame(channel[m][i], m[1])'
  <2> TAKE m \in Link
  <2>1. \A f \in Frame : f.op \in Op /\ f.op.key \in Key
    BY DEF Frame, Op
  <2>2. \A f \in Frame, p \in Node : GoodFrame(f, p) => GoodFrame(f, p)'
    BY <2>1, <1>1, <1>10 DEF GoodFrame
  <2>3. m[1] \in Node
    BY BackIsLink
  <2>4. channel[m] \in Seq(Frame) /\ \A i \in 1 .. Len(channel[m]) : GoodFrame(channel[m][i], m[1])
    BY DEF TypeOK, FramesGood
  <2>5. SUFFICES ASSUME TRUE
                 PROVE  /\ channel'[m] \in Seq(Frame)
                        /\ \A i \in 1 .. Len(channel'[m]) :
                             /\ channel'[m][i] \in Frame
                             /\ channel'[m][i].op \in issued
                             /\ channel'[m][i].kind = "ack" =>
                                  ~Newer(channel'[m][i].op,
                                         store'[m[1]][channel'[m][i].op.key])
    BY <1>1 DEF GoodFrame
  <2>6. \A s \in Seq(Frame) :
          (\A i \in 1 .. Len(s) : GoodFrame(s[i], m[1])) =>
             \A i \in 1 .. Len(s) :
               /\ s[i] \in Frame
               /\ s[i].op \in issued
               /\ s[i].kind = "ack" => ~Newer(s[i].op, store'[m[1]][s[i].op.key])
    <3> SUFFICES ASSUME NEW s \in Seq(Frame), NEW i \in 1 .. Len(s), GoodFrame(s[i], m[1])
                 PROVE  /\ s[i] \in Frame
                        /\ s[i].op \in issued
                        /\ s[i].kind = "ack" => ~Newer(s[i].op, store'[m[1]][s[i].op.key])
      OBVIOUS
    <3>1. s[i] \in Frame
      OBVIOUS
    <3> QED
      BY <3>1, <2>1, <2>3, <1>10 DEF GoodFrame
  <2>7. CASE m = l
    BY <2>6, <2>7, <1>3, <1>6
  <2>8. CASE m = Back(l) /\ HasRoom(Back(l))
    <3>1. channel'[m] = Append(channel[m], ack)
      BY <2>8, <1>6
    <3>2. /\ Append(channel[m], ack) \in Seq(Frame)
          /\ Len(Append(channel[m], ack)) = Len(channel[m]) + 1
          /\ \A i \in 1 .. Len(channel[m]) : Append(channel[m], ack)[i] = channel[m][i]
          /\ Append(channel[m], ack)[Len(channel[m]) + 1] = ack
      BY <2>4, <1>7
    <3>3. m[1] = n
      BY <2>8, <1>2
    <3> SUFFICES ASSUME NEW i \in 1 .. Len(channel[m]) + 1
                 PROVE  /\ Append(channel[m], ack)[i] \in Frame
                        /\ Append(channel[m], ack)[i].op \in issued
                        /\ Append(channel[m], ack)[i].kind = "ack" =>
                             ~Newer(Append(channel[m], ack)[i].op,
                                    store'[m[1]][Append(channel[m], ack)[i].op.key])
      BY <3>1, <3>2
    <3>4. CASE i \in 1 .. Len(channel[m])
      BY <3>2, <3>4, <2>4, <2>6
    <3>5. CASE i = Len(channel[m]) + 1
      BY <3>2, <3>3, <3>5, <1>3, <1>7, <1>9
    <3> QED
      BY <3>4, <3>5, <2>4
  <2>9. CASE m # l /\ ~(m = Back(l) /\ HasRoom(Back(l)))
    <3>1. channel'[m] = channel[m]
      BY <2>9, <1>6
    <3> QED
      BY <3>1, <2>4, <2>6
  <2> QED
    BY <2>7, <2>8, <2>9
<1>13. TypeOK'
  <2>1. channel' \in [Link -> Seq(Frame)]
    BY <1>6, <1>12
  <2>2. ASSUME NEW m \in Link
        PROVE  Len(channel'[m]) <= ChannelSize
    <3>1. channel[m] \in Seq(Frame) /\ Len(channel[m]) <= ChannelSize /\ ChannelSize \in Nat
      BY ReplicationAssumption DEF TypeOK
    <3>2. CASE m = l
      <4>1. channel[m] # << >>
        BY <3>2 DEF ReceiveBatch
      <4>2. Len(Tail(channel[m])) = Len(channel[m]) - 1
        BY <3>1, <4>1
      <4> QED
        BY <3>1, <3>2, <4>1, <4>2, <1>6
    <3>3. CASE m = Back(l) /\ HasRoom(m)
      BY <3>1, <3>3, <1>6, <1>7 DEF HasRoom
    <3>4. CASE m # l /\ ~(m = Back(l) /\ HasRoom(m))
      BY <3>1, <3>4, <1>6
    <3> QED
      BY <3>2, <3>3, <3>4
  <2> QED
    BY <2>1, <2>2, <1>1, <1>9, <1>11 DEF TypeOK
<1>14. HeldIsIssued'
  BY <1>1, <1>3, <1>9 DEF HeldIsIssued, IsIssued
<1>15. FramesGood'
  BY <1>12 DEF FramesGood
<1>16. WatermarksHeld'
  BY <1>1, <1>10, BackIsLink DEF WatermarksHeld, TypeOK
<1>17. ClocksAhead'
  <2>1. ASSUME NEW m \in Node, NEW j \in Key
        PROVE  store'[m][j].ts <= clock'[m]
    <3>1. CASE store'[m][j] = store[m][j]
      BY <3>1, <1>8, <1>11 DEF ClocksAhead
    <3>2. CASE store'[m][j] # store[m][j]
      BY <3>2, <1>9, <1>11
    <3> QED
      BY <3>1, <3>2
  <2>2. ASSUME NEW m \in Node, NEW p \in issued, p.rep = replica[m]
        PROVE  p.ts <= clock'[m]
    <3>1. p.ts \in Nat /\ p.ts <= clock[m]
      BY <2>2 DEF ClocksAhead, TypeOK, Op
    <3> QED
      BY <3>1, <1>11
  <2>3. \A p \in issued : 1 <= p.ts /\ p.ts <= MaxClock
    BY DEF ClocksAhead
  <2> QED
    BY <1>1, <2>1, <2>2, <2>3 DEF ClocksAhead
<1>18. IdsUnique' /\ VersionsIdentifyWrites'
  BY <1>1 DEF IdsUnique, VersionsIdentifyWrites
<1> QED
  BY <1>13, <1>14, <1>15, <1>16, <1>17, <1>18

LEMMA ReceiveAckInv ==
  ASSUME Inv, NEW l \in Link, ReceiveAck(l)
  PROVE  Inv'
<1> DEFINE b == Back(l)
           o == Head(channel[l]).op
<1> USE DEF Inv
<1>1. UNCHANGED <<store, issued, replica, clock, round, open, faults, drawn>>
  BY DEF ReceiveAck, node
<1>2. b \in Link /\ b[2] = l[1] /\ l[1] \in Node
  BY BackIsLink
<1>3. /\ o \in Op
      /\ o.key \in Key
      /\ ~Newer(o, store[l[1]][o.key])
      /\ Tail(channel[l]) \in Seq(Frame)
      /\ \A i \in 1 .. Len(Tail(channel[l])) : GoodFrame(Tail(channel[l])[i], l[1])
  BY HeadFacts DEF ReceiveAck, GoodFrame
<1>4. acked' = IF Newer(o, acked[b][o.key])
               THEN [acked EXCEPT ![b][o.key] = o] ELSE acked
  BY DEF ReceiveAck
<1>5. channel' = [channel EXCEPT ![l] = Tail(channel[l])]
  BY DEF ReceiveAck
<1> HIDE DEF b, o
<1>6. /\ acked' \in [Link -> [Key -> Op]]
      /\ \A m \in Link, k \in Key :
           acked'[m][k] = acked[m][k] \/ (m = b /\ k = o.key /\ acked'[m][k] = o)
  <2>1. CASE Newer(o, acked[b][o.key])
    BY <2>1, <1>2, <1>3, <1>4 DEF TypeOK
  <2>2. CASE ~Newer(o, acked[b][o.key])
    BY <2>2, <1>4 DEF TypeOK
  <2> QED
    BY <2>1, <2>2
<1>7. TypeOK'
  <2>1. channel[l] \in Seq(Frame) /\ channel[l] # << >> /\ Len(channel[l]) <= ChannelSize
    BY DEF ReceiveAck, TypeOK
  <2>2. Len(Tail(channel[l])) <= ChannelSize
    BY <2>1, ReplicationAssumption
  <2>3. \A m \in Link : Len(channel'[m]) <= ChannelSize
    BY <2>2, <1>5 DEF TypeOK
  <2> QED
    BY <1>1, <1>3, <1>5, <1>6, <2>3 DEF TypeOK
<1>8. FramesGood'
  <2> SUFFICES ASSUME NEW m \in Link, NEW i \in 1 .. Len(channel'[m])
               PROVE  GoodFrame(channel[m][i], m[1])'
    BY DEF FramesGood
  <2>1. GoodFrame(channel'[m][i], m[1])
    BY <1>3, <1>5 DEF FramesGood, TypeOK
  <2> QED
    BY <2>1, <1>1 DEF GoodFrame
<1>9. WatermarksHeld'
  BY <1>1, <1>2, <1>3, <1>6 DEF WatermarksHeld
<1>10. HeldIsIssued' /\ ClocksAhead' /\ IdsUnique' /\ VersionsIdentifyWrites'
  BY <1>1 DEF HeldIsIssued, IsIssued, ClocksAhead, IdsUnique, VersionsIdentifyWrites
<1> QED
  BY <1>7, <1>8, <1>9, <1>10

LEMMA StepInv == Inv /\ [Next]_vars => Inv'
<1> SUFFICES ASSUME Inv, [Next]_vars PROVE Inv'
  OBVIOUS
<1>1. ASSUME NEW n \in Node, NEW k \in Key, NEW v \in Value, Put(n, k, v)
      PROVE  Inv'
  BY <1>1, PutInv
<1>2. ASSUME NEW n \in Node, CollectRound(n) PROVE Inv'
  BY <1>2, CollectRoundInv
<1>3. ASSUME NEW n \in Node, NEW id \in ReplicaIds, Restart(n, id) PROVE Inv'
  BY <1>3, RestartInv
<1>4. ASSUME NEW l \in Link, Connect(l) PROVE Inv'
  BY <1>4, ConnectInv
<1>5. ASSUME NEW l \in Link, Disconnect(l) PROVE Inv'
  BY <1>5, DisconnectInv
<1>6. ASSUME NEW l \in Link, NEW k \in Key, SendRound(l, k) PROVE Inv'
  BY <1>6, SendRoundInv
<1>7. ASSUME NEW l \in Link, ReceiveBatch(l) PROVE Inv'
  BY <1>7, ReceiveBatchInv
<1>8. ASSUME NEW l \in Link, ReceiveAck(l) PROVE Inv'
  BY <1>8, ReceiveAckInv
<1>9. CASE UNCHANGED vars
  <2>1. UNCHANGED <<store, issued, replica, clock, round, open, acked, channel,
                    faults, drawn>>
    BY <1>9 DEF vars, node, link
  <2> QED
    BY <2>1 DEF Inv, TypeOK, HeldIsIssued, IsIssued, FramesGood, GoodFrame,
                WatermarksHeld, ClocksAhead, IdsUnique, VersionsIdentifyWrites
<1> QED
  BY <1>1, <1>2, <1>3, <1>4, <1>5, <1>6, <1>7, <1>8, <1>9 DEF Next

LEMMA InvAlways == Spec => []Inv
<1>1. Init => Inv
  BY InitInv
<1>2. Inv /\ [Next]_vars => Inv'
  BY StepInv
<1> QED
  BY <1>1, <1>2, PTL DEF Spec

LEMMA HeldFollows == Inv => AckedIsHeld
<1> SUFFICES ASSUME Inv, NEW l \in open
             PROVE  /\ \A k \in Key : ~Newer(acked[l][k], store[l[2]][k])
                    /\ \A i \in 1 .. Len(channel[Back(l)]) :
                         channel[Back(l)][i].kind = "ack" =>
                           ~Newer(channel[Back(l)][i].op,
                                  store[l[2]][channel[Back(l)][i].op.key])
  BY DEF AckedIsHeld
<1>1. l \in Link
  BY DEF Inv, TypeOK
<1>2. Back(l) \in Link /\ Back(l)[1] = l[2]
  BY <1>1, BackIsLink
<1> QED
  BY <1>1, <1>2 DEF Inv, WatermarksHeld, FramesGood, GoodFrame

LEMMA SilenceFollows == Inv => SilenceMeansEqual
<1> SUFFICES ASSUME Inv, NEW l \in Link, Idle(l), Idle(Back(l))
             PROVE  store[l[1]] = store[l[2]]
  BY DEF SilenceMeansEqual
<1> USE DEF Inv
<1>1. /\ Back(l) \in Link
      /\ Back(l)[1] = l[2]
      /\ Back(l)[2] = l[1]
      /\ l[1] \in Node
      /\ l[2] \in Node
  BY BackIsLink
<1>2. ASSUME NEW m \in Link, Idle(m), NEW k \in Key
      PROVE  ~Newer(store[m[1]][k], store[m[2]][k])
  <2>1. m[1] \in Node /\ m[2] \in Node
    BY BackIsLink
  <2>2. store[m[1]][k] \in Op /\ store[m[2]][k] \in Op /\ acked[m][k] \in Op
    BY <2>1 DEF TypeOK
  <2>3. store[m[1]][k].key = k
    BY <2>1 DEF HeldIsIssued, IsIssued
  <2>4. ~Newer(store[m[1]][k], acked[m][k])
    BY <1>2, <2>3 DEF Idle, Allows
  <2>5. ~Newer(acked[m][k], store[m[2]][k])
    BY DEF WatermarksHeld
  <2> QED
    BY <2>2, <2>4, <2>5, NewerTransitive
<1>3. ASSUME NEW k \in Key
      PROVE  store[l[1]][k] = store[l[2]][k]
  <2> DEFINE o == store[l[1]][k]
             p == store[l[2]][k]
  <2>1. ~Newer(o, p) /\ ~Newer(p, o)
    BY <1>1, <1>2
  <2>2. o \in Op /\ p \in Op
    BY <1>1 DEF TypeOK
  <2>3. IsIssued(o, k) /\ IsIssued(p, k)
    BY <1>1 DEF HeldIsIssued
  <2> SUFFICES o = p
    OBVIOUS
  <2> HIDE DEF o, p
  <2>4. o.ts = p.ts /\ o.rep = p.rep
    BY <2>1, <2>2 DEF Newer, Op
  <2>5. CASE o \in issued /\ p \in issued
    BY <2>3, <2>4, <2>5 DEF VersionsIdentifyWrites, SameVersion, IsIssued
  <2>6. CASE o = Nothing(k) \/ p = Nothing(k)
    <3>1. o.ts = 0 /\ p.ts = 0
      BY <2>4, <2>6, EmptyType
    <3>2. o \notin issued /\ p \notin issued
      BY <3>1 DEF ClocksAhead
    <3> QED
      BY <3>2, <2>3 DEF IsIssued
  <2> QED
    BY <2>3, <2>5, <2>6 DEF IsIssued
<1>4. store[l[1]] \in [Key -> Op] /\ store[l[2]] \in [Key -> Op]
  BY <1>1 DEF TypeOK
<1> QED
  BY <1>3, <1>4

(* The words of the replication protocol keep their types on any mesh, and *)
(* no outbound channel ever holds more than it can.                        *)
THEOREM ReplicationTypeCorrect == Spec => []TypeOK
<1>1. Inv => TypeOK
  BY DEF Inv
<1> QED
  BY <1>1, InvAlways, PTL

(* No sender ever takes a key for delivered that its peer does not hold,   *)
(* whatever is dropped, repeated, broken off or restarted: the watermark   *)
(* of send_round and handle_frame is sound on any mesh.                    *)
THEOREM AckedAlwaysHeld == Spec => []AckedIsHeld
BY InvAlways, HeldFollows, PTL

(* On any mesh, two ends of a stream that have both fallen silent hold the *)
(* same operation of every key.                                            *)
THEOREM SilentStreamsAgree == Spec => []SilenceMeansEqual
BY InvAlways, SilenceFollows, PTL

(* With a fresh replica id in every life, no two writes ever have one      *)
(* version, although the Lamport clock restarts at zero.                   *)
THEOREM VersionsAreUnique == Spec => []VersionsIdentifyWrites
<1>1. Inv => VersionsIdentifyWrites
  BY DEF Inv
<1> QED
  BY <1>1, InvAlways, PTL

-------------------------------------------------------------------------------
(* Refinement.                                                             *)

LEMMA InitRefines == Init => Register!Init
BY DEF Init, Register!Init, Register!Empty, Empty, Register!Nothing, Nothing

LEMMA StepRefines == Inv /\ [Next]_vars => [Register!Next]_<<store, issued>>
<1> SUFFICES ASSUME Inv, [Next]_vars PROVE [Register!Next]_<<store, issued>>
  OBVIOUS
<1> USE DEF Inv
<1>1. ASSUME NEW n \in Node, NEW k \in Key, NEW v \in Value, Put(n, k, v)
      PROVE  Register!Next
  <2> DEFINE o == Stamped(n, k, v)
  <2>1. /\ o.key = k
        /\ Newer(o, store[n][k])
        /\ \A p \in issued : ~SameVersion(o, p)
    BY PutIsNew
  <2>2. issued' = issued \cup {o} /\ store' = [store EXCEPT ![n][k] = o]
    BY <1>1 DEF Put
  <2>3. o \in issued' \ issued
    BY <2>1, <2>2 DEF SameVersion
  <2> HIDE DEF o
  <2>4. Register!Write(n, o)
    BY <2>1, <2>2 DEF Register!Write, Register!SameVersion, Register!Newer,
                      SameVersion, Newer
  <2> QED
    BY <2>3, <2>4 DEF Register!Next
<1>2. ASSUME NEW n \in Node, CollectRound(n) PROVE UNCHANGED <<store, issued>>
  BY <1>2 DEF CollectRound
<1>3. ASSUME NEW n \in Node, NEW id \in ReplicaIds, Restart(n, id)
      PROVE  Register!Next
  <2>1. Register!Forget(n)
    BY <1>3 DEF Restart, Register!Forget, Register!Empty, Empty, Register!Nothing, Nothing
  <2> QED
    BY <2>1 DEF Register!Next
<1>4. ASSUME NEW l \in Link, Connect(l) PROVE UNCHANGED <<store, issued>>
  BY <1>4 DEF Connect, node
<1>5. ASSUME NEW l \in Link, Disconnect(l) PROVE UNCHANGED <<store, issued>>
  BY <1>5 DEF Disconnect, node
<1>6. ASSUME NEW l \in Link, NEW k \in Key, SendRound(l, k)
      PROVE  UNCHANGED <<store, issued>>
  BY <1>6 DEF SendRound, node
<1>7. ASSUME NEW l \in Link, ReceiveBatch(l)
      PROVE  Register!Next \/ UNCHANGED <<store, issued>>
  <2> DEFINE o == Head(channel[l]).op
  <2>1. o \in issued /\ l[2] \in Node
    BY <1>7, HeadFacts, BackIsLink DEF ReceiveBatch, GoodFrame
  <2>2. /\ issued' = issued
        /\ store' = IF Newer(o, store[l[2]][o.key])
                    THEN [store EXCEPT ![l[2]][o.key] = o] ELSE store
    BY <1>7 DEF ReceiveBatch
  <2> HIDE DEF o
  <2>3. CASE Newer(o, store[l[2]][o.key])
    <3>1. Register!Learn(l[2], o)
      BY <2>2, <2>3 DEF Register!Learn, Register!Newer, Newer
    <3> QED
      BY <3>1, <2>1 DEF Register!Next
  <2>4. CASE ~Newer(o, store[l[2]][o.key])
    BY <2>2, <2>4
  <2> QED
    BY <2>3, <2>4
<1>8. ASSUME NEW l \in Link, ReceiveAck(l) PROVE UNCHANGED <<store, issued>>
  BY <1>8 DEF ReceiveAck, node
<1>9. CASE UNCHANGED vars
  BY <1>9 DEF vars, node
<1> QED
  BY <1>1, <1>2, <1>3, <1>4, <1>5, <1>6, <1>7, <1>8, <1>9 DEF Next

(* The mesh store, with its rounds, watermarks, dropped frames and         *)
(* restarts, implements the abstract register: no node ever shows an       *)
(* operation nobody issued, or goes back to an older one while it lives.   *)
THEOREM StoreImplementsRegister == Spec => ImplementsRegister
<1>1. Init => Register!Init
  BY InitRefines
<1>2. Inv /\ [Next]_vars => [Register!Next]_<<store, issued>>
  BY StepRefines
<1> QED
  BY <1>1, <1>2, InvAlways, PTL DEF Spec, ImplementsRegister, Register!Spec
===============================================================================
