--------------------------- MODULE WorkerSyncProofs ---------------------------
(***************************************************************************)
(* WorkerSync is type-correct, and nothing that arrives from the mesh      *)
(* touches a locally registered worker, for every number of gateways,      *)
(* endpoints, ids and specifications.                                      *)
(***************************************************************************)
EXTENDS WorkerSync, TLAPS

(* The parts of TypeOK that one group of operators may disturb.            *)
StoreOK ==
  /\ kv \in [Node -> [Key -> Op]]
  /\ clock \in [Node -> Nat]
  /\ issued \subseteq Op

RegistryOK ==
  /\ reg \in [Node -> [Url -> Worker \cup {NoWorker}]]
  /\ events \in [Node -> Seq(Event)]
  /\ \A n \in Node : Len(events[n]) <= EventBuffer
  /\ lagged \in [Node -> BOOLEAN]

OutboundOK ==
  /\ published \in [Node -> SUBSET [id : Key, url : Url]]
  /\ retired \in [Node -> SUBSET Url]

RestOK ==
  /\ view \in [Node -> [Node -> Standing]]
  /\ up \subseteq Node
  /\ used \subseteq Key
  /\ changes \in 0 .. MaxChanges

(* TypeOK is the conjunction of its parts.                                 *)
LEMMA TypeParts == TypeOK <=> StoreOK /\ RegistryOK /\ OutboundOK /\ RestOK
BY DEF TypeOK, StoreOK, RegistryOK, OutboundOK, RestOK

(* A stamped value is an operation.                                        *)
LEMMA StampedIsOp ==
  ASSUME NEW k \in Key, NEW t \in Nat, NEW r \in Nat, NEW v \in Value
  PROVE  [key |-> k, ts |-> t, rep |-> r, val |-> v] \in Op
BY DEF Op

(* put and delete keep the store well-typed.                               *)
LEMMA WriteType ==
  ASSUME StoreOK, NEW n \in Node, NEW new,
         DOMAIN new \subseteq Key,
         \A k \in DOMAIN new : new[k] \in Value,
         Write(n, new)
  PROVE  StoreOK'
<1> DEFINE stamped(k) ==
             [key |-> k, ts |-> clock[n] + 1, rep |-> ReplicaOf[n], val |-> new[k]]
<1>1. \A k \in DOMAIN new : stamped(k) \in Op
  <2>1. clock[n] + 1 \in Nat /\ ReplicaOf[n] \in Nat
    BY WorkerSyncAssumption DEF StoreOK
  <2> QED BY <2>1, StampedIsOp
<1>2. /\ kv' = [kv EXCEPT ![n] =
                  [k \in Key |-> IF k \in DOMAIN new THEN stamped(k) ELSE @[k]]]
      /\ clock' = [clock EXCEPT ![n] = IF DOMAIN new = {} THEN @ ELSE @ + 1]
      /\ issued' = issued \cup {stamped(k) : k \in DOMAIN new}
  BY DEF Write
<1> HIDE DEF stamped
<1>3. kv' \in [Node -> [Key -> Op]]
  <2>1. [k \in Key |-> IF k \in DOMAIN new THEN stamped(k) ELSE kv[n][k]] \in [Key -> Op]
    BY <1>1 DEF StoreOK
  <2> QED BY <1>2, <2>1 DEF StoreOK
<1>4. clock' \in [Node -> Nat]
  BY <1>2 DEF StoreOK
<1>5. issued' \subseteq Op
  BY <1>1, <1>2 DEF StoreOK
<1> QED BY <1>3, <1>4, <1>5 DEF StoreOK

(* One put, one delete.                                                    *)
LEMMA PutType ==
  ASSUME StoreOK, NEW n \in Node, NEW k \in Key, NEW state \in State, Put(n, k, state)
  PROVE  StoreOK'
<1> DEFINE new == [j \in {k} |-> state]
<1>1. DOMAIN new \subseteq Key /\ \A j \in DOMAIN new : new[j] \in Value
  BY DEF Value
<1>2. Write(n, new)
  BY DEF Put
<1> HIDE DEF new
<1> QED BY <1>1, <1>2, WriteType

LEMMA DeleteType ==
  ASSUME StoreOK, NEW n \in Node, NEW k \in Key, Delete(n, k)
  PROVE  StoreOK'
<1> DEFINE new == [j \in {k} |-> Tombstone]
<1>1. DOMAIN new \subseteq Key /\ \A j \in DOMAIN new : new[j] \in Value
  BY DEF Value
<1>2. Write(n, new)
  BY DEF Delete
<1> HIDE DEF new
<1> QED BY <1>1, <1>2, WriteType

(* The event channel stays within its size.                                *)
LEMMA EmitType ==
  ASSUME RegistryOK, NEW n \in Node, NEW kind \in {"registered", "replaced", "removed"},
         NEW k \in Key, NEW spec \in Spec, NEW u \in Url, Emit(n, kind, k, spec, u)
  PROVE  /\ events' \in [Node -> Seq(Event)]
         /\ \A m \in Node : Len(events'[m]) <= EventBuffer
         /\ lagged' \in [Node -> BOOLEAN]
<1> DEFINE e == [kind |-> kind, id |-> k, spec |-> spec, url |-> u]
           all == Append(events[n], e)
           kept == IF Len(all) > EventBuffer THEN Tail(all) ELSE all
<1>1. e \in Event
  BY DEF Event
<1>2. /\ events' = [events EXCEPT ![n] = kept]
      /\ lagged' = [lagged EXCEPT ![n] = @ \/ Len(all) > EventBuffer]
  BY DEF Emit
<1> HIDE DEF e
<1>3. events[n] \in Seq(Event) /\ Len(events[n]) \in Nat /\ Len(events[n]) <= EventBuffer
  BY DEF RegistryOK
<1>4. all \in Seq(Event) /\ Len(all) = Len(events[n]) + 1
  BY <1>1, <1>3
<1> HIDE DEF all
<1>5. kept \in Seq(Event) /\ Len(kept) <= EventBuffer
  <2>1. CASE Len(all) > EventBuffer
    <3>1. all # << >>
      BY <1>3, <1>4
    <3>2. Tail(all) \in Seq(Event) /\ Len(Tail(all)) = Len(all) - 1
      BY <1>4, <3>1
    <3> QED BY <2>1, <1>3, <1>4, <3>2, WorkerSyncAssumption
  <2>2. CASE ~(Len(all) > EventBuffer)
    BY <2>2, <1>3, <1>4, WorkerSyncAssumption
  <2> QED BY <2>1, <2>2
<1> HIDE DEF kept
<1>6. events' \in [Node -> Seq(Event)] /\ \A m \in Node : Len(events'[m]) <= EventBuffer
  BY <1>2, <1>5 DEF RegistryOK
<1>7. lagged' \in [Node -> BOOLEAN]
  BY <1>2 DEF RegistryOK
<1> QED BY <1>6, <1>7

(* Installing and removing a worker.                                       *)
LEMMA InstallType ==
  ASSUME RegistryOK, NEW n \in Node, NEW u \in Url, NEW w \in Worker,
         NEW kind \in {"registered", "replaced", "removed"}, Install(n, u, w, kind)
  PROVE  RegistryOK'
<1>1. w.id \in Key /\ w.spec \in Spec
  BY DEF Worker
<1>2. reg' = [reg EXCEPT ![n][u] = w] /\ Emit(n, kind, w.id, w.spec, u)
  BY DEF Install
<1>3. reg' \in [Node -> [Url -> Worker \cup {NoWorker}]]
  BY <1>2 DEF RegistryOK
<1> QED BY <1>1, <1>2, <1>3, EmitType DEF RegistryOK

LEMMA UninstallType ==
  ASSUME RegistryOK, NEW n \in Node, NEW u \in Url, reg[n][u] # NoWorker, Uninstall(n, u)
  PROVE  RegistryOK'
<1>1. reg[n][u] \in Worker
  BY DEF RegistryOK
<1>2. reg[n][u].id \in Key /\ reg[n][u].spec \in Spec
  BY <1>1 DEF Worker
<1>3. /\ reg' = [reg EXCEPT ![n][u] = NoWorker]
      /\ Emit(n, "removed", reg[n][u].id, reg[n][u].spec, u)
  BY DEF Uninstall
<1>4. reg' \in [Node -> [Url -> Worker \cup {NoWorker}]]
  BY <1>3 DEF RegistryOK
<1> QED BY <1>2, <1>3, <1>4, EmitType DEF RegistryOK

(* A worker of the registry has the fields of one.                         *)
LEMMA HeldWorker ==
  ASSUME RegistryOK, NEW n \in Node, NEW u \in Url, reg[n][u] # NoWorker
  PROVE  /\ reg[n][u] \in Worker
         /\ reg[n][u].id \in Key
         /\ reg[n][u].spec \in Spec
         /\ reg[n][u].rev \in Nat
         /\ reg[n][u].built \in Nat
         /\ reg[n][u].local \in BOOLEAN
BY DEF RegistryOK, Worker

(* The state a node publishes for one of its workers is one.               *)
LEMMA PublishedState ==
  ASSUME RegistryOK, NEW n \in Node, NEW u \in Url, reg[n][u] # NoWorker, NEW spec \in Spec
  PROVE  StateOf(n, u, spec) \in State
BY HeldWorker DEF StateOf, State

(* An import rebuilt from a newer publication is a worker.                 *)
LEMMA RebuiltType ==
  ASSUME NEW w \in Worker, NEW spec \in Spec, NEW ver \in Nat
  PROVE  [w EXCEPT !.rev = @ + 1, !.spec = spec, !.built = ver] \in Worker
<1>1. w.rev + 1 \in Nat
  BY DEF Worker
<1>2. [w EXCEPT !.rev = w.rev + 1] \in Worker
  BY <1>1 DEF Worker
<1> QED BY <1>1, <1>2 DEF Worker

(* Applying a key's state keeps store and registry well-typed.             *)
LEMMA ApplyType ==
  ASSUME StoreOK, RegistryOK, NEW n \in Node, NEW k \in Key, NEW state \in State,
         ApplyState(n, k, state)
  PROVE  StoreOK' /\ RegistryOK'
<1>1. /\ state.url \in Url /\ state.ver \in Nat /\ state.spec \in Spec
  BY DEF State
<1>2. CASE Delete(n, k) /\ UNCHANGED registry
  BY <1>2, DeleteType DEF registry, RegistryOK
<1>3. CASE RepublishAbove(n, k, state)
  <2>1. PICK u \in Outranked(n, k, state) :
          /\ reg' = [reg EXCEPT ![n][u].rev = state.ver + 1]
          /\ Put(n, k, [owner |-> n, url |-> u, ver |-> state.ver + 1,
                        spec |-> reg[n][u].spec])
    BY <1>3 DEF RepublishAbove
  <2>2. u \in Url /\ reg[n][u] # NoWorker
    BY DEF Outranked, UrlOf
  <2>3. reg[n][u] \in Worker /\ reg[n][u].spec \in Spec
    BY <2>2, HeldWorker
  <2>4. [owner |-> n, url |-> u, ver |-> state.ver + 1, spec |-> reg[n][u].spec] \in State
    BY <1>1, <2>2, <2>3 DEF State
  <2>5. StoreOK'
    BY <2>1, <2>4, PutType
  <2>6. [reg[n][u] EXCEPT !.rev = state.ver + 1] \in Worker
    BY <1>1, <2>3 DEF Worker
  <2>7. reg' \in [Node -> [Url -> Worker \cup {NoWorker}]]
    BY <2>1, <2>2, <2>6 DEF RegistryOK
  <2> QED BY <1>3, <2>5, <2>7 DEF RepublishAbove, RegistryOK
<1>4. CASE DropImport(n, k, state.url)
  <2>1. StoreOK'
    BY <1>4 DEF DropImport, store, StoreOK
  <2>2. RegistryOK'
    BY <1>1, <1>4, UninstallType DEF DropImport, IsImport, registry, RegistryOK
  <2> QED BY <2>1, <2>2
<1>5. CASE UNCHANGED <<store, registry>>
  BY <1>5 DEF store, registry, StoreOK, RegistryOK
<1>6. CASE OnRemoteWorkerState(n, k, state)
  <2> DEFINE u == state.url
             new == [id |-> k, local |-> FALSE, rev |-> 0, spec |-> state.spec,
                     built |-> state.ver]
             rebuilt == [reg[n][u] EXCEPT !.rev = @ + 1, !.spec = state.spec,
                                          !.built = state.ver]
  <2>1. StoreOK'
    BY <1>6 DEF OnRemoteWorkerState, store, StoreOK
  <2>2. CASE Install(n, u, new, "registered")
    <3>1. new \in Worker
      BY <1>1 DEF Worker
    <3> HIDE DEF new
    <3> QED BY <1>1, <2>1, <2>2, <3>1, InstallType
  <2>3. CASE IsImport(n, u) /\ Install(n, u, rebuilt, "replaced")
    <3>1. reg[n][u] \in Worker
      BY <1>1, <2>3, HeldWorker DEF IsImport
    <3>2. rebuilt \in Worker
      BY <1>1, <3>1, RebuiltType
    <3> HIDE DEF rebuilt
    <3> QED BY <1>1, <2>1, <2>3, <3>2, InstallType
  <2>4. CASE UNCHANGED registry
    BY <2>1, <2>4 DEF registry, RegistryOK
  <2>5. \/ Install(n, u, new, "registered")
        \/ IsImport(n, u) /\ Install(n, u, rebuilt, "replaced")
        \/ UNCHANGED registry
    BY <1>6 DEF OnRemoteWorkerState
  <2> QED BY <2>1, <2>2, <2>3, <2>4, <2>5
<1> QED BY <1>2, <1>3, <1>4, <1>5, <1>6 DEF ApplyState

(* The outbound loop, one event.                                           *)
LEMMA OutboundType ==
  ASSUME StoreOK, RegistryOK, OutboundOK, NEW n \in Node, Outbound(n)
  PROVE  StoreOK' /\ RegistryOK' /\ OutboundOK'
<1> DEFINE e == Head(events[n])
<1>1. e \in Event /\ Tail(events[n]) \in Seq(Event)
      /\ Len(Tail(events[n])) <= EventBuffer
  <2>1. /\ events[n] \in Seq(Event) /\ events[n] # << >>
        /\ Len(events[n]) <= EventBuffer /\ EventBuffer \in Nat
    BY WorkerSyncAssumption DEF Outbound, RegistryOK
  <2>2. Len(Tail(events[n])) = Len(events[n]) - 1 /\ Len(events[n]) \in Nat
    BY <2>1
  <2> QED BY <2>1, <2>2
<1>2. e.id \in Key /\ e.spec \in Spec /\ e.url \in Url
  BY <1>1 DEF Event
<1>3. RegistryOK'
  <2>1. /\ events' = [events EXCEPT ![n] = Tail(events[n])]
        /\ UNCHANGED <<reg, lagged>>
    BY DEF Outbound
  <2> QED BY <1>1, <2>1 DEF RegistryOK
<1>4. RemoveEvent(n, e) \/ PublishEvent(n, e)
  BY DEF Outbound
<1> HIDE DEF e
<1>5. CASE UNCHANGED <<store, outbound>>
  BY <1>3, <1>5 DEF store, outbound, StoreOK, OutboundOK
<1>6. CASE Delete(n, e.id) /\ OutboundOK'
  BY <1>2, <1>3, <1>6, DeleteType
<1>7. CASE RemoveEvent(n, e)
  <2>1. CASE UNCHANGED <<store, outbound>>
    BY <1>5, <2>1
  <2>2. CASE /\ Delete(n, e.id)
             /\ retired' = [retired EXCEPT ![n] = @ \cup {e.url}]
             /\ published' = [published EXCEPT ![n] = @ \ {[id |-> e.id, url |-> e.url]}]
    <3>1. OutboundOK'
      BY <1>2, <2>2 DEF OutboundOK
    <3> QED BY <1>6, <2>2, <3>1
  <2> QED BY <1>7, <2>1, <2>2 DEF RemoveEvent
<1>8. CASE PublishEvent(n, e)
  <2>1. CASE UNCHANGED <<store, outbound>>
    BY <1>5, <2>1
  <2>2. CASE /\ Delete(n, e.id)
             /\ published' = [published EXCEPT ![n] = @ \ {[id |-> e.id, url |-> e.url]}]
             /\ UNCHANGED retired
    <3>1. OutboundOK'
      BY <2>2 DEF OutboundOK
    <3> QED BY <1>6, <2>2, <3>1
  <2>3. ASSUME NEW u \in UrlOf(n, e.id),
               Put(n, e.id, StateOf(n, u, e.spec)),
               retired' = [retired EXCEPT ![n] = @ \ {u}],
               published' = [published EXCEPT ![n] = @ \cup {[id |-> e.id, url |-> u]}]
        PROVE  StoreOK' /\ OutboundOK'
    <3>1. u \in Url /\ reg[n][u] # NoWorker
      BY DEF UrlOf
    <3>2. StoreOK'
      BY <1>2, <2>3, <3>1, PublishedState, PutType
    <3>3. OutboundOK'
      BY <1>2, <2>3, <3>1 DEF OutboundOK
    <3> QED BY <3>2, <3>3
  <2> QED BY <1>3, <1>8, <2>1, <2>2, <2>3 DEF PublishEvent
<1> QED BY <1>4, <1>7, <1>8

(* Lag recovery.                                                           *)
LEMMA ResyncType ==
  ASSUME StoreOK, RegistryOK, OutboundOK, NEW n \in Node, ResyncLocal(n)
  PROVE  StoreOK' /\ RegistryOK' /\ OutboundOK'
<1> DEFINE
  current == {[id |-> reg[n][u].id, url |-> u] : u \in {v \in Url : IsLocal(n, v)}}
  stale   == published[n] \ current
  missing == {p \in current : kv[n][p.id].val # StateOf(n, p.url, reg[n][p.url].spec)}
  written == {p.id : p \in stale \cup missing}
  new     == [k \in written |->
               IF \E p \in missing : p.id = k
               THEN LET p == CHOOSE q \in missing : q.id = k
                    IN  StateOf(n, p.url, reg[n][p.url].spec)
               ELSE Tombstone]
<1>1. /\ Write(n, new)
      /\ retired' = [retired EXCEPT ![n] = @ \cup {p.url : p \in stale}]
      /\ published' = [published EXCEPT ![n] = current]
      /\ lagged' = [lagged EXCEPT ![n] = FALSE]
      /\ UNCHANGED <<reg, events>>
  BY DEF ResyncLocal
<1>2. \A p \in current : /\ p \in [id : Key, url : Url]
                         /\ StateOf(n, p.url, reg[n][p.url].spec) \in State
  <2> SUFFICES ASSUME NEW u \in Url, IsLocal(n, u)
               PROVE  /\ [id |-> reg[n][u].id, url |-> u] \in [id : Key, url : Url]
                      /\ StateOf(n, u, reg[n][u].spec) \in State
    OBVIOUS
  <2>1. reg[n][u] # NoWorker
    BY DEF IsLocal
  <2> QED BY <2>1, HeldWorker, PublishedState
<1>3. stale \subseteq [id : Key, url : Url]
  BY DEF OutboundOK
<1>4. DOMAIN new \subseteq Key
  BY <1>2, <1>3
<1>5. \A k \in DOMAIN new : new[k] \in Value
  <2> SUFFICES ASSUME NEW k \in written
               PROVE  new[k] \in Value
    OBVIOUS
  <2>1. CASE \E p \in missing : p.id = k
    <3> DEFINE p == CHOOSE q \in missing : q.id = k
    <3>1. p \in missing
      BY <2>1
    <3>2. StateOf(n, p.url, reg[n][p.url].spec) \in State
      BY <1>2, <3>1
    <3>3. new[k] = StateOf(n, p.url, reg[n][p.url].spec)
      BY <2>1
    <3> QED BY <3>2, <3>3 DEF Value
  <2>2. CASE ~\E p \in missing : p.id = k
    BY <2>2 DEF Value
  <2> QED BY <2>1, <2>2
<1>6. StoreOK'
  <2> HIDE DEF new
  <2> QED BY <1>1, <1>4, <1>5, WriteType
<1>7. RegistryOK'
  BY <1>1 DEF RegistryOK
<1>8. OutboundOK'
  <2>1. current \subseteq [id : Key, url : Url] /\ {p.url : p \in stale} \subseteq Url
    BY <1>2, <1>3
  <2> HIDE DEF current, stale
  <2> QED BY <1>1, <2>1 DEF OutboundOK
<1> QED BY <1>6, <1>7, <1>8

(* Initially every part is well-typed.                                     *)
LEMMA InitType == Init => TypeOK
<1> SUFFICES ASSUME Init PROVE TypeOK
  OBVIOUS
<1>1. \A k \in Key : Nothing(k) \in Op
  BY DEF Nothing, Op
<1>2. Empty \in [Key -> Op]
  BY <1>1 DEF Empty
<1>3. StoreOK
  BY <1>2, WorkerSyncAssumption DEF Init, StoreOK
<1>4. RegistryOK
  <2>1. << >> \in Seq(Event) /\ Len(<< >>) = 0
    OBVIOUS
  <2> QED BY <2>1, WorkerSyncAssumption DEF Init, RegistryOK
<1>5. OutboundOK
  BY DEF Init, OutboundOK
<1>6. RestOK
  <2>1. used \subseteq Key
    BY WorkerSyncAssumption DEF Init, Op
  <2> QED BY <2>1, WorkerSyncAssumption DEF Init, RestOK, Standing
<1> QED BY <1>3, <1>4, <1>5, <1>6, TypeParts

(* Every step keeps the parts well-typed.                                  *)
LEMMA NextType == TypeOK /\ [Next]_vars => TypeOK'
<1> SUFFICES ASSUME TypeOK, [Next]_vars PROVE StoreOK' /\ RegistryOK' /\ OutboundOK' /\ RestOK'
  BY DEF TypeOK, StoreOK, RegistryOK, OutboundOK, RestOK
<1>0. StoreOK /\ RegistryOK /\ OutboundOK /\ RestOK
  BY TypeParts
<1> USE <1>0
<1>1. CASE UNCHANGED vars
  BY <1>1 DEF vars, store, registry, outbound, bounds, StoreOK, RegistryOK, OutboundOK, RestOK
<1>2. ASSUME NEW n \in Node, NEW o \in issued, Learn(n, o)
      PROVE  StoreOK' /\ RegistryOK' /\ OutboundOK' /\ RestOK'
  <2>1. o \in Op /\ o.key \in Key /\ o.ts \in Nat
    BY DEF StoreOK, Op
  <2>2. StoreOK'
    <3>1. AtLeast(clock[n], o.ts) \in Nat
      BY <2>1 DEF AtLeast, StoreOK
    <3>2. kv' \in [Node -> [Key -> Op]]
      BY <1>2, <2>1 DEF Learn, StoreOK
    <3>3. clock' \in [Node -> Nat]
      BY <1>2, <3>1 DEF Learn, StoreOK
    <3> QED BY <1>2, <3>2, <3>3 DEF Learn, StoreOK
  <2> QED BY <1>2, <2>2 DEF Learn, registry, outbound, bounds, RegistryOK, OutboundOK, RestOK
<1>3. ASSUME NEW n \in Node, NEW u \in Url, NEW spec \in Offered, Register(n, u, spec)
      PROVE  StoreOK' /\ RegistryOK' /\ OutboundOK' /\ RestOK'
  <2>1. FreshId \in Key /\ spec \in Spec
    BY <1>3, WorkerSyncAssumption DEF Register, FreshId, RestOK
  <2> DEFINE w == [id |-> FreshId, local |-> TRUE, rev |-> 0, spec |-> spec, built |-> 0]
  <2>2. w \in Worker
    BY <2>1 DEF Worker
  <2>3. RegistryOK'
    <3>1. Install(n, u, w, "registered")
      BY <1>3 DEF Register
    <3> HIDE DEF w
    <3> QED BY <2>2, <3>1, InstallType
  <2>4. RestOK'
    BY <1>3, <2>1, WorkerSyncAssumption DEF Register, RestOK
  <2> QED BY <1>3, <2>3, <2>4 DEF Register, store, outbound, StoreOK, OutboundOK
<1>4. ASSUME NEW n \in Node, NEW u \in Url, NEW spec \in Offered, Replace(n, u, spec)
      PROVE  StoreOK' /\ RegistryOK' /\ OutboundOK' /\ RestOK'
  <2> DEFINE w == reg[n][u]
             rev == IF w.local THEN w.rev + 1 ELSE AtLeast(w.rev, w.built) + 1
             new == [id |-> w.id, local |-> TRUE, rev |-> rev, spec |-> spec, built |-> 0]
  <2>1. w.id \in Key /\ w.rev \in Nat /\ w.built \in Nat /\ spec \in Spec
    BY <1>4, HeldWorker, WorkerSyncAssumption DEF Replace
  <2>2. rev \in Nat
    BY <2>1 DEF AtLeast
  <2>3. new \in Worker
    BY <2>1, <2>2 DEF Worker
  <2>4. RegistryOK'
    <3>1. Install(n, u, new, "replaced")
      BY <1>4 DEF Replace
    <3> HIDE DEF new
    <3> QED BY <2>3, <3>1, InstallType
  <2>5. RestOK'
    BY <1>4, WorkerSyncAssumption DEF Replace, RestOK
  <2> QED BY <1>4, <2>4, <2>5 DEF Replace, store, outbound, StoreOK, OutboundOK
<1>5. ASSUME NEW n \in Node, NEW u \in Url, Remove(n, u)
      PROVE  StoreOK' /\ RegistryOK' /\ OutboundOK' /\ RestOK'
  <2>1. RegistryOK'
    BY <1>5, UninstallType DEF Remove
  <2>2. RestOK'
    BY <1>5, WorkerSyncAssumption DEF Remove, RestOK
  <2> QED BY <1>5, <2>1, <2>2 DEF Remove, store, outbound, StoreOK, OutboundOK
<1>6. ASSUME NEW n \in Node, Outbound(n)
      PROVE  StoreOK' /\ RegistryOK' /\ OutboundOK' /\ RestOK'
  BY <1>6, OutboundType DEF Outbound, bounds, RestOK
<1>7. ASSUME NEW n \in Node, ResyncLocal(n)
      PROVE  StoreOK' /\ RegistryOK' /\ OutboundOK' /\ RestOK'
  BY <1>7, ResyncType DEF ResyncLocal, bounds, RestOK
<1>8. ASSUME NEW n \in Node, NEW k \in Key, Reconcile(n, k)
      PROVE  StoreOK' /\ RegistryOK' /\ OutboundOK' /\ RestOK'
  <2>1. CASE SyncHeldKey(n, k)
    <3>1. StoreOK' /\ RegistryOK'
      BY <2>1, ApplyType DEF SyncHeldKey, Holds
    <3> QED BY <2>1, <3>1 DEF SyncHeldKey, outbound, bounds, OutboundOK, RestOK
  <2>2. CASE Reassert(n, k)
    <3>1. PICK u \in UrlOf(n, k) : Put(n, k, StateOf(n, u, reg[n][u].spec))
      BY <2>2 DEF Reassert
    <3>2. u \in Url /\ reg[n][u] # NoWorker
      BY DEF UrlOf
    <3>3. StateOf(n, u, reg[n][u].spec) \in State
      BY <3>2, HeldWorker, PublishedState
    <3>4. StoreOK'
      BY <3>1, <3>3, PutType
    <3> QED BY <2>2, <3>4
            DEF Reassert, registry, outbound, bounds, RegistryOK, OutboundOK, RestOK
  <2>3. CASE RemoveRemote(n, k)
    <3>1. PICK u \in UrlOf(n, k) : IsImport(n, u) /\ Uninstall(n, u)
      BY <2>3 DEF RemoveRemote
    <3>2. RegistryOK'
      BY <3>1, UninstallType DEF UrlOf
    <3> QED BY <2>3, <3>2 DEF RemoveRemote, store, outbound, bounds, StoreOK, OutboundOK, RestOK
  <2> QED BY <1>8, <2>1, <2>2, <2>3 DEF Reconcile
<1>9. ASSUME NEW n \in Node, Crash(n)
      PROVE  StoreOK' /\ RegistryOK' /\ OutboundOK' /\ RestOK'
  <2>1. Empty \in [Key -> Op]
    BY DEF Empty, Nothing, Op
  <2>2. StoreOK'
    BY <1>9, <2>1 DEF Crash, StoreOK
  <2>3. RegistryOK'
    <3>1. << >> \in Seq(Event) /\ Len(<< >>) = 0
      OBVIOUS
    <3>2. reg' \in [Node -> [Url -> Worker \cup {NoWorker}]]
      BY <1>9 DEF Crash, RegistryOK
    <3>3. events' \in [Node -> Seq(Event)] /\ \A m \in Node : Len(events'[m]) <= EventBuffer
      BY <1>9, <3>1, WorkerSyncAssumption DEF Crash, RegistryOK
    <3> QED BY <1>9, <3>2, <3>3 DEF Crash, RegistryOK
  <2>4. OutboundOK'
    BY <1>9 DEF Crash, OutboundOK
  <2>5. RestOK'
    BY <1>9, WorkerSyncAssumption DEF Crash, RestOK, Standing
  <2> QED BY <2>2, <2>3, <2>4, <2>5
<1>10. ASSUME NEW n \in Node, NEW m \in Node,
              SeeGone(n, m) \/ Suspect(n, m) \/ SeeLive(n, m) \/ GraceElapses(n, m)
       PROVE  StoreOK' /\ RegistryOK' /\ OutboundOK' /\ RestOK'
  <2>1. StoreOK' /\ RegistryOK' /\ OutboundOK'
    BY <1>10 DEF SeeGone, Suspect, SeeLive, GraceElapses, store, registry, outbound,
                 StoreOK, RegistryOK, OutboundOK
  <2>2. view' \in [Node -> [Node -> Standing]]
    BY <1>10 DEF SeeGone, Suspect, SeeLive, GraceElapses, RestOK, Standing
  <2> QED BY <1>10, <2>1, <2>2, WorkerSyncAssumption
          DEF SeeGone, Suspect, SeeLive, GraceElapses, bounds, RestOK
<1> QED BY <1>1, <1>2, <1>3, <1>4, <1>5, <1>6, <1>7, <1>8, <1>9, <1>10 DEF Next

(* Every state of the adapter and the registry has its type; with it, the  *)
(* event channel never holds more than its size.                           *)
THEOREM SyncTypeCorrect == Behaviour => []TypeOK
BY InitType, NextType, PTL DEF Behaviour

(* What no step but an operator's or a crash may do to local workers.      *)
KeepsLocals ==
  changes' = changes =>
    \A n \in Node, u \in Url :
      IsLocal(n, u) =>
        /\ IsLocal(n, u)'
        /\ reg'[n][u].id = reg[n][u].id
        /\ reg'[n][u].spec = reg[n][u].spec
        /\ reg'[n][u].rev >= reg[n][u].rev

(* A registry left alone keeps its local workers.                          *)
LEMMA IdleKeepsLocals ==
  ASSUME RegistryOK, UNCHANGED reg
  PROVE  KeepsLocals
<1> SUFFICES ASSUME NEW n \in Node, NEW u \in Url, IsLocal(n, u)
             PROVE  IsLocal(n, u)' /\ reg'[n][u] = reg[n][u] /\ reg[n][u].rev >= reg[n][u].rev
  BY DEF KeepsLocals
<1>1. reg[n][u].rev \in Nat
  BY HeldWorker DEF IsLocal
<1> QED BY <1>1 DEF IsLocal

(* Neither does a change at an endpoint without a local worker.            *)
LEMMA ElsewhereKeepsLocals ==
  ASSUME RegistryOK, NEW m \in Node, NEW v \in Url, NEW w,
         ~IsLocal(m, v), reg' = [reg EXCEPT ![m][v] = w]
  PROVE  KeepsLocals
<1> SUFFICES ASSUME NEW n \in Node, NEW u \in Url, IsLocal(n, u)
             PROVE  IsLocal(n, u)' /\ reg'[n][u] = reg[n][u] /\ reg[n][u].rev >= reg[n][u].rev
  BY DEF KeepsLocals
<1>1. reg[n][u].rev \in Nat
  BY HeldWorker DEF IsLocal
<1>2. reg'[n][u] = reg[n][u]
  BY DEF RegistryOK
<1> QED BY <1>1, <1>2 DEF IsLocal

(* An applied state keeps local workers: republish_above_own_key only      *)
(* raises a revision, everything else changes imports or vacant endpoints. *)
LEMMA ApplyKeepsLocals ==
  ASSUME RegistryOK, NEW n \in Node, NEW k \in Key, NEW state \in State,
         ApplyState(n, k, state)
  PROVE  KeepsLocals
<1>1. state.url \in Url /\ state.ver \in Nat
  BY DEF State
<1>2. CASE UNCHANGED reg
  BY <1>2, IdleKeepsLocals
<1>3. CASE RepublishAbove(n, k, state)
  <2>1. PICK v \in Outranked(n, k, state) : reg' = [reg EXCEPT ![n][v].rev = state.ver + 1]
    BY <1>3 DEF RepublishAbove
  <2>2. v \in Url /\ reg[n][v] # NoWorker /\ state.ver >= reg[n][v].rev
    BY <1>1, HeldWorker DEF Outranked, UrlOf
  <2>3. reg[n][v] \in Worker
    BY <2>2, HeldWorker
  <2> DEFINE w == [reg[n][v] EXCEPT !.rev = state.ver + 1]
  <2>4. /\ reg'[n][v] = w
        /\ \A m \in Node, u \in Url : m # n \/ u # v => reg'[m][u] = reg[m][u]
    BY <2>1, <2>2 DEF RegistryOK
  <2>5. /\ w.local = reg[n][v].local /\ w.id = reg[n][v].id /\ w.spec = reg[n][v].spec
        /\ w.rev = state.ver + 1 /\ w \in Worker /\ reg[n][v].rev \in Nat
    BY <1>1, <2>3 DEF Worker
  <2>6. w # NoWorker
    BY <2>5, WorkerSyncAssumption
  <2> HIDE DEF w
  <2> SUFFICES ASSUME NEW m \in Node, NEW u \in Url, IsLocal(m, u)
               PROVE  /\ IsLocal(m, u)'
                      /\ reg'[m][u].id = reg[m][u].id
                      /\ reg'[m][u].spec = reg[m][u].spec
                      /\ reg'[m][u].rev >= reg[m][u].rev
    BY DEF KeepsLocals
  <2>7. CASE m = n /\ u = v
    BY <1>1, <2>2, <2>4, <2>5, <2>6, <2>7 DEF IsLocal
  <2>8. CASE ~(m = n /\ u = v)
    <3>1. reg[m][u].rev \in Nat
      BY HeldWorker DEF IsLocal
    <3> QED BY <2>4, <2>8, <3>1 DEF IsLocal
  <2> QED BY <2>7, <2>8
<1>4. CASE DropImport(n, k, state.url)
  <2>1. CASE UNCHANGED registry
    BY <1>2, <2>1 DEF registry
  <2>2. CASE IsImport(n, state.url) /\ Uninstall(n, state.url)
    BY <1>1, <2>2, ElsewhereKeepsLocals DEF Uninstall, IsImport, IsLocal
  <2> QED BY <1>4, <2>1, <2>2 DEF DropImport
<1>5. CASE OnRemoteWorkerState(n, k, state)
  <2>1. CASE UNCHANGED registry
    BY <1>2, <2>1 DEF registry
  <2>2. ASSUME NEW w, NEW kind, ~IsLocal(n, state.url), Install(n, state.url, w, kind)
        PROVE  KeepsLocals
    BY <1>1, <2>2, ElsewhereKeepsLocals DEF Install
  <2> QED BY <1>5, <2>1, <2>2 DEF OnRemoteWorkerState, IsImport, IsLocal
<1> QED BY <1>2, <1>3, <1>4, <1>5 DEF ApplyState, registry

(* Every step keeps them, or is an operator's or a crash.                  *)
LEMMA NextKeepsLocals == TypeOK /\ [Next]_vars => [KeepsLocals]_vars
<1> SUFFICES ASSUME TypeOK, [Next]_vars, ~UNCHANGED vars PROVE KeepsLocals
  OBVIOUS
<1>0. StoreOK /\ RegistryOK /\ changes \in Nat
  BY TypeParts, WorkerSyncAssumption DEF RestOK
<1>1. CASE UNCHANGED reg
  BY <1>0, <1>1, IdleKeepsLocals
<1>2. CASE changes' = changes + 1
  BY <1>0, <1>2 DEF KeepsLocals
<1>3. ASSUME NEW n \in Node, NEW k \in Key, Reconcile(n, k)
      PROVE  KeepsLocals
  <2>1. CASE SyncHeldKey(n, k)
    BY <1>0, <2>1, ApplyKeepsLocals DEF SyncHeldKey, Holds
  <2>2. CASE RemoveRemote(n, k)
    <3>1. PICK u \in Url : IsImport(n, u) /\ Uninstall(n, u)
      BY <2>2 DEF RemoveRemote, UrlOf
    <3> QED BY <1>0, <3>1, ElsewhereKeepsLocals DEF Uninstall, IsImport, IsLocal
  <2> QED BY <1>1, <1>3, <2>1, <2>2 DEF Reconcile, Reassert, registry
<1>4. CASE \E n \in Node, o \in issued : Learn(n, o)
  BY <1>1, <1>4 DEF Learn, registry
<1>5. CASE \E n \in Node : Outbound(n) \/ ResyncLocal(n)
  BY <1>1, <1>5 DEF Outbound, ResyncLocal
<1>6. CASE \E n \in Node, u \in Url, spec \in Offered : Register(n, u, spec) \/ Replace(n, u, spec)
  BY <1>2, <1>6 DEF Register, Replace
<1>7. CASE \E n \in Node : Crash(n) \/ \E u \in Url : Remove(n, u)
  BY <1>2, <1>7 DEF Crash, Remove
<1>8. CASE \E n, m \in Node :
             SeeGone(n, m) \/ Suspect(n, m) \/ SeeLive(n, m) \/ GraceElapses(n, m)
  BY <1>1, <1>8 DEF SeeGone, Suspect, SeeLive, GraceElapses, registry
<1> QED BY <1>3, <1>4, <1>5, <1>6, <1>7, <1>8 DEF Next

(* No state, tombstone or membership news from the mesh removes a locally  *)
(* registered worker, changes its id or specification or lowers its        *)
(* revision.                                                               *)
THEOREM LocalsAreOwn == Behaviour => LocalWorkersStand
<1>1. Behaviour => [][KeepsLocals]_vars
  BY SyncTypeCorrect, NextKeepsLocals, PTL DEF Behaviour
<1> QED BY <1>1 DEF LocalWorkersStand, KeepsLocals
===============================================================================
