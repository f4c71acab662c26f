------------------------------ MODULE WorkerSync ------------------------------
(***************************************************************************)
(* The worker: adapter of the mesh on each gateway: locally registered     *)
(* workers are published under their id, keys of other gateways become     *)
(* imports in the worker registry.                                         *)
(*                                                                         *)
(* The store is the one MeshRegister describes: a node learns any          *)
(* operation ever issued, at any time, and keeps the newest of a key.      *)
(* Registry calls hold the worker's lock and are one step, and so is one   *)
(* run of a handler over one key.  The outbound loop follows the registry  *)
(* through a bounded broadcast channel, so it sees events late or not at   *)
(* all.                                                                    *)
(*                                                                         *)
(* Left out: health and load, host-local (ZMQ) workers, id reservations,   *)
(* provider instance ids (a removed endpoint is held back whatever the     *)
(* instance) and states without an owner or a usable spec.                 *)
(***************************************************************************)
EXTENDS Naturals, Sequences

CONSTANTS
  Key,          \* worker ids
  Node,
  Url,
  Spec,         \* worker specifications
  Offered,      \* the ones operators register now
  Tombstone,
  Absent,
  NoWorker,
  EarlierOps,   \* what earlier lives of the nodes have published
  ReplicaOf,    \* the replica id of each node's process
  EventBuffer,  \* events the broadcast channel holds
  MaxChanges    \* bound: registrations and removals by operators, and crashes

State == [owner : Node, url : Url, ver : Nat, spec : Spec]

Value == State \cup {Tombstone}

INSTANCE Versions

(* A registered worker.  built is the version an import was built from.    *)
Worker == [id : Key, local : BOOLEAN, rev : Nat, spec : Spec, built : Nat]

Event == [kind : {"registered", "replaced", "removed"}, id : Key, spec : Spec, url : Url]

ASSUME WorkerSyncAssumption ==
  /\ Tombstone \notin State
  /\ Absent \notin Value
  /\ NoWorker \notin Worker
  /\ Offered \subseteq Spec
  /\ EarlierOps \subseteq Op
  /\ ReplicaOf \in [Node -> Nat \ {0}]
  /\ \A o \in EarlierOps, n \in Node : o.rep # ReplicaOf[n]
  /\ EventBuffer \in Nat \ {0}
  /\ MaxChanges \in Nat

VARIABLES
  kv,        \* each node's replica of the worker: keys
  clock,     \* the store's Lamport clock
  issued,    \* history: operations issued
  reg,       \* the worker registry, by endpoint
  events,    \* registry events the outbound loop has not received
  lagged,    \* it has missed some
  published, \* workers it has published, with their endpoints
  retired,   \* endpoints removed here and held back
  view,      \* how each node sees each other: see Standing
  up,
  used,      \* worker ids in use now or before
  changes

registry == <<reg, events, lagged>>
outbound == <<published, retired>>
store    == <<kv, clock, issued>>
bounds   == <<used, changes>>
vars     == <<store, registry, outbound, view, up, bounds>>

(* Live; shown Down or Leaving; seen so for DEAD_OWNER_GRACE.              *)
Standing == {"live", "gone", "dead"}

TypeOK ==
  /\ kv \in [Node -> [Key -> Op]]
  /\ clock \in [Node -> Nat]
  /\ issued \subseteq Op
  /\ reg \in [Node -> [Url -> Worker \cup {NoWorker}]]
  /\ events \in [Node -> Seq(Event)]
  /\ \A n \in Node : Len(events[n]) <= EventBuffer
  /\ lagged \in [Node -> BOOLEAN]
  /\ published \in [Node -> SUBSET [id : Key, url : Url]]
  /\ retired \in [Node -> SUBSET Url]
  /\ view \in [Node -> [Node -> Standing]]
  /\ up \subseteq Node
  /\ used \subseteq Key
  /\ changes \in 0 .. MaxChanges

Init ==
  /\ kv = [n \in Node |-> Empty]
  /\ clock = [n \in Node |-> 0]
  /\ issued = EarlierOps
  /\ reg = [n \in Node |-> [u \in Url |-> NoWorker]]
  /\ events = [n \in Node |-> << >>]
  /\ lagged = [n \in Node |-> FALSE]
  /\ published = [n \in Node |-> {}]
  /\ retired = [n \in Node |-> {}]
  /\ view = [n \in Node |-> [m \in Node |-> "live"]]
  /\ up = Node
  /\ used = {o.key : o \in EarlierOps}
  /\ changes = 0

-------------------------------------------------------------------------------
(* The store.                                                              *)

Holds(n, k) == kv[n][k].val \in State

AtLeast(a, b) == IF a > b THEN a ELSE b

(* put and delete of some keys, past every operation the node has seen.    *)
Write(n, new) ==
  LET stamped(k) ==
        [key |-> k, ts |-> clock[n] + 1, rep |-> ReplicaOf[n], val |-> new[k]]
  IN  /\ kv' = [kv EXCEPT ![n] =
                  [k \in Key |-> IF k \in DOMAIN new THEN stamped(k) ELSE @[k]]]
      /\ clock' = [clock EXCEPT ![n] = IF DOMAIN new = {} THEN @ ELSE @ + 1]
      /\ issued' = issued \cup {stamped(k) : k \in DOMAIN new}

Put(n, k, state) == Write(n, [j \in {k} |-> state])
Delete(n, k)     == Write(n, [j \in {k} |-> Tombstone])

(* apply_remote_ops: an operation arrives, from another node's round or    *)
(* late from a node that is gone, and the clock passes it.  An operation   *)
(* that loses only moves the clock on, and is left out.                    *)
Learn(n, o) ==
  /\ n \in up
  /\ Newer(o, kv[n][o.key])
  /\ kv' = [kv EXCEPT ![n][o.key] = o]
  /\ clock' = [clock EXCEPT ![n] = AtLeast(@, o.ts) + 1]
  /\ UNCHANGED <<issued, registry, outbound, view, up, bounds>>

-------------------------------------------------------------------------------
(* The registry.                                                           *)

IsLocal(n, u) == reg[n][u] # NoWorker /\ reg[n][u].local
IsImport(n, u) == reg[n][u] # NoWorker /\ ~reg[n][u].local

(* The endpoint of the worker registered under id k, if any: a set.        *)
UrlOf(n, k) == {u \in Url : reg[n][u] # NoWorker /\ reg[n][u].id = k}

(* is_publishable.                                                         *)
IsPublishable(n, k) == \E u \in UrlOf(n, k) : reg[n][u].local

(* Mutant: a channel without a bound.                                      *)
EmitUnbounded(n, kind, k, spec, u) ==
  /\ events' = [events EXCEPT ![n] =
       Append(@, [kind |-> kind, id |-> k, spec |-> spec, url |-> u])]
  /\ UNCHANGED lagged

(* event_tx.send: a full channel loses its oldest event.                   *)
Emit(n, kind, k, spec, u) ==
  LET all == Append(events[n], [kind |-> kind, id |-> k, spec |-> spec, url |-> u])
  IN  /\ events' = [events EXCEPT ![n] = IF Len(all) > EventBuffer THEN Tail(all) ELSE all]
      /\ lagged' = [lagged EXCEPT ![n] = @ \/ Len(all) > EventBuffer]

Install(n, u, w, kind) ==
  /\ reg' = [reg EXCEPT ![n][u] = w]
  /\ Emit(n, kind, w.id, w.spec, u)

Uninstall(n, u) ==
  /\ reg' = [reg EXCEPT ![n][u] = NoWorker]
  /\ Emit(n, "removed", reg[n][u].id, reg[n][u].spec, u)

(* register.  Ids are random: which unused one is drawn does not matter.   *)
FreshId == CHOOSE k \in Key : k \notin used

Register(n, u, spec) ==
  /\ n \in up /\ changes < MaxChanges
  /\ reg[n][u] = NoWorker
  /\ used # Key
  /\ Install(n, u, [id |-> FreshId, local |-> TRUE, rev |-> 0, spec |-> spec, built |-> 0],
             "registered")
  /\ used' = used \cup {FreshId}
  /\ changes' = changes + 1
  /\ UNCHANGED <<store, outbound, view, up>>

(* register_or_replace at an endpoint that has a worker: the registration  *)
(* claims an import, at a revision past the version it was built from.     *)
Replace(n, u, spec) ==
  /\ n \in up /\ changes < MaxChanges
  /\ reg[n][u] # NoWorker
  /\ LET w == reg[n][u]
         rev == IF w.local THEN w.rev + 1 ELSE AtLeast(w.rev, w.built) + 1
     IN  Install(n, u, [id |-> w.id, local |-> TRUE, rev |-> rev, spec |-> spec,
                        built |-> 0], "replaced")
  /\ changes' = changes + 1
  /\ UNCHANGED <<store, outbound, view, up, used>>

(* remove.                                                                 *)
Remove(n, u) ==
  /\ n \in up /\ changes < MaxChanges
  /\ reg[n][u] # NoWorker
  /\ Uninstall(n, u)
  /\ changes' = changes + 1
  /\ UNCHANGED <<store, outbound, view, up, used>>

-------------------------------------------------------------------------------
(* The outbound loop.                                                      *)

StateOf(n, u, spec) == [owner |-> n, url |-> u, ver |-> reg[n][u].rev, spec |-> spec]

(* A registered or replaced worker: published with the specification of    *)
(* the event and the revision of the moment, if it is still local.         *)
PublishEvent(n, e) ==
  IF IsPublishable(n, e.id)
  THEN \E u \in UrlOf(n, e.id) :
         /\ reg[n][u].local
         /\ Put(n, e.id, StateOf(n, u, e.spec))
         /\ retired' = [retired EXCEPT ![n] = @ \ {u}]
         /\ published' = [published EXCEPT ![n] = @ \cup {[id |-> e.id, url |-> u]}]
  ELSE IF e.kind = "replaced" /\ [id |-> e.id, url |-> e.url] \in published[n]
  THEN /\ Delete(n, e.id)
       /\ published' = [published EXCEPT ![n] = @ \ {[id |-> e.id, url |-> e.url]}]
       /\ UNCHANGED retired
  ELSE UNCHANGED <<store, outbound>>

RemoveEvent(n, e) ==
  IF [id |-> e.id, url |-> e.url] \in published[n]
  THEN /\ Delete(n, e.id)
       /\ retired' = [retired EXCEPT ![n] = @ \cup {e.url}]
       /\ published' = [published EXCEPT ![n] = @ \ {[id |-> e.id, url |-> e.url]}]
  ELSE UNCHANGED <<store, outbound>>

(* run_outbound, one event.                                                *)
Outbound(n) ==
  /\ n \in up
  /\ ~lagged[n]
  /\ events[n] # << >>
  /\ LET e == Head(events[n])
     IN  IF e.kind = "removed" THEN RemoveEvent(n, e) ELSE PublishEvent(n, e)
  /\ events' = [events EXCEPT ![n] = Tail(@)]
  /\ UNCHANGED <<reg, lagged, view, up, bounds>>

(* resync_local, after a lag: local workers whose state is not in the      *)
(* store are published, published workers that are gone are tombstoned.    *)
ResyncLocal(n) ==
  LET current == {[id |-> reg[n][u].id, url |-> u] : u \in {v \in Url : IsLocal(n, v)}}
      stale   == published[n] \ current
      missing == {p \in current : kv[n][p.id].val # StateOf(n, p.url, reg[n][p.url].spec)}
      written == {p.id : p \in stale \cup missing}
  IN  /\ n \in up
      /\ lagged[n]
      /\ lagged' = [lagged EXCEPT ![n] = FALSE]
      /\ Write(n, [k \in written |->
                     IF \E p \in missing : p.id = k
                     THEN LET p == CHOOSE q \in missing : q.id = k
                          IN  StateOf(n, p.url, reg[n][p.url].spec)
                     ELSE Tombstone])
      /\ retired' = [retired EXCEPT ![n] = @ \cup {p.url : p \in stale}]
      /\ published' = [published EXCEPT ![n] = current]
      /\ UNCHANGED <<reg, events, view, up, bounds>>

-------------------------------------------------------------------------------
(* The inbound side: what one key's state means for the registry.          *)

(* A key of an earlier life, whose endpoint is registered under another id.*)
IsOwnOrphan(n, k, state) ==
  /\ state.owner = n
  /\ UrlOf(n, k) = {}
  /\ IsLocal(n, state.url)

(* Mutant: the earlier life's publication at the very version of the claim *)
(* is taken for an echo.                                                   *)
OutrankedByVersion(n, k, state) ==
  {u \in UrlOf(n, k) :
     state.owner = n /\ reg[n][u].local /\ state.ver > reg[n][u].rev}

(* republish_above_own_key: a key of this node's name outranks the local   *)
(* worker that holds its id.                                               *)
Outranked(n, k, state) ==
  {u \in UrlOf(n, k) :
     /\ state.owner = n
     /\ reg[n][u].local
     /\ \/ state.ver > reg[n][u].rev
        \/ state.ver = reg[n][u].rev /\ (state.spec # reg[n][u].spec \/ state.url # u)}

RepublishAbove(n, k, state) ==
  /\ \E u \in Outranked(n, k, state) :
       /\ reg' = [reg EXCEPT ![n][u].rev = state.ver + 1]
       /\ Put(n, k, [owner |-> n, url |-> u, ver |-> state.ver + 1, spec |-> reg[n][u].spec])
  /\ UNCHANGED <<events, lagged>>

(* Mutant: keys of nodes that are gone for good stay imported.             *)
NeverDead(n, m) == FALSE

IsDead(n, m) == m # n /\ view[n][m] = "dead"
IsGone(n, m) == m # n /\ view[n][m] # "live"

(* drop_dead_owner_import, drop_held_back_import: the import the key made. *)
DropImport(n, k, u) ==
  /\ IF IsImport(n, u) /\ reg[n][u].id = k
     THEN Uninstall(n, u) ELSE UNCHANGED registry
  /\ UNCHANGED store

(* Mutant: an import is made once, and a replacement is not followed.      *)
ImportOnce(n, k, state) ==
  /\ IF reg[n][state.url] = NoWorker /\ UrlOf(n, k) = {}
     THEN Install(n, state.url, [id |-> k, local |-> FALSE, rev |-> 0, spec |-> state.spec,
                                 built |-> state.ver], "registered")
     ELSE UNCHANGED registry
  /\ UNCHANGED store

(* on_remote_worker_state: a new import, or a newer publication of the key *)
(* an import was built from.                                               *)
OnRemoteWorkerState(n, k, state) ==
  LET u == state.url
      w == reg[n][u]
  IN  /\ IF w = NoWorker /\ UrlOf(n, k) = {}
         THEN Install(n, u, [id |-> k, local |-> FALSE, rev |-> 0, spec |-> state.spec,
                             built |-> state.ver], "registered")
         ELSE IF IsImport(n, u) /\ w.id = k /\ state.ver > w.built
         THEN Install(n, u, [w EXCEPT !.rev = @ + 1, !.spec = state.spec,
                                      !.built = state.ver], "replaced")
         ELSE UNCHANGED registry
      /\ UNCHANGED store

ApplyState(n, k, state) ==
  IF IsOwnOrphan(n, k, state) THEN Delete(n, k) /\ UNCHANGED registry
  ELSE IF Outranked(n, k, state) # {} THEN RepublishAbove(n, k, state)
  ELSE IF IsDead(n, state.owner) THEN DropImport(n, k, state.url)
  ELSE IF IsGone(n, state.owner) THEN UNCHANGED <<store, registry>>
  ELSE IF state.url \in retired[n] THEN DropImport(n, k, state.url)
  ELSE OnRemoteWorkerState(n, k, state)

(* sync_key_from_store, of a key with a state.                             *)
SyncHeldKey(n, k) ==
  /\ n \in up
  /\ Holds(n, k)
  /\ ApplyState(n, k, kv[n][k].val)
  /\ UNCHANGED <<outbound, view, up, bounds>>

(* Mutant: a tombstone of another node's writing is left to stand.         *)
ReassertAbsent(n, k) ==
  /\ n \in up
  /\ kv[n][k].val = Absent
  /\ \E u \in UrlOf(n, k) : reg[n][u].local /\ Put(n, k, StateOf(n, u, reg[n][u].spec))
  /\ UNCHANGED <<registry, outbound, view, up, bounds>>

(* sync_key_from_store, of a key without one whose worker is local: it is  *)
(* published again.                                                        *)
Reassert(n, k) ==
  /\ n \in up
  /\ ~Holds(n, k)
  /\ \E u \in UrlOf(n, k) : reg[n][u].local /\ Put(n, k, StateOf(n, u, reg[n][u].spec))
  /\ UNCHANGED <<registry, outbound, view, up, bounds>>

(* Mutant: remove where remove_remote belongs.                             *)
RemoveAny(n, k) ==
  /\ n \in up
  /\ ~Holds(n, k)
  /\ \E u \in UrlOf(n, k) : Uninstall(n, u)
  /\ UNCHANGED <<store, outbound, view, up, bounds>>

(* sync_key_from_store, of a key without one: its import is removed.  What *)
(* reimport_endpoint then does is SyncHeldKey of the endpoint's other keys.*)
RemoveRemote(n, k) ==
  /\ n \in up
  /\ ~Holds(n, k)
  /\ \E u \in UrlOf(n, k) : IsImport(n, u) /\ Uninstall(n, u)
  /\ UNCHANGED <<store, outbound, view, up, bounds>>

-------------------------------------------------------------------------------
(* Membership, as the adapter sees it, and crashes.                        *)

(* connect_to_peer: two rounds of probes, direct and relayed, have failed. *)
(* A node that is gone is shown Down in the end; one that is there may be, *)
(* and record_in_table takes its next answer.                              *)
SeeGone(n, m) ==
  /\ n \in up /\ m \notin up
  /\ view[n][m] = "live"
  /\ view' = [view EXCEPT ![n][m] = "gone"]
  /\ UNCHANGED <<store, registry, outbound, up, bounds>>

Suspect(n, m) ==
  /\ n \in up /\ m \in up \ {n} /\ changes < MaxChanges
  /\ view[n][m] = "live"
  /\ view' = [view EXCEPT ![n][m] = "gone"]
  /\ changes' = changes + 1
  /\ UNCHANGED <<store, registry, outbound, up, used>>


SeeLive(n, m) ==
  /\ n \in up /\ m \in up
  /\ view[n][m] # "live"
  /\ view' = [view EXCEPT ![n][m] = "live"]
  /\ UNCHANGED <<store, registry, outbound, up, bounds>>

(* A pass has noted the time (refresh_membership), and the grace is over.  *)
GraceElapses(n, m) ==
  /\ n \in up
  /\ view[n][m] = "gone"
  /\ view' = [view EXCEPT ![n][m] = "dead"]
  /\ UNCHANGED <<store, registry, outbound, up, bounds>>

(* The process ends; nothing of it is kept.                                *)
Crash(n) ==
  /\ n \in up
  /\ changes < MaxChanges
  /\ changes' = changes + 1
  /\ up' = up \ {n}
  /\ kv' = [kv EXCEPT ![n] = Empty]
  /\ clock' = [clock EXCEPT ![n] = 0]
  /\ reg' = [reg EXCEPT ![n] = [u \in Url |-> NoWorker]]
  /\ events' = [events EXCEPT ![n] = << >>]
  /\ lagged' = [lagged EXCEPT ![n] = FALSE]
  /\ published' = [published EXCEPT ![n] = {}]
  /\ retired' = [retired EXCEPT ![n] = {}]
  /\ view' = [view EXCEPT ![n] = [m \in Node |-> "live"]]
  /\ UNCHANGED <<issued, used>>

-------------------------------------------------------------------------------

(* A reconcile pass, one key at a time.                                    *)
Reconcile(n, k) == SyncHeldKey(n, k) \/ Reassert(n, k) \/ RemoveRemote(n, k)

Next ==
  \/ \E n \in Node :
       \/ \E o \in issued : Learn(n, o)
       \/ \E u \in Url, spec \in Offered : Register(n, u, spec)
       \/ \E u \in Url, spec \in Offered : Replace(n, u, spec)
       \/ \E u \in Url : Remove(n, u)
       \/ Outbound(n)
       \/ ResyncLocal(n)
       \/ \E k \in Key : Reconcile(n, k)
       \/ Crash(n)
  \/ \E n, m \in Node :
       \/ SeeGone(n, m)
       \/ Suspect(n, m)
       \/ SeeLive(n, m)
       \/ GraceElapses(n, m)

Behaviour == Init /\ [][Next]_vars

(* What the gateways do of themselves: gossip delivers what a live node    *)
(* holds, the loops and the reconcile pass run, membership tells the truth *)
(* in the end.  It is enough that one of them goes on while any can.       *)
Gossip(m, n, k) == m \in up /\ Learn(n, kv[m][k])

Runs ==
  \/ \E n \in Node :
       \/ Outbound(n)
       \/ ResyncLocal(n)
       \/ \E k \in Key : Reconcile(n, k)
  \/ \E n, m \in Node :
       \/ \E k \in Key : Gossip(m, n, k)
       \/ SeeGone(n, m)
       \/ SeeLive(n, m)
       \/ GraceElapses(n, m)

FairBehaviour == Behaviour /\ WF_vars(Runs)

-------------------------------------------------------------------------------

(* What arrives from the mesh never takes a locally registered worker      *)
(* away, never changes its id or specification and never lowers its        *)
(* revision: of all steps only operators' and crashes may                  *)
(* (remove_remote, on_remote_worker_state, republish_above_own_key).       *)
LocalWorkersStand ==
  [][changes' = changes =>
       \A n \in Node, u \in Url :
         IsLocal(n, u) =>
           /\ IsLocal(n, u)'
           /\ reg'[n][u].id = reg[n][u].id
           /\ reg'[n][u].spec = reg[n][u].spec
           /\ reg'[n][u].rev >= reg[n][u].rev]_vars

(* A publication of a key that peers can follow: whatever they held of the *)
(* key before has a lower version, or is the same specification.  The code *)
(* does not always write one: see ReplacementsAreVersioned, and a claim by *)
(* a node that has not heard its earlier life's last publication.          *)
IsFollowed(o) ==
  \A p \in issued :
    p.key = o.key /\ p.val \in State /\ Newer(o, p) =>
      \/ p.val.ver < o.val.ver
      \/ p.val.ver = o.val.ver /\ p.val.spec = o.val.spec

(* Once nothing more happens to the gateways, every import is backed by    *)
(* the key it was made from, held by the node's store, of an owner that is *)
(* there, for an endpoint not held back, and has the version and the       *)
(* specification of that key's newest publication, provided the versions   *)
(* let a peer follow it: lost events, tombstones, replacements and dead    *)
(* owners are all caught up with by the reconcile pass                     *)
(* (on_remote_worker_state, sync_key_from_store).                          *)
ImportsAreBacked ==
  <>[](\A n \in up, u \in Url :
         IsImport(n, u) =>
           LET w == reg[n][u]
               o == kv[n][w.id]
           IN  /\ o.val \in State
               /\ o.val.owner \in up
               /\ u \notin retired[n]
               /\ IsFollowed(o) => w.built = o.val.ver /\ w.spec = o.val.spec)


(* Once nothing more happens, the key of every locally registered worker   *)
(* holds a state and not a tombstone, whoever wrote the tombstone, and no  *)
(* publication of another life of this node stands in it at or above the   *)
(* worker's revision, where peers would keep its specification: the        *)
(* foreign-tombstone branch of sync_key_from_store, resync_local and       *)
(* republish_above_own_key.                                                *)
LocalWorkersArePublished ==
  <>[](\A n \in up, u \in Url :
         IsLocal(n, u) =>
           LET w == reg[n][u]
               state == kv[n][w.id].val
           IN  /\ state \in State
               /\ state.owner = n /\ state.ver >= w.rev =>
                    state.ver = w.rev /\ state.spec = w.spec /\ state.url = u)

(* "publishes the replacement under the same key with a higher version"    *)
(* (on_remote_worker_state): two specifications of a worker published by   *)
(* one process have different versions, so that peers tell them apart.     *)
ReplacementsAreVersioned ==
  \A o, p \in issued :
    /\ o.key = p.key /\ o.rep = p.rep
    /\ o.val \in State /\ p.val \in State
    /\ o.val.ver = p.val.ver
    => o.val.spec = p.val.spec
===============================================================================
