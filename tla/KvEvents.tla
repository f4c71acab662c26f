------------------------------- MODULE KvEvents -------------------------------
(***************************************************************************)
(* KV-cache events from an engine to the gateway's index.  The engine      *)
(* numbers its batches and publishes them on a socket that loses some; the *)
(* relay beside it records what it hears, fills gaps from the engine's     *)
(* replay and serves a subscriber from its window or by a snapshot; the    *)
(* gateway follows one stream and subscribes again where it broke.         *)
(*                                                                         *)
(* One rank.  The blocks a record or an index holds follow from the        *)
(* batches applied since the last clear, so those batches stand for them.  *)
(* What a stream has in flight when it breaks is lost to both ends alike,  *)
(* so a batch is sent and admitted in one step.                            *)
(*                                                                         *)
(* Left out: the content of batches, load records, undecodable payloads,   *)
(* time limits and back-off, the byte limit of the history, the degraded   *)
(* flag with the count of unknown batches (they feed a gauge), several     *)
(* ranks, publishers that count from 1 (their window is never complete     *)
(* from the start, so a first subscription gets a snapshot), a restart of  *)
(* the relay or of the gateway.                                            *)
(***************************************************************************)
EXTENDS Integers, Sequences

CONSTANTS
  HistorySize,    \* max_batches of the relay's history
  BufferSteps,    \* batches the engine keeps for its replay
  LiveChannel,    \* LIVE_CHANNEL
  SocketSize,     \* batches the socket holds
  MaxChunks,      \* bound: chunks of a snapshot
  RestartWindow,  \* RESTART_WINDOW
  GapThreshold,   \* GAP_CLEAR_THRESHOLD
  Publishes,      \* bound: batches of each engine process, one after another
  ClearsAt,       \* bound: sequences at which an engine may clear its cache
  MaxBreaks       \* bound: streams that break

ASSUME KvEventsAssumption ==
  /\ {HistorySize, LiveChannel, SocketSize, MaxChunks} \subseteq Nat \ {0}
  /\ {BufferSteps, RestartWindow, GapThreshold, MaxBreaks} \subseteq Nat
  /\ ClearsAt \subseteq Nat
  /\ Publishes # << >> /\ Publishes \in Seq(Nat)

VARIABLES
  life,    \* the engine's process
  log,     \* the batches it has published
  socket,  \* batches on their way to the relay
  rec,     \* the relay's record of the rank
  job,     \* where the relay's publisher task is
  prime,   \* done: primed; again: prime_request
  sub,     \* the relay's side of the gateway's stream
  gw,      \* the gateway's cursor and index
  breaks

engine == <<life, log, socket>>
relay  == <<rec, job, prime>>
vars   == <<engine, relay, sub, gw, breaks>>

None == -1

(* life and gen are history: which process made the batch, and in which    *)
(* incarnation the relay recorded it.                                      *)
Batch == [seq : Nat, op : {"blocks", "clear"}, life : DOMAIN Publishes, gen : Nat]

(* Blocks after one more batch, as the batches since the last clear:       *)
(* LiveState.apply at the relay, apply_event at the gateway.               *)
Apply(blocks, b) == IF b.op = "clear" THEN <<b>> ELSE Append(blocks, b)

-------------------------------------------------------------------------------
(* The engine (external).                                                  *)

Publish ==
  /\ Len(log) < Publishes[life]
  /\ \E b \in [seq : {Len(log)}, op : {"blocks", "clear"}, life : {life}, gen : {0}] :
       /\ b.op = "clear" => b.seq \in ClearsAt
       /\ log' = Append(log, b)
       /\ \/ Len(socket) < SocketSize /\ socket' = Append(socket, b)
          \/ UNCHANGED socket
  /\ UNCHANGED <<life, relay, sub, gw, breaks>>

(* A process ends and another begins; what the socket holds still arrives. *)
EngineRestart ==
  /\ life < Len(Publishes)
  /\ life' = life + 1
  /\ log' = << >>
  /\ UNCHANGED <<socket, relay, sub, gw, breaks>>

(* What the replay may give from a sequence on: what the engine still      *)
(* keeps, or the part of it that came in time.                             *)
Buffered(from) ==
  LET oldest == IF from > Len(log) - BufferSteps THEN from ELSE Len(log) - BufferSteps
  IN  {{log[i] : i \in oldest + 1 .. last} : last \in 0 .. Len(log)}

(* The batch that comes first in the order of sequences.                   *)
IsFirst(b, batches) == b \in batches /\ \A c \in batches : b.seq <= c.seq

-------------------------------------------------------------------------------
(* The relay's record.  The window covers the sequences from first up to,  *)
(* not including, next; one without a batch is a hole.  blocks is the      *)
(* LiveState; lost is history, the sequences passed without a batch since  *)
(* the last clear.                                                         *)

Window == [first : Nat, next : Nat, batches : SUBSET Batch]

EmptyWindow == [first |-> 0, next |-> 0, batches |-> {}]

IsEmpty(w) == w.first = w.next

Evict(w) ==
  LET first == IF w.next - w.first > HistorySize THEN w.next - HistorySize ELSE w.first
  IN  [first |-> first, next |-> w.next, batches |-> {b \in w.batches : b.seq >= first}]

(* Sequences that do not follow the window are ignored.                    *)
Push(w, from, to, batches) ==
  IF ~IsEmpty(w) /\ from # w.next THEN w
  ELSE Evict([first |-> IF IsEmpty(w) THEN from ELSE w.first, next |-> to + 1,
              batches |-> w.batches \cup batches])

CompleteFromStart(w) ==
  ~IsEmpty(w) /\ w.first = 0 /\ \A q \in 0 .. w.next - 1 : \E b \in w.batches : b.seq = q

Serves(w, cursor) == ~IsEmpty(w) /\ cursor < w.next /\ cursor + 1 >= w.first

After(w, cursor) == {b \in w.batches : b.seq > cursor}

(* relay, the part under the lock.                                         *)
Record(r, m) ==
  LET b == [m EXCEPT !.gen = r.gen]
  IN  [r EXCEPT !.cursor = b.seq,
                !.window = Push(@, b.seq, b.seq, {b}),
                !.blocks = Apply(@, b),
                !.lost   = CASE b.op = "clear"  -> {}
                             [] b.op # "clear" /\ r.cursor = None -> 0 .. b.seq - 1
                             [] OTHER           -> @]

(* Mutant: the cursor stays before the hole.                               *)
LoseBehindCursor(r, from, to) ==
  [r EXCEPT !.window = Push(@, from, to, {}), !.lost = @ \cup from .. to]

Lose(r, from, to) ==
  [r EXCEPT !.cursor = to, !.window = Push(@, from, to, {}), !.lost = @ \cup from .. to]

RankRecord ==
  [cursor : Nat \cup {None}, window : Window, blocks : Seq(Batch), lost : SUBSET Nat, gen : Nat]

NewRecord(gen) ==
  [cursor |-> None, window |-> EmptyWindow, blocks |-> << >>, lost |-> {}, gen |-> gen]

(* Mutant: the live blocks of the rank are not cleared.                    *)
RestartKeepingBlocks(r) == [NewRecord(r.gen + 1) EXCEPT !.blocks = r.blocks]

RestartRank(r) == NewRecord(r.gen + 1)

(* RankRecord.admit.                                                       *)
Admit(r, m) ==
  CASE r.cursor = None           -> "accept"
    [] m.seq = r.cursor + 1      -> "accept"
    [] r.cursor # None /\ m.seq > r.cursor + 1 -> "gap"
    [] m.seq < r.cursor          -> "restart"
    [] OTHER                     -> IF m.op = "clear" THEN "restart" ELSE "duplicate"

JoinedLate(m) == m.seq > 1 /\ m.op # "clear"

-------------------------------------------------------------------------------
(* The relay's publisher task.                                             *)

Idle == [pc |-> "recv"]

(* then says what follows the message's own admission: "restarted" when    *)
(* the restart it shows has been declared, "recv" when there is none.      *)
Ask(m, from, then) == [pc |-> "ask", msg |-> m, from |-> from, then |-> then]

(* Replies to relay from expected on, up to a sequence at least.           *)
Fill(m, then, replies, expected, to) ==
  [pc |-> "fill", msg |-> m, then |-> then, replies |-> replies, expected |-> expected, to |-> to]

(* The states of the task.                                                 *)
FillJob == [pc : {"fill"}, msg : Batch, then : {"admit", "restarted", "recv"},
            replies : SUBSET Batch, expected : Nat, to : Int]

Job == [pc : {"recv"}] \cup FillJob
         \cup [pc : {"ask"}, msg : Batch, from : Nat, then : {"admit", "restarted"}]
         \cup [pc : {"send"}, batch : Batch, next : {Idle} \cup FillJob]
         \cup [pc : {"announce"}, msg : Batch]

Relay(m, next) ==
  /\ rec' = Record(rec, m)
  /\ job' = [pc |-> "send", batch |-> [m EXCEPT !.gen = rec.gen], next |-> next]

DeclareRestart(m) ==
  /\ rec' = RestartRank(rec)
  /\ job' = [pc |-> "announce", msg |-> m]

Receive ==
  /\ job.pc = "recv" /\ socket # << >>
  /\ LET m == Head(socket)
         late == rec.cursor = None /\ JoinedLate(m)
     IN  \/ late /\ job' = Ask(m, 0, "admit") /\ UNCHANGED rec
         \/ Admit(rec, m) = "gap" /\ job' = Ask(m, rec.cursor + 1, "admit") /\ UNCHANGED rec
         \/ Admit(rec, m) = "restart" /\ DeclareRestart(m)
         \/ Admit(rec, m) = "duplicate" /\ UNCHANGED <<rec, job>>
         \/ Admit(rec, m) = "accept" /\ ~late /\ Relay(m, Idle)
  /\ socket' = Tail(socket)
  /\ prime' = [prime EXCEPT !.done = TRUE]
  /\ UNCHANGED <<life, log, sub, gw, breaks>>

(* The replay answers with what the engine has by now.                     *)
Answer ==
  /\ job.pc = "ask"
  /\ \E replies \in Buffered(job.from) :
       job' = Fill(job.msg, job.then, replies, job.from, job.msg.seq - 1)
  /\ UNCHANGED <<engine, rec, prime, sub, gw, breaks>>

(* One turn of a fill: a hole before the next reply, the reply, or the     *)
(* hole after the last one.                                                *)
FillNext ==
  /\ job.pc = "fill"
  /\ \/ \E b \in job.replies :
          /\ IsFirst(b, job.replies)
          /\ IF job.expected < b.seq
             THEN /\ rec' = Lose(rec, job.expected, b.seq - 1)
                  /\ job' = Fill(job.msg, job.then, job.replies, b.seq, job.to)
             ELSE Relay(b, Fill(job.msg, job.then, job.replies \ {b}, b.seq + 1, job.to))
     \/ /\ job.replies = {} /\ job.expected <= job.to
        /\ rec' = Lose(rec, job.expected, job.to)
        /\ job' = Fill(job.msg, job.then, {}, job.to + 1, job.to)
  /\ UNCHANGED <<engine, prime, sub, gw, breaks>>

(* The fill is done: the message is admitted again.                        *)
Readmit ==
  /\ job.pc = "fill" /\ job.replies = {} /\ job.expected > job.to
  /\ \/ job.then # "recv" /\ Admit(rec, job.msg) = "accept" /\ Relay(job.msg, Idle)
     \/ job.then = "admit" /\ Admit(rec, job.msg) = "restart" /\ DeclareRestart(job.msg)
     \/ /\ \/ job.then = "recv" \/ Admit(rec, job.msg) \in {"gap", "duplicate"}
           \/ job.then = "restarted" /\ Admit(rec, job.msg) = "restart"
        /\ job' = Idle /\ UNCHANGED rec
  /\ UNCHANGED <<engine, prime, sub, gw, breaks>>

(* Send on the live channel: a receiver at its limit loses its oldest.     *)
Sent(s, item) ==
  IF s.phase = "idle" THEN s
  ELSE [s EXCEPT !.live   = IF Len(@) < LiveChannel THEN Append(@, item)
                            ELSE Append(Tail(@), item),
                 !.lagged = @ \/ Len(s.live) = LiveChannel]

Restart == [op |-> "restart"]

Send ==
  /\ job.pc = "send"
  /\ sub' = Sent(sub, job.batch)
  /\ job' = job.next
  /\ UNCHANGED <<engine, rec, prime, gw, breaks>>

(* After a restart: the start of the new process, then the message.        *)
Rejoin(m) ==
  IF JoinedLate(m) THEN Ask(m, 0, "restarted") ELSE Fill(m, "restarted", {}, 0, None)

(* Mutant: a restart that no subscriber hears of.                          *)
AnnounceToNobody ==
  /\ job.pc = "announce"
  /\ job' = Rejoin(job.msg)
  /\ UNCHANGED <<engine, rec, prime, sub, gw, breaks>>

Announce ==
  /\ job.pc = "announce"
  /\ sub' = Sent(sub, Restart)
  /\ job' = Rejoin(job.msg)
  /\ UNCHANGED <<engine, rec, prime, gw, breaks>>

(* prime_from_replay: the start, before the first live batch.  A publisher *)
(* may count from 1, so a first reply of 1 is taken for the start.  An     *)
(* empty answer that is not complete is asked for again.                   *)
PrimeFromReplay ==
  /\ job.pc = "recv" /\ ~prime.done
  /\ \/ Buffered(0) = {{}} /\ UNCHANGED job
     \/ \E replies \in Buffered(0) : \E b \in replies :
          /\ IsFirst(b, replies)
          /\ job' = Fill(b, "recv", replies, IF b.seq <= 1 THEN b.seq ELSE 0, None)
  /\ prime' = [prime EXCEPT !.done = TRUE]
  /\ UNCHANGED <<engine, rec, sub, gw, breaks>>

(* A subscriber found nothing relayed.                                     *)
PrimeAgain ==
  /\ job.pc = "recv" /\ prime.again
  /\ prime' = [done |-> prime.done /\ rec.cursor # None, again |-> FALSE]
  /\ UNCHANGED <<engine, rec, job, sub, gw, breaks>>

-------------------------------------------------------------------------------
(* The gateway's rank.  gen and stray are history: the incarnation of what *)
(* it applied last, and that the index went on from something else than    *)
(* what the record it follows stands for: another incarnation, a clear for *)
(* a large gap, or what an abandoned snapshot left behind.                 *)

RankState ==
  [cursor : Nat \cup {None}, replay : BOOLEAN, fresh : BOOLEAN, index : Seq(Batch),
   gen : Nat, stray : BOOLEAN]

Reset(g) == [g EXCEPT !.cursor = None, !.replay = FALSE]

(* abandon_snapshot: the cursor starts over, the part that arrived stays.  *)
Abandon(g) == [Reset(g) EXCEPT !.stray = TRUE]

ResetWorker(g) == [Reset(g) EXCEPT !.index = << >>, !.gen = 0, !.stray = FALSE]

(* RankState.admit with what admit_batch does of it; the stream ends at a  *)
(* gap not yet asked about.                                                *)
Follows(g, b) == g.cursor = None \/ b.seq = g.cursor + 1
Passed(g, b)  == b.seq <= g.cursor
IsGap(g, b)   == ~Follows(g, b) /\ ~Passed(g, b) /\ ~g.replay
IsHole(g, b)  == ~Follows(g, b) /\ ~Passed(g, b) /\ g.replay

Restarted(g, b) ==
  \/ b.op = "clear"
  \/ g.fresh /\ b.seq < g.cursor
  \/ b.seq <= 1 /\ b.seq < g.cursor
  \/ b.seq + RestartWindow <= g.cursor

Advance(g, index, b, stray) ==
  [g EXCEPT !.cursor = b.seq, !.replay = FALSE, !.fresh = FALSE,
            !.gen = b.gen, !.index = Apply(index, b), !.stray = stray /\ b.op # "clear"]

(* Mutant: a gap is asked about as often as it is met.                     *)
AdmitAskingAgain(g, b) ==
  CASE Follows(g, b) -> Advance(g, g.index, b, g.stray)
    [] Passed(g, b) /\ Restarted(g, b) -> Advance(g, << >>, b, FALSE)
    [] OTHER -> [g EXCEPT !.fresh = FALSE]

AdmitBatch(g, b) ==
  LET large == b.seq - g.cursor - 1 > GapThreshold
  IN  CASE Follows(g, b) -> Advance(g, g.index, b, g.stray)
        [] Passed(g, b) /\ Restarted(g, b)  -> Advance(g, << >>, b, FALSE)
        [] Passed(g, b) /\ ~Restarted(g, b) -> [g EXCEPT !.fresh = FALSE]
        [] IsGap(g, b) -> [g EXCEPT !.replay = TRUE, !.fresh = FALSE]
        [] IsHole(g, b) /\ large  -> Advance(g, << >>, b, TRUE)
        [] IsHole(g, b) /\ ~large -> Advance(g, g.index, b, g.stray)

-------------------------------------------------------------------------------
(* One stream.                                                             *)

Chunk == [stamp : Nat, first : BOOLEAN, blocks : Seq(Batch), last : BOOLEAN, gen : Nat]

Subscriber ==
  [phase : {"idle", "joining", "open"}, live : Seq(Batch \cup {Restart}), lagged : BOOLEAN,
   chunks : Seq(Chunk), replay : SUBSET Batch, sent : Nat \cup {None}]

NoStream == [phase |-> "idle", live |-> << >>, lagged |-> FALSE, chunks |-> << >>,
             replay |-> {}, sent |-> None]

(* resume_sequence: no cursor and a cursor of 0 ask for the same.          *)
Start(g) == IF g.cursor = None THEN 0 ELSE g.cursor

(* subscribe joins the live channel before it takes the lock.              *)
Subscribe ==
  /\ sub.phase = "idle"
  /\ sub' = [NoStream EXCEPT !.phase = "joining"]
  /\ UNCHANGED <<engine, relay, gw, breaks>>

(* A stream goes on by number alone from another incarnation.              *)
GoesAstray(g, r) == g.stray \/ (g.cursor # None /\ g.gen # r.gen)

(* The chunks of a snapshot.  The code spreads the blocks over the chunks  *)
(* and applies each as it comes; here the last one brings them all, since  *)
(* what the index holds before it is only ever left behind by Abandon.     *)
Chunks(r, n) ==
  [i \in 1 .. n |-> [stamp |-> r.cursor - n + i, first |-> i = 1,
                     blocks |-> IF i = n THEN r.blocks ELSE << >>, last |-> i = n,
                     gen |-> r.gen]]

Serve ==
  LET open == [sub EXCEPT !.phase = "open"]
      connected == [gw EXCEPT !.fresh = TRUE, !.stray = GoesAstray(gw, rec)]
  IN
  /\ sub.phase = "joining"
  /\ \/ /\ Start(gw) = 0 /\ CompleteFromStart(rec.window)
        /\ sub' = [open EXCEPT !.replay = rec.window.batches]
        /\ gw' = connected
        /\ UNCHANGED prime
     \/ /\ Start(gw) = 0 /\ rec.cursor # None /\ ~CompleteFromStart(rec.window)
        /\ \E n \in 1 .. MaxChunks :
             /\ n <= rec.cursor + 1 /\ (n > 1 => rec.blocks # << >>)
             /\ sub' = [open EXCEPT !.chunks = Chunks(rec, n), !.sent = rec.cursor]
        /\ gw' = connected
        /\ UNCHANGED prime
     \/ /\ Start(gw) = 0 /\ rec.cursor = None
        /\ sub' = open
        /\ gw' = connected
        /\ prime' = [prime EXCEPT !.again = TRUE]
     \/ /\ Start(gw) > 0 /\ Serves(rec.window, gw.cursor)
        /\ sub' = [open EXCEPT !.replay = After(rec.window, gw.cursor), !.sent = gw.cursor]
        /\ gw' = connected
        /\ UNCHANGED prime
     \/ /\ Start(gw) > 0 /\ ~Serves(rec.window, gw.cursor)
        /\ sub' = NoStream
        /\ gw' = ResetWorker(gw)
        /\ UNCHANGED prime
  /\ UNCHANGED <<engine, rec, job, breaks>>

(* admit_snapshot_chunk.                                                   *)
DeliverChunk ==
  /\ sub.phase = "open" /\ sub.chunks # << >>
  /\ LET c == Head(sub.chunks)
     IN  gw' = [gw EXCEPT !.cursor = c.stamp, !.replay = FALSE, !.fresh = FALSE,
                          !.gen = c.gen, !.index = c.blocks, !.stray = FALSE]
  /\ sub' = [sub EXCEPT !.chunks = Tail(@)]
  /\ UNCHANGED <<engine, relay, breaks>>

(* A batch of the stream that was owed, then of the live channel.          *)
Deliver(s, b) ==
  /\ gw' = AdmitBatch(gw, b)
  /\ sub' = IF IsGap(gw, b) THEN NoStream ELSE [s EXCEPT !.sent = b.seq]

DeliverReplay ==
  /\ sub.phase = "open" /\ sub.chunks = << >>
  /\ \E b \in sub.replay :
       /\ IsFirst(b, sub.replay)
       /\ Deliver([sub EXCEPT !.replay = @ \ {b}], b)
  /\ UNCHANGED <<engine, relay, breaks>>

AtLive == sub.phase = "open" /\ sub.chunks = << >> /\ sub.replay = {}

(* sent is None: whatever comes is new.                                    *)
DeliverLive ==
  /\ AtLive /\ ~sub.lagged /\ sub.live # << >>
  /\ LET item == Head(sub.live)
         rest == [sub EXCEPT !.live = Tail(@)]
     IN  \/ item = Restart /\ sub' = NoStream /\ gw' = ResetWorker(gw)
         \/ /\ item # Restart /\ item.seq <= sub.sent
            /\ sub' = rest /\ UNCHANGED gw
         \/ item # Restart /\ item.seq > sub.sent /\ Deliver(rest, item)
  /\ UNCHANGED <<engine, relay, breaks>>

(* The subscriber fell behind the live channel.                            *)
Refill ==
  /\ AtLive /\ sub.lagged
  /\ LET resumed == sub.sent # None /\ Serves(rec.window, sub.sent)
         whole == sub.sent = None /\ (IsEmpty(rec.window) \/ CompleteFromStart(rec.window))
     IN  \/ /\ resumed \/ whole
            /\ sub' = [sub EXCEPT !.lagged = FALSE, !.replay = After(rec.window, sub.sent)]
            /\ gw' = [gw EXCEPT !.stray = GoesAstray(gw, rec)]
         \/ ~resumed /\ ~whole /\ sub' = NoStream /\ gw' = ResetWorker(gw)
  /\ UNCHANGED <<engine, relay, breaks>>

(* Mutant: a snapshot cut short counts as applied, and the next stream     *)
(* resumes after its last chunk.                                           *)
BreakKeepingCursor ==
  /\ breaks < MaxBreaks /\ sub.phase = "open"
  /\ breaks' = breaks + 1
  /\ sub' = NoStream
  /\ UNCHANGED <<engine, relay, gw>>

(* The stream breaks; a snapshot that was still arriving is abandoned.  A  *)
(* call that fails changes nothing.                                        *)
Break ==
  /\ breaks < MaxBreaks /\ sub.phase = "open"
  /\ breaks' = breaks + 1
  /\ sub' = NoStream
  /\ gw' = IF sub.chunks # << >> /\ ~Head(sub.chunks).first THEN Abandon(gw) ELSE gw
  /\ UNCHANGED <<engine, relay>>

-------------------------------------------------------------------------------
Init ==
  /\ life = 1 /\ log = << >> /\ socket = << >>
  /\ rec = NewRecord(0)
  /\ job = Idle
  /\ prime = [done |-> FALSE, again |-> FALSE]
  /\ sub = NoStream
  /\ gw = [cursor |-> None, replay |-> FALSE, fresh |-> FALSE, index |-> << >>,
           gen |-> 0, stray |-> FALSE]
  /\ breaks = 0

(* The publisher task, and the gateway's loop with the stream it polls.    *)
RelayTask ==
  \/ Receive \/ Answer \/ FillNext \/ Readmit \/ Send \/ Announce
  \/ PrimeFromReplay \/ PrimeAgain

Subscription ==
  \/ Subscribe \/ Serve \/ DeliverChunk \/ DeliverReplay \/ DeliverLive \/ Refill

Next == Publish \/ EngineRestart \/ RelayTask \/ Subscription \/ Break

(* Both are loops that never end, and everything they await answers or     *)
(* times out; that the two together get to move is all that is needed.     *)
Spec == Init /\ [][Next]_vars /\ WF_vars(RelayTask \/ Subscription)

-------------------------------------------------------------------------------
(* Type correctness.                                                       *)
Types ==
  /\ life \in DOMAIN Publishes /\ breaks \in 0 .. MaxBreaks
  /\ log \in Seq(Batch) /\ socket \in Seq(Batch)
  /\ rec \in RankRecord /\ job \in Job /\ prime \in [done : BOOLEAN, again : BOOLEAN]
  /\ sub \in Subscriber /\ Len(sub.live) <= LiveChannel
  /\ gw \in RankState

(* The window ends at the cursor, is no longer than it may be, and keeps   *)
(* nothing it does not cover, also after a hole wider than itself.         *)
TypeOK ==
  /\ Types
  /\ ~IsEmpty(rec.window) => rec.window.next = rec.cursor + 1
  /\ rec.window.next - rec.window.first \in 0 .. HistorySize
  /\ \A b \in rec.window.batches : b.seq \in rec.window.first .. rec.cursor

(* The relay has nothing to hear and nothing in hand, and it went through  *)
(* no restart of the engine unnoticed: what it recorded since the restart  *)
(* it declared last is of the running process.                             *)
CaughtUp ==
  /\ job.pc = "recv" /\ socket = << >> /\ rec.cursor = Len(log) - 1
  /\ \A i \in DOMAIN rec.blocks : rec.blocks[i].gen = rec.gen => rec.blocks[i].life = life

(* However batches came (live, from a replay that overlapped them, after a *)
(* restart that was or was not one), a record that has caught up stands    *)
(* for each batch of the engine since the last clear once and in order,    *)
(* except those the relay passed as lost, and for none of a process that   *)
(* ended.                                                                  *)
RecordMatchesEngine ==
  CaughtUp =>
    LET kept(q) == q \in 0 .. Len(log) - 1 /\ q \notin rec.lost
        since == {q \in 0 .. Len(log) - 1 :
                    kept(q) /\ ~\E p \in q + 1 .. Len(log) - 1 : kept(p) /\ log[p + 1].op = "clear"}
    IN  /\ \A i \in DOMAIN rec.blocks : rec.blocks[i].life = life
        /\ {rec.blocks[i].seq : i \in DOMAIN rec.blocks} = since
        /\ \A i, j \in DOMAIN rec.blocks : i < j => rec.blocks[i].seq < rec.blocks[j].seq

Drained ==
  /\ sub.phase = "open" /\ sub.chunks = << >> /\ sub.replay = {}
  /\ sub.live = << >> /\ ~sub.lagged

(* A gateway that stands where the record stands holds the blocks the      *)
(* record holds, whether it got there live, from the window, by a          *)
(* snapshot, by a refill after a lag or over streams that broke in         *)
(* between.  Excepted (stray) is an index that went on, by sequence number *)
(* alone, from another incarnation of the publisher, that was cleared for  *)
(* a large gap, or that was built on the part of a snapshot a broken       *)
(* stream left behind; a snapshot applied since ends the exception.        *)
IndexMatchesRecord ==
  Drained /\ job.pc = "recv" /\ gw.cursor = rec.cursor /\ ~gw.stray
    => gw.index = rec.blocks

(* Once the engine is quiet and streams hold, the gateway comes to stand   *)
(* where the record stands: refused cursors, gaps asked for once, lagging  *)
(* and restarts never leave the two asking each other for ever.            *)
GatewayCatchesUp == <>[](Drained /\ gw.cursor = rec.cursor)
===============================================================================
