---------------------------- MODULE KvEventsProofs ----------------------------
(***************************************************************************)
(* The relay's record is faithful to the engine and the gateway's index to *)
(* the record, for every number of batches, processes, losses, lags and    *)
(* broken streams and for every size of window, buffer and channel.        *)
(*                                                                         *)
(* RelayInv: the record has each batch since the last clear once and in    *)
(* order, its window every block it reaches back to, and whatever the      *)
(* publisher task is about to relay goes on where the record ends.         *)
(* GenuineInv: what the relay holds of the running process is what that    *)
(* process published.  StreamInv: a block of the record that a subscriber  *)
(* has yet to get is on its way to it, unless a restart or a lag is still  *)
(* to be acted on, and an index that is not stray is the record's blocks   *)
(* up to its cursor, except while a snapshot is arriving.                  *)
(***************************************************************************)
EXTENDS KvEvents, SequenceTheorems, TLAPS

(* Constants and batches.                                                  *)

LEMMA Constants ==
  /\ HistorySize \in Nat /\ HistorySize >= 1 /\ LiveChannel \in Nat /\ LiveChannel >= 1
  /\ MaxChunks \in Nat /\ BufferSteps \in Nat /\ RestartWindow \in Nat /\ GapThreshold \in Nat
  /\ MaxBreaks \in Nat /\ Publishes \in Seq(Nat) /\ Len(Publishes) \in Nat
  /\ DOMAIN Publishes = 1 .. Len(Publishes) /\ 1 \in DOMAIN Publishes
<1>1. /\ HistorySize \in Nat \ {0} /\ LiveChannel \in Nat \ {0} /\ MaxChunks \in Nat \ {0}
      /\ BufferSteps \in Nat /\ RestartWindow \in Nat /\ GapThreshold \in Nat /\ MaxBreaks \in Nat
  BY KvEventsAssumption
<1>2. Publishes \in Seq(Nat) /\ Publishes # << >>
  BY KvEventsAssumption
<1>3. Len(Publishes) \in Nat /\ DOMAIN Publishes = 1 .. Len(Publishes) /\ Len(Publishes) # 0
  BY <1>2
<1> QED
  BY <1>1, <1>2, <1>3

LEMMA BatchFacts ==
  ASSUME NEW b \in Batch
  PROVE  /\ b.seq \in Nat /\ b.gen \in Nat /\ b.life \in DOMAIN Publishes
         /\ b.op \in {"blocks", "clear"} /\ b # Restart
  BY DEF Batch, Restart

LEMMA StampedFacts ==
  ASSUME NEW m \in Batch, NEW g \in Nat
  PROVE  LET b == [m EXCEPT !.gen = g]
         IN  b \in Batch /\ b.seq = m.seq /\ b.op = m.op /\ b.life = m.life /\ b.gen = g
  BY DEF Batch

LEMMA ApplyType ==
  ASSUME NEW s \in Seq(Batch), NEW b \in Batch
  PROVE  Apply(s, b) \in Seq(Batch)
  BY DEF Apply

LEMMA PushType ==
  ASSUME NEW w \in Window, NEW from \in Nat, NEW to \in Nat, NEW S \in SUBSET Batch
  PROVE  Push(w, from, to, S) \in Window
<1> DEFINE v == [first |-> IF IsEmpty(w) THEN from ELSE w.first, next |-> to + 1,
                 batches |-> w.batches \cup S]
<1>1. v \in Window
  BY DEF Window
<1>2. Evict(v) \in Window
  <2> DEFINE first == IF v.next - v.first > HistorySize THEN v.next - HistorySize ELSE v.first
  <2>1. first \in Nat
    BY <1>1, Constants DEF Window
  <2>2. v.next \in Nat /\ {b \in v.batches : b.seq >= first} \in SUBSET Batch
    BY <1>1 DEF Window
  <2> QED
    BY <2>1, <2>2 DEF Evict, Window
<1> QED
  BY <1>2 DEF Push

LEMMA RecordType ==
  ASSUME NEW r \in RankRecord, NEW m \in Batch
  PROVE  Record(r, m) \in RankRecord
<1> DEFINE b == [m EXCEPT !.gen = r.gen]
           lost == CASE b.op = "clear"  -> {}
                     [] b.op # "clear" /\ r.cursor = None -> 0 .. b.seq - 1
                     [] OTHER           -> r.lost
<1>1. b \in Batch /\ b.seq \in Nat
  BY StampedFacts, BatchFacts DEF RankRecord
<1>2. Push(r.window, b.seq, b.seq, {b}) \in Window
  BY <1>1, PushType DEF RankRecord
<1>3. Apply(r.blocks, b) \in Seq(Batch)
  BY <1>1, ApplyType DEF RankRecord
<1>4. lost \in SUBSET Nat
  BY <1>1 DEF RankRecord
<1> HIDE DEF b, lost
<1>5. Record(r, m) = [r EXCEPT !.cursor = b.seq, !.window = Push(r.window, b.seq, b.seq, {b}),
                               !.blocks = Apply(r.blocks, b), !.lost = lost]
  BY DEF Record, b, lost
<1> QED
  BY <1>1, <1>2, <1>3, <1>4, <1>5 DEF RankRecord

LEMMA LoseType ==
  ASSUME NEW r \in RankRecord, NEW from \in Nat, NEW to \in Nat
  PROVE  Lose(r, from, to) \in RankRecord
<1>1. Push(r.window, from, to, {}) \in Window
  BY PushType DEF RankRecord
<1>2. r.lost \cup from .. to \in SUBSET Nat
  BY DEF RankRecord
<1> QED
  BY <1>1, <1>2 DEF RankRecord, Lose

LEMMA NewRecordType == \A g \in Nat : NewRecord(g) \in RankRecord
  BY DEF NewRecord, RankRecord, EmptyWindow, Window

LEMMA AdvanceType ==
  ASSUME NEW g \in RankState, NEW s \in Seq(Batch), NEW b \in Batch, NEW stray \in BOOLEAN
  PROVE  Advance(g, s, b, stray) \in RankState
<1>1. Apply(s, b) \in Seq(Batch) /\ b.seq \in Nat /\ b.gen \in Nat
  BY ApplyType, BatchFacts
<1> QED
  BY <1>1 DEF Advance, RankState

(* What becomes of a batch at the gateway, one case at a time.             *)
LEMMA AdmitCases ==
  ASSUME NEW g \in RankState, NEW b \in Batch
  PROVE  \/ Follows(g, b) /\ AdmitBatch(g, b) = Advance(g, g.index, b, g.stray)
         \/ Passed(g, b) /\ g.cursor # None /\ AdmitBatch(g, b) = Advance(g, << >>, b, FALSE)
         \/ /\ Passed(g, b) /\ g.cursor # None /\ b.op # "clear"
            /\ AdmitBatch(g, b) = [g EXCEPT !.fresh = FALSE]
         \/ IsGap(g, b) /\ AdmitBatch(g, b) = [g EXCEPT !.replay = TRUE, !.fresh = FALSE]
         \/ IsHole(g, b) /\ AdmitBatch(g, b) = Advance(g, << >>, b, TRUE)
         \/ IsHole(g, b) /\ AdmitBatch(g, b) = Advance(g, g.index, b, g.stray)
<1>0. b.seq \in Nat /\ g.cursor \in Nat \cup {None} /\ g.replay \in BOOLEAN
  BY BatchFacts DEF RankState
<1>1. CASE Follows(g, b)
  <2>1. ~Passed(g, b) /\ ~IsGap(g, b) /\ ~IsHole(g, b)
    BY <1>0, <1>1 DEF Follows, Passed, IsGap, IsHole, None
  <2> QED
    BY <1>1, <2>1 DEF AdmitBatch
<1>2. CASE ~Follows(g, b) /\ Passed(g, b)
  <2>1. ~IsGap(g, b) /\ ~IsHole(g, b) /\ g.cursor # None
    BY <1>0, <1>2 DEF Follows, Passed, IsGap, IsHole, None
  <2>2. CASE Restarted(g, b)
    BY <1>2, <2>1, <2>2 DEF AdmitBatch
  <2>3. CASE ~Restarted(g, b)
    <3>1. b.op # "clear"
      BY <2>3 DEF Restarted
    <3> QED
      BY <1>2, <2>1, <2>3, <3>1 DEF AdmitBatch
  <2> QED
    BY <2>2, <2>3
<1>3. CASE ~Follows(g, b) /\ ~Passed(g, b) /\ ~g.replay
  <2>1. IsGap(g, b) /\ ~IsHole(g, b)
    BY <1>3 DEF IsGap, IsHole
  <2> QED
    BY <1>3, <2>1 DEF AdmitBatch
<1>4. CASE ~Follows(g, b) /\ ~Passed(g, b) /\ g.replay
  <2>1. ~IsGap(g, b) /\ IsHole(g, b)
    BY <1>4 DEF IsGap, IsHole
  <2> QED
    BY <1>4, <2>1 DEF AdmitBatch
<1> QED
  BY <1>0, <1>1, <1>2, <1>3, <1>4

LEMMA AdmitBatchType ==
  ASSUME NEW g \in RankState, NEW b \in Batch
  PROVE  AdmitBatch(g, b) \in RankState
<1>1. g.index \in Seq(Batch) /\ g.stray \in BOOLEAN /\ << >> \in Seq(Batch)
  BY DEF RankState
<1>2. /\ Advance(g, g.index, b, g.stray) \in RankState
      /\ Advance(g, << >>, b, FALSE) \in RankState
      /\ Advance(g, << >>, b, TRUE) \in RankState
  BY <1>1, AdvanceType
<1>3. /\ [g EXCEPT !.fresh = FALSE] \in RankState
      /\ [g EXCEPT !.replay = TRUE, !.fresh = FALSE] \in RankState
  BY DEF RankState
<1> QED
  BY <1>2, <1>3, AdmitCases

LEMMA ResetTypes ==
  ASSUME NEW g \in RankState
  PROVE  Abandon(g) \in RankState /\ ResetWorker(g) \in RankState
<1>1. Reset(g) \in RankState
  BY DEF Reset, RankState
<1>2. ASSUME NEW h \in RankState
      PROVE  [h EXCEPT !.index = << >>, !.gen = 0, !.stray = FALSE] \in RankState
  <2>1. << >> \in Seq(Batch) /\ 0 \in Nat
    OBVIOUS
  <2> QED
    BY <2>1 DEF RankState
<1>3. ASSUME NEW h \in RankState PROVE [h EXCEPT !.stray = TRUE] \in RankState
  BY DEF RankState
<1> QED
  BY <1>1, <1>2, <1>3 DEF ResetWorker, Abandon

LEMMA NoStreamType == NoStream \in Subscriber /\ NoStream.live = << >>
  BY DEF NoStream, Subscriber

LEMMA SentType ==
  ASSUME NEW s \in Subscriber, Len(s.live) <= LiveChannel, NEW x \in Batch \cup {Restart}
  PROVE  Sent(s, x) \in Subscriber /\ Len(Sent(s, x).live) <= LiveChannel
<1> DEFINE live == IF Len(s.live) < LiveChannel THEN Append(s.live, x) ELSE Append(Tail(s.live), x)
<1>1. s.live \in Seq(Batch \cup {Restart}) /\ Len(s.live) \in Nat
  BY DEF Subscriber
<1>2. live \in Seq(Batch \cup {Restart}) /\ Len(live) <= LiveChannel
  <2>1. CASE Len(s.live) < LiveChannel
    BY <1>1, <2>1, Constants
  <2>2. CASE ~(Len(s.live) < LiveChannel)
    <3>1. s.live # << >>
      BY <1>1, <2>2, Constants
    <3>2. Tail(s.live) \in Seq(Batch \cup {Restart}) /\ Len(Tail(s.live)) = Len(s.live) - 1
      BY <1>1, <3>1
    <3> QED
      BY <1>1, <2>2, <3>2, Constants
  <2> QED
    BY <2>1, <2>2
<1>3. CASE s.phase = "idle"
  BY <1>3 DEF Sent
<1>4. CASE s.phase # "idle"
  <2>1. Sent(s, x) = [s EXCEPT !.live = live, !.lagged = s.lagged \/ Len(s.live) = LiveChannel]
    BY <1>4 DEF Sent
  <2> HIDE DEF live
  <2> QED
    BY <1>2, <2>1 DEF Subscriber
<1> QED
  BY <1>3, <1>4

LEMMA ChunksType ==
  ASSUME NEW r \in RankRecord, r.cursor # None, NEW n \in Nat, n <= r.cursor + 1
  PROVE  Chunks(r, n) \in Seq(Chunk) /\ Len(Chunks(r, n)) = n
<1>1. \A i \in 1 .. n : Chunks(r, n)[i] \in Chunk
  BY DEF Chunks, Chunk, RankRecord
<1>2. Chunks(r, n) \in [1 .. n -> Chunk]
  BY <1>1 DEF Chunks
<1> QED
  BY <1>2

-------------------------------------------------------------------------------
(* Types.                                                                  *)

LEMMA InitTypes == Init => Types
<1> SUFFICES ASSUME Init PROVE Types
  OBVIOUS
<1>1. life \in DOMAIN Publishes /\ breaks \in 0 .. MaxBreaks
  BY Constants DEF Init
<1>2. log \in Seq(Batch) /\ socket \in Seq(Batch)
  BY DEF Init
<1>3. rec \in RankRecord
  BY NewRecordType DEF Init
<1>4. job \in Job
  BY DEF Init, Job, Idle
<1>5. prime \in [done : BOOLEAN, again : BOOLEAN]
  BY DEF Init
<1>6. sub \in Subscriber /\ Len(sub.live) <= LiveChannel
  BY NoStreamType, Constants DEF Init
<1>7. gw \in RankState
  BY DEF Init, RankState
<1> QED
  BY <1>1, <1>2, <1>3, <1>4, <1>5, <1>6, <1>7 DEF Types

LEMMA JobFields ==
  ASSUME NEW j \in Job
  PROVE  /\ j.pc \in {"recv", "ask", "fill", "send", "announce"}
         /\ j.pc = "recv" => j = Idle
         /\ j.pc = "fill" => j \in FillJob
         /\ j.pc = "ask" => /\ j.msg \in Batch /\ j.from \in Nat
                            /\ j.then \in {"admit", "restarted"}
         /\ j.pc = "send" => j.batch \in Batch /\ j.next \in {Idle} \cup FillJob
         /\ j.pc = "announce" => j.msg \in Batch
  BY DEF Job, FillJob, Idle

LEMMA FillFields ==
  ASSUME NEW j \in FillJob
  PROVE  /\ j.pc = "fill" /\ j.msg \in Batch /\ j.then \in {"admit", "restarted", "recv"}
         /\ j.replies \in SUBSET Batch /\ j.expected \in Nat /\ j.to \in Int
  BY DEF FillJob

LEMMA JobTypes ==
  /\ Idle \in Job
  /\ \A m \in Batch, n \in Nat, then \in {"admit", "restarted"} : Ask(m, n, then) \in Job
  /\ \A m \in Batch, then \in {"admit", "restarted", "recv"}, S \in SUBSET Batch, n \in Nat, to \in Int :
       Fill(m, then, S, n, to) \in FillJob
  /\ FillJob \subseteq Job
  /\ \A m \in Batch : [pc |-> "announce", msg |-> m] \in Job
  /\ \A b \in Batch, next \in {Idle} \cup FillJob :
       [pc |-> "send", batch |-> b, next |-> next] \in Job
<1>1. Idle \in Job /\ FillJob \subseteq Job
  BY DEF Idle, Job
<1>2. \A m \in Batch, n \in Nat, then \in {"admit", "restarted"} : Ask(m, n, then) \in Job
  BY DEF Ask, Job
<1>3. \A m \in Batch, then \in {"admit", "restarted", "recv"}, S \in SUBSET Batch, n \in Nat, to \in Int :
        Fill(m, then, S, n, to) \in FillJob
  BY DEF Fill, FillJob
<1>4. \A m \in Batch : [pc |-> "announce", msg |-> m] \in Job
  BY DEF Job
<1>5. \A b \in Batch, next \in {Idle} \cup FillJob :
        [pc |-> "send", batch |-> b, next |-> next] \in Job
  BY DEF Job
<1> QED
  BY <1>1, <1>2, <1>3, <1>4, <1>5

LEMMA RelayType ==
  ASSUME Types, NEW m \in Batch, NEW next \in {Idle} \cup FillJob, Relay(m, next)
  PROVE  rec' \in RankRecord /\ job' \in Job
<1>1. rec' \in RankRecord
  BY RecordType DEF Types, Relay
<1>2. [m EXCEPT !.gen = rec.gen] \in Batch
  BY StampedFacts DEF Types, RankRecord
<1> QED
  BY <1>1, <1>2, JobTypes DEF Relay

LEMMA DeclareRestartType ==
  ASSUME Types, NEW m \in Batch, DeclareRestart(m)
  PROVE  rec' \in RankRecord /\ job' \in Job
<1>1. rec.gen + 1 \in Nat
  BY DEF Types, RankRecord
<1> QED
  BY <1>1, NewRecordType, JobTypes DEF DeclareRestart, RestartRank

LEMMA BufferedFacts ==
  ASSUME Types, NEW from \in Nat, NEW replies \in Buffered(from)
  PROVE  /\ replies \in SUBSET Batch
         /\ \A b \in replies : \E i \in 1 .. Len(log) : b = log[i] /\ i > from
<1>1. log \in Seq(Batch) /\ Len(log) \in Nat
  BY DEF Types
<1> DEFINE oldest == IF from > Len(log) - BufferSteps THEN from ELSE Len(log) - BufferSteps
<1>2. oldest \in Int /\ oldest >= from
  BY <1>1, Constants
<1>3. PICK last \in 0 .. Len(log) : replies = {log[i] : i \in oldest + 1 .. last}
  BY DEF Buffered
<1> HIDE DEF oldest
<1>4. \A b \in replies : \E i \in oldest + 1 .. last : b = log[i]
  BY <1>3
<1>5. \A i \in oldest + 1 .. last : i \in 1 .. Len(log) /\ i > from
  BY <1>1, <1>2
<1>6. \A b \in replies : \E i \in 1 .. Len(log) : b = log[i] /\ i > from
  BY <1>4, <1>5
<1> QED
  BY <1>1, <1>6

LEMMA DeliverType ==
  ASSUME Types, NEW s \in Subscriber, Len(s.live) <= LiveChannel, NEW b \in Batch, Deliver(s, b)
  PROVE  sub' \in Subscriber /\ Len(sub'.live) <= LiveChannel /\ gw' \in RankState
<1>1. gw' \in RankState
  BY AdmitBatchType DEF Types, Deliver
<1>2. [s EXCEPT !.sent = b.seq] \in Subscriber /\ [s EXCEPT !.sent = b.seq].live = s.live
  BY BatchFacts DEF Subscriber
<1>3. Len(NoStream.live) <= LiveChannel
  BY NoStreamType, Constants
<1> QED
  BY <1>1, <1>2, <1>3, NoStreamType DEF Deliver

LEMMA NextTypes == Types /\ [Next]_vars => Types'
<1> SUFFICES ASSUME Types, [Next]_vars PROVE Types'
  OBVIOUS
<1> USE DEF vars, engine, relay
<1>0. /\ rec \in RankRecord /\ job \in Job /\ sub \in Subscriber /\ gw \in RankState
      /\ socket \in Seq(Batch) /\ log \in Seq(Batch) /\ Len(sub.live) <= LiveChannel
      /\ prime \in [done : BOOLEAN, again : BOOLEAN]
  BY DEF Types
<1>1. CASE Publish
  <2>1. PICK b \in [seq : {Len(log)}, op : {"blocks", "clear"}, life : {life}, gen : {0}] :
          /\ log' = Append(log, b)
          /\ socket' = Append(socket, b) \/ UNCHANGED socket
    BY <1>1 DEF Publish
  <2>2. b \in Batch
    BY <1>0 DEF Types, Batch
  <2>3. log' \in Seq(Batch) /\ socket' \in Seq(Batch)
    <3>1. Append(log, b) \in Seq(Batch) /\ Append(socket, b) \in Seq(Batch)
      BY <1>0, <2>2
    <3> QED
      BY <1>0, <2>1, <3>1
  <2> QED
    BY <1>1, <2>3 DEF Publish, Types
<1>2. CASE EngineRestart
  <2>1. life' \in DOMAIN Publishes
    BY <1>2, Constants DEF EngineRestart, Types
  <2>2. log' \in Seq(Batch)
    BY <1>2 DEF EngineRestart
  <2> QED
    BY <1>2, <2>1, <2>2 DEF EngineRestart, Types
<1>3. CASE Receive
  <2> DEFINE m == Head(socket)
  <2>1. m \in Batch /\ Tail(socket) \in Seq(Batch)
    BY <1>0, <1>3 DEF Receive
  <2>2. prime' \in [done : BOOLEAN, again : BOOLEAN]
    BY <1>0, <1>3 DEF Receive
  <2>3. 0 \in Nat /\ (rec.cursor # None => rec.cursor + 1 \in Nat)
    BY <1>0 DEF RankRecord
  <2>4. Admit(rec, m) = "gap" => rec.cursor # None
    BY DEF Admit
  <2>5. rec' \in RankRecord /\ job' \in Job
    <3>1. CASE job' = Ask(m, 0, "admit") /\ UNCHANGED rec
      BY <1>0, <2>1, <2>3, <3>1, JobTypes
    <3>2. CASE rec.cursor # None /\ job' = Ask(m, rec.cursor + 1, "admit") /\ UNCHANGED rec
      BY <1>0, <2>1, <2>3, <3>2, JobTypes
    <3>3. CASE DeclareRestart(m)
      BY <2>1, <3>3, DeclareRestartType
    <3>4. CASE UNCHANGED <<rec, job>>
      BY <1>0, <3>4
    <3>5. CASE Relay(m, Idle)
      BY <2>1, <3>5, RelayType
    <3> QED
      BY <1>3, <2>4, <3>1, <3>2, <3>3, <3>4, <3>5 DEF Receive
  <2> QED
    BY <1>3, <2>1, <2>2, <2>5 DEF Receive, Types
<1>4. CASE Answer
  <2>1. job.pc = "ask" /\ job.msg \in Batch /\ job.from \in Nat /\ job.then \in {"admit", "restarted"}
    BY <1>0, <1>4, JobFields DEF Answer
  <2>2. PICK replies \in Buffered(job.from) :
          job' = Fill(job.msg, job.then, replies, job.from, job.msg.seq - 1)
    BY <1>4 DEF Answer
  <2>3. replies \in SUBSET Batch /\ job.msg.seq - 1 \in Int
    BY <2>1, <2>2, BufferedFacts, BatchFacts
  <2>4. job' \in Job
    BY <2>1, <2>2, <2>3, JobTypes
  <2> QED
    BY <1>4, <2>4 DEF Answer, Types
<1>5. CASE FillNext
  <2>1. /\ job.msg \in Batch /\ job.then \in {"admit", "restarted", "recv"}
        /\ job.replies \in SUBSET Batch /\ job.expected \in Nat /\ job.to \in Int
    BY <1>0, <1>5, JobFields, FillFields DEF FillNext
  <2>2. rec' \in RankRecord /\ job' \in Job
    <3>1. ASSUME NEW b \in job.replies, job.expected < b.seq,
                 rec' = Lose(rec, job.expected, b.seq - 1),
                 job' = Fill(job.msg, job.then, job.replies, b.seq, job.to)
          PROVE  rec' \in RankRecord /\ job' \in Job
      <4>1. b.seq \in Nat /\ b.seq - 1 \in Nat
        BY <2>1, <3>1, BatchFacts
      <4> QED
        BY <1>0, <2>1, <3>1, <4>1, LoseType, JobTypes
    <3>2. ASSUME NEW b \in job.replies,
                 Relay(b, Fill(job.msg, job.then, job.replies \ {b}, b.seq + 1, job.to))
          PROVE  rec' \in RankRecord /\ job' \in Job
      <4>1. b \in Batch /\ b.seq + 1 \in Nat /\ job.replies \ {b} \in SUBSET Batch
        BY <2>1, BatchFacts
      <4>2. Fill(job.msg, job.then, job.replies \ {b}, b.seq + 1, job.to) \in FillJob
        BY <2>1, <4>1, JobTypes
      <4> QED
        BY <3>2, <4>1, <4>2, RelayType
    <3>3. ASSUME job.expected <= job.to, rec' = Lose(rec, job.expected, job.to),
                 job' = Fill(job.msg, job.then, {}, job.to + 1, job.to)
          PROVE  rec' \in RankRecord /\ job' \in Job
      <4>1. job.to \in Nat /\ job.to + 1 \in Nat /\ {} \in SUBSET Batch
        BY <2>1, <3>3
      <4> QED
        BY <1>0, <2>1, <3>3, <4>1, LoseType, JobTypes
    <3> QED
      BY <1>5, <3>1, <3>2, <3>3 DEF FillNext
  <2> QED
    BY <1>5, <2>2 DEF FillNext, Types
<1>6. CASE Readmit
  <2>1. job.msg \in Batch
    BY <1>0, <1>6, JobFields, FillFields DEF Readmit
  <2>2. rec' \in RankRecord /\ job' \in Job
    BY <1>0, <1>6, <2>1, RelayType, DeclareRestartType, JobTypes DEF Readmit
  <2> QED
    BY <1>6, <2>2 DEF Readmit, Types
<1>7. CASE Send
  <2>1. job.batch \in Batch /\ job.next \in Job
    BY <1>0, <1>7, JobFields, JobTypes DEF Send
  <2>2. sub' \in Subscriber /\ Len(sub'.live) <= LiveChannel
    BY <1>0, <1>7, <2>1, SentType DEF Send
  <2> QED
    BY <1>7, <2>1, <2>2 DEF Send, Types
<1>8. CASE Announce
  <2>1. job.msg \in Batch
    BY <1>0, <1>8, JobFields DEF Announce
  <2>2. job' \in Job
    BY <1>8, <2>1, JobTypes DEF Announce, Rejoin, None
  <2>3. sub' \in Subscriber /\ Len(sub'.live) <= LiveChannel
    BY <1>0, <1>8, SentType DEF Announce
  <2> QED
    BY <1>8, <2>2, <2>3 DEF Announce, Types
<1>9. CASE PrimeFromReplay
  <2>1. prime' \in [done : BOOLEAN, again : BOOLEAN]
    BY <1>0, <1>9 DEF PrimeFromReplay
  <2>2. job' \in Job
    <3>1. ASSUME NEW replies \in Buffered(0), NEW b \in replies,
                 job' = Fill(b, "recv", replies, IF b.seq <= 1 THEN b.seq ELSE 0, None)
          PROVE  job' \in Job
      <4>1. replies \in SUBSET Batch
        BY BufferedFacts
      <4>2. b \in Batch /\ (IF b.seq <= 1 THEN b.seq ELSE 0) \in Nat /\ None \in Int
        BY <4>1, BatchFacts DEF None
      <4> QED
        BY <3>1, <4>1, <4>2, JobTypes
    <3> QED
      BY <1>0, <1>9, <3>1 DEF PrimeFromReplay
  <2> QED
    BY <1>9, <2>1, <2>2 DEF PrimeFromReplay, Types
<1>10. CASE PrimeAgain
  <2>1. prime' \in [done : BOOLEAN, again : BOOLEAN]
    BY <1>0, <1>10 DEF PrimeAgain
  <2> QED
    BY <1>10, <2>1 DEF PrimeAgain, Types
<1>11. CASE Subscribe
  <2>1. sub' \in Subscriber /\ Len(sub'.live) <= LiveChannel
    <3>1. sub' = [NoStream EXCEPT !.phase = "joining"]
      BY <1>11 DEF Subscribe
    <3>2. sub' \in Subscriber /\ sub'.live = << >>
      BY <3>1, NoStreamType DEF Subscriber
    <3> QED
      BY <3>2, Constants
  <2> QED
    BY <1>11, <2>1 DEF Subscribe, Types
<1>12. CASE Serve
  <2> DEFINE open == [sub EXCEPT !.phase = "open"]
             connected == [gw EXCEPT !.fresh = TRUE, !.stray = GoesAstray(gw, rec)]
  <2>1. connected \in RankState
    BY <1>0 DEF RankState, GoesAstray
  <2>2. /\ rec.window.batches \in SUBSET Batch
        /\ \A q : After(rec.window, q) \in SUBSET Batch
    BY <1>0 DEF RankRecord, Window, After
  <2>3. \A S \in SUBSET Batch, q \in Nat \cup {None} :
          LET s == [open EXCEPT !.replay = S, !.sent = q]
          IN  s \in Subscriber /\ s.live = sub.live
    BY <1>0 DEF Subscriber
  <2>4. \A S \in SUBSET Batch :
          LET s == [open EXCEPT !.replay = S]
          IN  s \in Subscriber /\ s.live = sub.live
    BY <1>0 DEF Subscriber
  <2>5. \A n \in 1 .. MaxChunks : n <= rec.cursor + 1 /\ rec.cursor # None =>
          LET s == [open EXCEPT !.chunks = Chunks(rec, n), !.sent = rec.cursor]
          IN  s \in Subscriber /\ s.live = sub.live
    <3> SUFFICES ASSUME NEW n \in 1 .. MaxChunks, n <= rec.cursor + 1, rec.cursor # None
                 PROVE  LET s == [open EXCEPT !.chunks = Chunks(rec, n), !.sent = rec.cursor]
                        IN  s \in Subscriber /\ s.live = sub.live
      OBVIOUS
    <3>1. Chunks(rec, n) \in Seq(Chunk)
      BY <1>0, Constants, ChunksType
    <3> QED
      BY <1>0, <3>1 DEF Subscriber, RankRecord
  <2>6. open \in Subscriber /\ open.live = sub.live
    BY <1>0 DEF Subscriber
  <2>7. gw.cursor \in Nat \cup {None}
    BY <1>0 DEF RankState
  <2>8. gw' \in RankState
    BY <1>0, <1>12, <2>1, ResetTypes DEF Serve
  <2>9. prime' \in [done : BOOLEAN, again : BOOLEAN]
    BY <1>0, <1>12 DEF Serve
  <2> HIDE DEF open, connected
  <2>10. \/ sub' = NoStream
         \/ sub' = open
         \/ sub' = [open EXCEPT !.replay = rec.window.batches]
         \/ sub' = [open EXCEPT !.replay = After(rec.window, gw.cursor), !.sent = gw.cursor]
         \/ rec.cursor # None /\ \E n \in 1 .. MaxChunks : n <= rec.cursor + 1 /\
              sub' = [open EXCEPT !.chunks = Chunks(rec, n), !.sent = rec.cursor]
    BY <1>12 DEF Serve, open
  <2>11. sub' \in Subscriber /\ Len(sub'.live) <= LiveChannel
    <3>1. Len(NoStream.live) <= LiveChannel
      BY NoStreamType, Constants
    <3>2. CASE sub' = NoStream
      BY <3>1, <3>2, NoStreamType
    <3>3. CASE sub' = open
      BY <1>0, <2>6, <3>3
    <3>4. CASE sub' = [open EXCEPT !.replay = rec.window.batches]
      BY <1>0, <2>2, <2>4, <3>4
    <3>5. CASE sub' = [open EXCEPT !.replay = After(rec.window, gw.cursor), !.sent = gw.cursor]
      BY <1>0, <2>2, <2>3, <2>7, <3>5
    <3>6. CASE rec.cursor # None /\ \E n \in 1 .. MaxChunks : n <= rec.cursor + 1 /\
                 sub' = [open EXCEPT !.chunks = Chunks(rec, n), !.sent = rec.cursor]
      BY <1>0, <2>5, <3>6
    <3> QED
      BY <2>10, <3>2, <3>3, <3>4, <3>5, <3>6
  <2> QED
    BY <1>12, <2>8, <2>9, <2>11 DEF Serve, Types
<1>13. CASE DeliverChunk
  <2>1. sub.chunks \in Seq(Chunk) /\ sub.chunks # << >>
    BY <1>0, <1>13 DEF DeliverChunk, Subscriber
  <2>2. Head(sub.chunks) \in Chunk /\ Tail(sub.chunks) \in Seq(Chunk)
    BY <2>1
  <2>3. gw' \in RankState
    BY <1>0, <1>13, <2>2 DEF DeliverChunk, RankState, Chunk
  <2>4. sub' \in Subscriber /\ sub'.live = sub.live
    BY <1>0, <1>13, <2>2 DEF DeliverChunk, Subscriber
  <2> QED
    BY <1>13, <2>3, <2>4 DEF DeliverChunk, Types
<1>14. CASE DeliverReplay
  <2>1. PICK b \in sub.replay : Deliver([sub EXCEPT !.replay = @ \ {b}], b)
    BY <1>14 DEF DeliverReplay
  <2>2. b \in Batch
    BY <1>0 DEF Subscriber
  <2>3. /\ [sub EXCEPT !.replay = @ \ {b}] \in Subscriber
        /\ [sub EXCEPT !.replay = @ \ {b}].live = sub.live
    BY <1>0 DEF Subscriber
  <2>4. sub' \in Subscriber /\ Len(sub'.live) <= LiveChannel /\ gw' \in RankState
    BY <1>0, <2>1, <2>2, <2>3, DeliverType
  <2> QED
    BY <1>14, <2>4 DEF DeliverReplay, Types
<1>15. CASE DeliverLive
  <2> DEFINE item == Head(sub.live)
             rest == [sub EXCEPT !.live = Tail(@)]
  <2>1. sub.live \in Seq(Batch \cup {Restart}) /\ sub.live # << >>
    BY <1>0, <1>15 DEF DeliverLive, Subscriber
  <2>2. item \in Batch \cup {Restart} /\ Tail(sub.live) \in Seq(Batch \cup {Restart})
        /\ Len(Tail(sub.live)) = Len(sub.live) - 1 /\ Len(sub.live) \in Nat
    BY <2>1
  <2>3. rest \in Subscriber /\ Len(rest.live) <= LiveChannel
    <3>1. rest \in Subscriber /\ rest.live = Tail(sub.live)
      BY <1>0, <2>2 DEF Subscriber
    <3> QED
      BY <1>0, <2>2, <3>1, Constants
  <2>4. /\ Len(NoStream.live) <= LiveChannel
        /\ ResetWorker(gw) \in RankState
    BY <1>0, NoStreamType, ResetTypes, Constants
  <2> HIDE DEF rest, item
  <2>5. \/ sub' = NoStream /\ gw' = ResetWorker(gw)
        \/ sub' = rest /\ UNCHANGED gw
        \/ item # Restart /\ Deliver(rest, item)
    BY <1>15 DEF DeliverLive, item, rest
  <2>6. sub' \in Subscriber /\ Len(sub'.live) <= LiveChannel /\ gw' \in RankState
    BY <1>0, <2>2, <2>3, <2>4, <2>5, DeliverType, NoStreamType
  <2> QED
    BY <1>15, <2>6 DEF DeliverLive, Types
<1>16. CASE Refill
  <2>1. After(rec.window, sub.sent) \in SUBSET Batch
    BY <1>0 DEF RankRecord, Window, After
  <2>2. \/ /\ sub' = [sub EXCEPT !.lagged = FALSE, !.replay = After(rec.window, sub.sent)]
           /\ gw' = [gw EXCEPT !.stray = GoesAstray(gw, rec)]
        \/ sub' = NoStream /\ gw' = ResetWorker(gw)
    BY <1>16 DEF Refill
  <2>3. CASE /\ sub' = [sub EXCEPT !.lagged = FALSE, !.replay = After(rec.window, sub.sent)]
             /\ gw' = [gw EXCEPT !.stray = GoesAstray(gw, rec)]
    <3>1. sub' \in Subscriber /\ sub'.live = sub.live
      BY <1>0, <2>1, <2>3 DEF Subscriber
    <3>2. gw' \in RankState
      BY <1>0, <2>3 DEF RankState, GoesAstray
    <3> QED
      BY <1>16, <3>1, <3>2 DEF Refill, Types
  <2>4. CASE sub' = NoStream /\ gw' = ResetWorker(gw)
    <3>1. Len(NoStream.live) <= LiveChannel
      BY NoStreamType, Constants
    <3> QED
      BY <1>0, <1>16, <2>4, <3>1, NoStreamType, ResetTypes DEF Refill, Types
  <2> QED
    BY <2>2, <2>3, <2>4
<1>17. CASE Break
  <2>1. breaks' \in 0 .. MaxBreaks
    BY <1>17, Constants DEF Break, Types
  <2>2. Len(NoStream.live) <= LiveChannel
    BY NoStreamType, Constants
  <2>3. gw' \in RankState
    BY <1>0, <1>17, ResetTypes DEF Break
  <2> QED
    BY <1>17, <2>1, <2>2, <2>3, NoStreamType DEF Break, Types
<1>18. CASE UNCHANGED vars
  BY <1>18 DEF Types
<1> QED
  BY <1>1, <1>2, <1>3, <1>4, <1>5, <1>6, <1>7, <1>8, <1>9, <1>10, <1>11, <1>12, <1>13,
     <1>14, <1>15, <1>16, <1>17, <1>18
  DEF Next, RelayTask, Subscription

-------------------------------------------------------------------------------
(* The record.  Its blocks are the batches since the last clear, at the    *)
(* head if there was one, in order and each once; what is neither among    *)
(* them nor before that clear was lost.                                    *)

Superseded(r, q) == r.blocks # << >> /\ r.blocks[1].op = "clear" /\ q < r.blocks[1].seq

InRecord(r, b) == Superseded(r, b.seq) \/ \E i \in 1 .. Len(r.blocks) : r.blocks[i] = b

GoodBlocks(r) ==
  /\ r.cursor = None => r.window = EmptyWindow /\ r.blocks = << >> /\ r.lost = {}
  /\ \A i, j \in 1 .. Len(r.blocks) : i < j => r.blocks[i].seq < r.blocks[j].seq
  /\ \A i \in 1 .. Len(r.blocks) :
       /\ r.blocks[i].seq <= r.cursor /\ r.blocks[i].gen = r.gen
       /\ r.blocks[i].seq \notin r.lost
       /\ i > 1 => r.blocks[i].op # "clear"
  /\ \A q \in r.lost : q <= r.cursor
  /\ \A q \in 0 .. r.cursor :
       \/ Superseded(r, q) \/ q \in r.lost
       \/ \E i \in 1 .. Len(r.blocks) : r.blocks[i].seq = q

(* The window ends at the cursor and has every block it reaches back to.   *)
GoodWindow(r) ==
  /\ r.window.first <= r.window.next /\ r.window.next - r.window.first <= HistorySize
  /\ r.cursor # None => ~IsEmpty(r.window) /\ r.window.next = r.cursor + 1
  /\ \A b \in r.window.batches : /\ b.seq >= r.window.first /\ b.seq < r.window.next
                                 /\ b.gen = r.gen /\ InRecord(r, b)
  /\ \A b, c \in r.window.batches : b.seq = c.seq => b = c
  /\ \A i \in 1 .. Len(r.blocks) :
       r.blocks[i].seq >= r.window.first => r.blocks[i] \in r.window.batches

GoodRecord(r) == GoodBlocks(r) /\ GoodWindow(r)

LEMMA ApplyFacts ==
  ASSUME NEW s \in Seq(Batch), NEW b \in Batch
  PROVE  /\ b.op = "clear" => /\ Apply(s, b) = <<b>> /\ Len(Apply(s, b)) = 1
                              /\ Apply(s, b)[1] = b
         /\ b.op # "clear" => /\ Len(Apply(s, b)) = Len(s) + 1
                              /\ \A i \in 1 .. Len(s) : Apply(s, b)[i] = s[i]
                              /\ Apply(s, b)[Len(s) + 1] = b
         /\ Len(s) \in Nat /\ Len(Apply(s, b)) \in Nat
         /\ \A i \in 1 .. Len(s) : s[i] \in Batch
<1>1. Append(s, b) \in Seq(Batch) /\ Len(Append(s, b)) = Len(s) + 1 /\ Len(s) \in Nat
  BY AppendProperties
<1>2. \A i \in 1 .. Len(s) : Append(s, b)[i] = s[i]
  BY AppendProperties
<1>3. Append(s, b)[Len(s) + 1] = b
  BY AppendProperties
<1>4. Len(<<b>>) = 1 /\ <<b>>[1] = b
  OBVIOUS
<1>5. \A i \in 1 .. Len(s) : s[i] \in Batch
  BY ElementOfSeq
<1> QED
  BY <1>1, <1>2, <1>3, <1>4, <1>5 DEF Apply

LEMMA EvictFields ==
  ASSUME NEW w
  PROVE  LET k == IF w.next - w.first > HistorySize THEN w.next - HistorySize ELSE w.first
         IN  /\ Evict(w).first = k /\ Evict(w).next = w.next
             /\ \A b : b \in Evict(w).batches <=> b \in w.batches /\ b.seq >= k
  BY DEF Evict

LEMMA PushFacts ==
  ASSUME NEW w \in Window, NEW from \in Nat, NEW to \in Nat, NEW S \in SUBSET Batch,
         from <= to, w.first <= w.next, IsEmpty(w) \/ from = w.next,
         \A b \in w.batches : b.seq >= w.first /\ b.seq < w.next,
         \A b \in S : b.seq >= from /\ b.seq <= to
  PROVE  LET v == Push(w, from, to, S)
         IN  /\ v \in Window /\ v.next = to + 1 /\ v.first < v.next
             /\ v.next - v.first <= HistorySize
             /\ ~IsEmpty(w) => v.first >= w.first
             /\ v.batches = {b \in w.batches \cup S : b.seq >= v.first}
             /\ \A b \in v.batches : b.seq >= v.first /\ b.seq < v.next
             /\ \A b \in v.batches : b \in S \/ (b \in w.batches /\ b.seq < from)
<1> DEFINE first == IF IsEmpty(w) THEN from ELSE w.first
           kept == IF to + 1 - first > HistorySize THEN to + 1 - HistorySize ELSE first
           all == {b \in w.batches \cup S : b.seq >= kept}
<1>1. w.first \in Nat /\ w.next \in Nat /\ w.batches \in SUBSET Batch
  BY DEF Window
<1>2. first \in Nat /\ first <= from /\ (~IsEmpty(w) => first = w.first)
  BY <1>1 DEF IsEmpty
<1>3. kept \in Nat /\ kept >= first /\ kept < to + 1 /\ to + 1 - kept <= HistorySize
  BY <1>2, Constants
<1>4. /\ Push(w, from, to, S).first = kept /\ Push(w, from, to, S).next = to + 1
      /\ Push(w, from, to, S).batches = all
  <2> DEFINE u == [first |-> first, next |-> to + 1, batches |-> w.batches \cup S]
             v == Push(w, from, to, S)
  <2>1. v = Evict(u)
    BY DEF Push
  <2>2. u.first = first /\ u.next = to + 1 /\ u.batches = w.batches \cup S
    OBVIOUS
  <2>3. LET k == IF u.next - u.first > HistorySize THEN u.next - HistorySize ELSE u.first
        IN  v.first = k /\ v.next = u.next /\ \A b : b \in v.batches <=> b \in u.batches /\ b.seq >= k
    BY <2>1, EvictFields
  <2> HIDE DEF first, u, v
  <2>4. /\ v.first = kept /\ v.next = to + 1
        /\ \A b : b \in v.batches <=> b \in w.batches \cup S /\ b.seq >= kept
    BY <1>2, <2>2, <2>3, Constants
  <2> QED
    BY <2>4 DEF v
<1>5. \A b \in w.batches : b.seq \in Nat /\ b.seq < from
  <2> SUFFICES ASSUME NEW b \in w.batches PROVE b.seq \in Nat /\ b.seq < from
    OBVIOUS
  <2>1. b.seq \in Nat /\ b.seq >= w.first /\ b.seq < w.next
    BY <1>1, BatchFacts
  <2> QED
    BY <1>1, <2>1 DEF IsEmpty
<1>6. \A b \in S : b.seq \in Nat
  BY BatchFacts
<1>7. \A b \in all : b.seq >= kept /\ b.seq < to + 1 /\ (b \in S \/ (b \in w.batches /\ b.seq < from))
  BY <1>5, <1>6
<1>8. Push(w, from, to, S) \in Window
  BY PushType
<1> HIDE DEF first, kept
<1> QED
  BY <1>2, <1>3, <1>4, <1>7, <1>8

LEMMA RecordFields ==
  ASSUME NEW r \in RankRecord, NEW m \in Batch
  PROVE  LET b == [m EXCEPT !.gen = r.gen]
             n == Record(r, m)
         IN  /\ n \in RankRecord /\ n.cursor = m.seq /\ n.gen = r.gen
             /\ n.blocks = Apply(r.blocks, b)
             /\ n.window = Push(r.window, m.seq, m.seq, {b})
             /\ b.op = "clear" => n.lost = {}
             /\ b.op # "clear" /\ r.cursor = None => n.lost = 0 .. m.seq - 1
             /\ b.op # "clear" /\ r.cursor # None => n.lost = r.lost
<1> DEFINE b == [m EXCEPT !.gen = r.gen]
<1>1. b.seq = m.seq
  BY StampedFacts DEF RankRecord
<1>2. Record(r, m) \in RankRecord
  BY RecordType
<1> HIDE DEF b
<1>3. Record(r, m) = [r EXCEPT !.cursor = b.seq,
                !.window = Push(@, b.seq, b.seq, {b}),
                !.blocks = Apply(@, b),
                !.lost   = CASE b.op = "clear"  -> {}
                             [] b.op # "clear" /\ r.cursor = None -> 0 .. b.seq - 1
                             [] OTHER           -> @]
  BY DEF Record, b
<1>4. /\ Record(r, m).cursor = m.seq /\ Record(r, m).gen = r.gen
      /\ Record(r, m).blocks = Apply(r.blocks, b)
      /\ Record(r, m).window = Push(r.window, m.seq, m.seq, {b})
      /\ Record(r, m).lost = CASE b.op = "clear"  -> {}
                             [] b.op # "clear" /\ r.cursor = None -> 0 .. m.seq - 1
                             [] OTHER           -> r.lost
  BY <1>1, <1>3 DEF RankRecord
<1> QED
  BY <1>2, <1>4 DEF b

(* Recording the next batch keeps a good record.                           *)
LEMMA RecordGood ==
  ASSUME NEW r \in RankRecord, GoodRecord(r), NEW m \in Batch,
         r.cursor = None \/ m.seq = r.cursor + 1
  PROVE  GoodRecord(Record(r, m))
<1> DEFINE b == [m EXCEPT !.gen = r.gen]
           n == Record(r, m)
           B == r.blocks
           C == n.blocks
<1>1. b \in Batch /\ b.seq = m.seq /\ b.op = m.op /\ b.gen = r.gen /\ m.seq \in Nat
  BY StampedFacts, BatchFacts DEF RankRecord
<1>2. /\ n \in RankRecord /\ n.cursor = m.seq /\ n.gen = r.gen /\ n.blocks = Apply(r.blocks, b)
      /\ n.window = Push(r.window, m.seq, m.seq, {b})
      /\ b.op = "clear" => n.lost = {}
      /\ b.op # "clear" /\ r.cursor = None => n.lost = 0 .. m.seq - 1
      /\ b.op # "clear" /\ r.cursor # None => n.lost = r.lost
  BY RecordFields
<1>3. GoodBlocks(r) /\ GoodWindow(r)
  BY DEF GoodRecord
<1>4. /\ B \in Seq(Batch) /\ r.window \in Window /\ r.lost \in SUBSET Nat
      /\ r.cursor \in Nat \cup {None} /\ r.cursor < m.seq /\ m.seq # None
      /\ r.cursor \in Int
  BY <1>1 DEF RankRecord, None
<1>5. /\ b.op = "clear" => Len(C) = 1 /\ C[1] = b /\ C # << >>
      /\ b.op # "clear" => /\ Len(C) = Len(B) + 1
                           /\ \A i \in 1 .. Len(B) : C[i] = B[i]
                           /\ C[Len(B) + 1] = b
      /\ Len(B) \in Nat /\ Len(C) \in Nat
      /\ \A i \in 1 .. Len(B) : B[i] \in Batch /\ B[i].seq \in Nat
      /\ \A i \in 1 .. Len(B) : B[i].seq <= r.cursor
      /\ B = << >> <=> Len(B) = 0
      /\ C # << >>
  <2>1. C \in Seq(Batch)
    BY <1>2 DEF RankRecord
  <2> QED
    <3>1. /\ b.op = "clear" => Len(C) = 1 /\ C[1] = b
          /\ b.op # "clear" => /\ Len(C) = Len(B) + 1
                               /\ \A i \in 1 .. Len(B) : C[i] = B[i]
                               /\ C[Len(B) + 1] = b
          /\ Len(B) \in Nat /\ Len(C) \in Nat
          /\ \A i \in 1 .. Len(B) : B[i] \in Batch
      <4> HIDE DEF b, n
      <4> QED
        BY <1>1, <1>2, <1>4, ApplyFacts
    <3>2. \A i \in 1 .. Len(B) : B[i].seq \in Nat
      BY <3>1, BatchFacts
    <3>3. \A i \in 1 .. Len(B) : B[i].seq <= r.cursor
      BY <1>3 DEF GoodBlocks
    <3>4. Len(C) # 0
      <4> HIDE DEF B, C, b
      <4> QED
        BY <3>1
    <3>5. (B = << >> <=> Len(B) = 0) /\ C # << >>
      BY <1>4, <2>1, <3>4, EmptySeq
    <3> QED
      BY <3>1, <3>2, <3>3, <3>5
<1> HIDE DEF b, n, B, C
<1>6. GoodBlocks(n)
  <2>1. CASE b.op = "clear"
    <3>1. \A q \in 0 .. n.cursor : Superseded(n, q) \/ \E i \in 1 .. Len(C) : C[i].seq = q
      <4> SUFFICES ASSUME NEW q \in 0 .. n.cursor
                   PROVE  Superseded(n, q) \/ \E i \in 1 .. Len(C) : C[i].seq = q
        OBVIOUS
      <4>1. CASE q = n.cursor
        BY <1>1, <1>2, <1>5, <2>1, <4>1
      <4>2. CASE q < n.cursor
        BY <1>1, <1>2, <1>5, <2>1, <4>2 DEF Superseded, C
      <4> QED
        BY <1>1, <1>2, <4>1, <4>2
    <3> QED
      BY <1>1, <1>2, <1>4, <1>5, <2>1, <3>1 DEF GoodBlocks, C
  <2>2. CASE b.op # "clear"
    <3>1. \A i, j \in 1 .. Len(C) : i < j => C[i].seq < C[j].seq
      <4>1. \A i, j \in 1 .. Len(B) : i < j => B[i].seq < B[j].seq
        BY <1>3 DEF GoodBlocks, B
      <4>2. \A i \in 1 .. Len(B) : C[i] = B[i] /\ B[i].seq < b.seq
        BY <1>1, <1>4, <1>5, <2>2
      <4>3. C[Len(B) + 1] = b /\ Len(C) = Len(B) + 1 /\ Len(B) \in Nat
        BY <1>5, <2>2
      <4> SUFFICES ASSUME NEW i \in 1 .. Len(C), NEW j \in 1 .. Len(C), i < j
                   PROVE  C[i].seq < C[j].seq
        OBVIOUS
      <4>4. i \in 1 .. Len(B) /\ (j \in 1 .. Len(B) \/ j = Len(B) + 1)
        BY <4>3
      <4> QED
        BY <4>1, <4>2, <4>3, <4>4
    <3>2. \A q \in n.lost : q < m.seq /\ (r.cursor # None => q \in r.lost)
      BY <1>1, <1>2, <1>3, <1>4, <2>2 DEF GoodBlocks
    <3>3. \A i \in 1 .. Len(B) : B[i].seq \notin n.lost
      <4>1. CASE r.cursor = None
        BY <1>3, <1>5, <4>1 DEF GoodBlocks, B
      <4>2. CASE r.cursor # None
        BY <1>3, <3>2, <4>2 DEF GoodBlocks, B
      <4> QED
        BY <4>1, <4>2
    <3>4. b.seq \notin n.lost
      BY <1>1, <3>2
    <3>5. \A i \in 1 .. Len(C) : /\ C[i].seq <= n.cursor /\ C[i].gen = n.gen
                                 /\ C[i].seq \notin n.lost
                                 /\ i > 1 => C[i].op # "clear"
      <4> SUFFICES ASSUME NEW i \in 1 .. Len(C)
                   PROVE  /\ C[i].seq <= n.cursor /\ C[i].gen = n.gen
                          /\ C[i].seq \notin n.lost
                          /\ i > 1 => C[i].op # "clear"
        OBVIOUS
      <4>1. CASE i = Len(B) + 1
        BY <1>1, <1>2, <1>5, <2>2, <3>4, <4>1
      <4>2. CASE i \in 1 .. Len(B)
        BY <1>1, <1>2, <1>3, <1>4, <1>5, <2>2, <3>3, <4>2 DEF GoodBlocks, B
      <4> QED
        BY <1>5, <2>2, <4>1, <4>2
    <3>6. \A q \in 0 .. n.cursor :
            \/ Superseded(n, q) \/ q \in n.lost \/ \E i \in 1 .. Len(C) : C[i].seq = q
      <4> SUFFICES ASSUME NEW q \in 0 .. n.cursor
                   PROVE  \/ Superseded(n, q) \/ q \in n.lost
                          \/ \E i \in 1 .. Len(C) : C[i].seq = q
        OBVIOUS
      <4>1. CASE q = m.seq
        <5>1. C[Len(B) + 1].seq = q /\ Len(B) + 1 \in 1 .. Len(C)
          BY <1>1, <1>5, <2>2, <4>1
        <5> QED
          BY <5>1
      <4>2. CASE q # m.seq /\ r.cursor = None
        BY <1>1, <1>2, <2>2, <4>2
      <4>3. CASE q # m.seq /\ r.cursor # None
        <5>1. q \in 0 .. r.cursor
          BY <1>1, <1>2, <1>4, <4>3
        <5>2. Superseded(r, q) \/ q \in r.lost \/ \E i \in 1 .. Len(B) : B[i].seq = q
          BY <1>3, <5>1 DEF GoodBlocks, B
        <5>3. CASE Superseded(r, q)
          <6>1. B # << >> /\ B[1].op = "clear" /\ q < B[1].seq
            BY <5>3 DEF Superseded, B
          <6>2. C[1] = B[1]
            BY <1>5, <2>2, <6>1
          <6> QED
            BY <1>5, <6>1, <6>2 DEF Superseded, C
        <5>4. CASE \E i \in 1 .. Len(B) : B[i].seq = q
          <6>1. PICK i \in 1 .. Len(B) : B[i].seq = q
            BY <5>4
          <6>2. i \in 1 .. Len(C) /\ C[i].seq = q
            BY <1>5, <2>2, <6>1
          <6> QED
            BY <6>2
        <5> QED
          BY <1>2, <2>2, <4>3, <5>2, <5>3, <5>4
      <4> QED
        BY <4>1, <4>2, <4>3
    <3> QED
      BY <1>1, <1>2, <1>4, <3>1, <3>2, <3>5, <3>6 DEF GoodBlocks, C
  <2> QED
    BY <2>1, <2>2
<1>7. GoodWindow(n)
  <2> DEFINE w == r.window
             v == n.window
  <2>1. w.first <= w.next /\ (IsEmpty(w) \/ m.seq = w.next)
    BY <1>3, <1>4 DEF GoodBlocks, GoodWindow, EmptyWindow, IsEmpty
  <2>2. \A x \in w.batches : x.seq >= w.first /\ x.seq < w.next
    BY <1>3 DEF GoodWindow
  <2>3. \A x \in {b} : x.seq >= m.seq /\ x.seq <= m.seq
    BY <1>1
  <2>4. {b} \in SUBSET Batch
    BY <1>1
  <2>5. /\ v.next = m.seq + 1 /\ v.first < v.next /\ v.next - v.first <= HistorySize
        /\ ~IsEmpty(w) => v.first >= w.first
        /\ v.batches = {x \in w.batches \cup {b} : x.seq >= v.first}
        /\ \A x \in v.batches : x.seq >= v.first /\ x.seq < v.next
        /\ \A x \in v.batches : x = b \/ (x \in w.batches /\ x.seq < m.seq)
        /\ v \in Window
    <3> HIDE DEF w
    <3>1. w \in Window /\ v = Push(w, m.seq, m.seq, {b})
      BY <1>2, <1>4 DEF w
    <3>2. LET u == Push(w, m.seq, m.seq, {b})
          IN /\ u.next = m.seq + 1 /\ u.first < u.next /\ u.next - u.first <= HistorySize
             /\ ~IsEmpty(w) => u.first >= w.first
             /\ u.batches = {x \in w.batches \cup {b} : x.seq >= u.first}
             /\ \A x \in u.batches : x.seq >= u.first /\ x.seq < u.next
             /\ \A x \in u.batches : x \in {b} \/ (x \in w.batches /\ x.seq < m.seq)
             /\ u \in Window
      BY <1>1, <2>1, <2>2, <2>3, <2>4, <3>1, PushFacts
    <3> HIDE DEF v
    <3> QED
      BY <3>1, <3>2
  <2>6. v.first \in Nat /\ v.next \in Nat
    BY <2>5 DEF Window
  <2>7. \A x \in v.batches : x.gen = n.gen /\ InRecord(n, x)
    <3> SUFFICES ASSUME NEW x \in v.batches PROVE x.gen = n.gen /\ InRecord(n, x)
      OBVIOUS
    <3>1. CASE x = b
      <4>1. C[Len(C)] = b /\ Len(C) \in 1 .. Len(C)
        BY <1>5
      <4> QED
        BY <1>1, <1>2, <3>1, <4>1 DEF InRecord, C
    <3>2. CASE x \in w.batches /\ x.seq < m.seq
      <4>1. x.gen = r.gen /\ InRecord(r, x) /\ x \in Batch
        BY <1>3, <1>4, <3>2 DEF GoodWindow, Window
      <4>2. CASE b.op = "clear"
        <5>1. Superseded(n, x.seq)
          BY <1>1, <1>5, <3>2, <4>2 DEF Superseded, C
        <5> QED
          BY <1>2, <4>1, <5>1 DEF InRecord
      <4>3. CASE b.op # "clear"
        <5>1. CASE Superseded(r, x.seq)
          <6>1. B # << >> /\ B[1].op = "clear" /\ x.seq < B[1].seq
            BY <5>1 DEF Superseded, B
          <6>2. C[1] = B[1]
            BY <1>5, <4>3, <6>1
          <6>3. Superseded(n, x.seq)
            BY <1>5, <6>1, <6>2 DEF Superseded, C
          <6> QED
            BY <1>2, <4>1, <6>3 DEF InRecord
        <5>2. CASE \E i \in 1 .. Len(B) : B[i] = x
          <6>1. PICK i \in 1 .. Len(B) : B[i] = x
            BY <5>2
          <6>2. i \in 1 .. Len(C) /\ C[i] = x
            BY <1>5, <4>3, <6>1
          <6> QED
            BY <1>2, <4>1, <6>2 DEF InRecord, C
        <5> QED
          BY <4>1, <5>1, <5>2 DEF InRecord, B
      <4> QED
        BY <4>2, <4>3
    <3> QED
      BY <2>5, <3>1, <3>2
  <2>8. \A x, y \in v.batches : x.seq = y.seq => x = y
    <3>1. \A x, y \in w.batches : x.seq = y.seq => x = y
      BY <1>3 DEF GoodWindow
    <3>2. \A x \in v.batches : x.seq = m.seq => x = b
      <4> SUFFICES ASSUME NEW x \in v.batches, x.seq = m.seq, x # b PROVE FALSE
        OBVIOUS
      <4>1. x.seq < m.seq
        BY <2>5
      <4> QED
        BY <1>1, <4>1
    <3>3. \A x \in v.batches : x = b \/ x \in w.batches
      BY <2>5
    <3> HIDE DEF v, w
    <3> QED
      BY <1>1, <3>1, <3>2, <3>3
  <2>9. \A i \in 1 .. Len(C) : C[i].seq >= v.first => C[i] \in v.batches
    <3> SUFFICES ASSUME NEW i \in 1 .. Len(C), C[i].seq >= v.first PROVE C[i] \in v.batches
      OBVIOUS
    <3>1. CASE C[i] = b
      BY <2>5, <3>1
    <3>2. CASE C[i] # b
      <4>1. b.op # "clear" /\ i \in 1 .. Len(B) /\ C[i] = B[i]
        BY <1>5, <3>2
      <4>2. ~IsEmpty(w)
        <5>1. r.cursor # None
          BY <1>3, <1>5, <4>1 DEF GoodBlocks, B
        <5> QED
          BY <1>3, <5>1 DEF GoodWindow
      <4>3. B[i].seq \in Nat /\ B[i].seq >= w.first
        <5>1. w.first \in Nat
          BY <1>4 DEF Window
        <5>2. B[i].seq \in Nat /\ v.first >= w.first
          BY <1>5, <2>5, <4>1, <4>2
        <5>3. B[i].seq >= v.first
          BY <4>1
        <5> HIDE DEF v, w
        <5> QED
          BY <2>6, <5>1, <5>2, <5>3
      <4>4. B[i] \in w.batches
        BY <1>3, <4>1, <4>3 DEF GoodWindow, B
      <4> QED
        BY <2>5, <4>1, <4>4
    <3> QED
      BY <3>1, <3>2
  <2>10. n.cursor # None => ~IsEmpty(v) /\ v.next = n.cursor + 1
    BY <1>2, <2>5, <2>6 DEF IsEmpty
  <2> QED
    BY <2>5, <2>6, <2>7, <2>8, <2>9, <2>10 DEF GoodWindow, C
<1> QED
  BY <1>6, <1>7 DEF GoodRecord, n

LEMMA LoseFields ==
  ASSUME NEW r \in RankRecord, NEW from \in Nat, NEW to \in Nat
  PROVE  /\ Lose(r, from, to) \in RankRecord /\ Lose(r, from, to).cursor = to
         /\ Lose(r, from, to).gen = r.gen /\ Lose(r, from, to).blocks = r.blocks
         /\ Lose(r, from, to).window = Push(r.window, from, to, {})
         /\ Lose(r, from, to).lost = r.lost \cup from .. to
<1>1. Lose(r, from, to) \in RankRecord
  BY LoseType
<1> QED
  BY <1>1 DEF Lose, RankRecord

(* Passing sequences as lost keeps a good record.                          *)
LEMMA LoseGood ==
  ASSUME NEW r \in RankRecord, GoodRecord(r), NEW from \in Nat, NEW to \in Nat,
         r.cursor = from - 1, from <= to
  PROVE  GoodRecord(Lose(r, from, to))
<1> DEFINE n == Lose(r, from, to)
<1>1. /\ n \in RankRecord /\ n.cursor = to /\ n.gen = r.gen /\ n.blocks = r.blocks
      /\ n.window = Push(r.window, from, to, {}) /\ n.lost = r.lost \cup from .. to
  BY LoseFields
<1>2. GoodBlocks(r) /\ GoodWindow(r)
  BY DEF GoodRecord
<1>3. /\ r.blocks \in Seq(Batch) /\ r.window \in Window /\ r.lost \in SUBSET Nat
      /\ r.cursor \in Int /\ r.cursor < to /\ to # None
  BY DEF RankRecord, None
<1>4. \A i \in 1 .. Len(r.blocks) : r.blocks[i] \in Batch /\ r.blocks[i].seq \in Nat
  BY <1>3, ElementOfSeq, BatchFacts
<1> HIDE DEF n
<1>5. \A q : Superseded(n, q) <=> Superseded(r, q)
  BY <1>1 DEF Superseded
<1>6. \A x : InRecord(n, x) <=> InRecord(r, x)
  BY <1>1, <1>5 DEF InRecord
<1>7. GoodBlocks(n)
  <2>1. \A i \in 1 .. Len(r.blocks) : r.blocks[i].seq <= r.cursor /\ r.blocks[i].seq \notin r.lost
    BY <1>2 DEF GoodBlocks
  <2>2. \A i \in 1 .. Len(r.blocks) : r.blocks[i].seq <= to /\ r.blocks[i].seq \notin n.lost
    BY <1>1, <1>3, <1>4, <2>1
  <2>3. \A q \in n.lost : q <= to
    BY <1>1, <1>2, <1>3 DEF GoodBlocks
  <2>4. \A q \in 0 .. to : \/ Superseded(n, q) \/ q \in n.lost
                           \/ \E i \in 1 .. Len(r.blocks) : r.blocks[i].seq = q
    <3> SUFFICES ASSUME NEW q \in 0 .. to
                 PROVE  \/ Superseded(n, q) \/ q \in n.lost
                        \/ \E i \in 1 .. Len(r.blocks) : r.blocks[i].seq = q
      OBVIOUS
    <3>1. CASE q \in 0 .. r.cursor
      BY <1>1, <1>2, <1>5, <3>1 DEF GoodBlocks
    <3>2. CASE q \notin 0 .. r.cursor
      BY <1>1, <1>3, <3>2
    <3> QED
      BY <3>1, <3>2
  <2> QED
    BY <1>1, <1>2, <1>3, <2>2, <2>3, <2>4 DEF GoodBlocks
<1>8. GoodWindow(n)
  <2> DEFINE w == r.window
             v == n.window
  <2>1. w.first <= w.next /\ (IsEmpty(w) \/ from = w.next)
    BY <1>2, <1>3 DEF GoodBlocks, GoodWindow, EmptyWindow, IsEmpty
  <2>2. \A x \in w.batches : x.seq >= w.first /\ x.seq < w.next
    BY <1>2 DEF GoodWindow
  <2>3. /\ v.next = to + 1 /\ v.first < v.next /\ v.next - v.first <= HistorySize
        /\ ~IsEmpty(w) => v.first >= w.first
        /\ v.batches = {x \in w.batches \cup {} : x.seq >= v.first}
        /\ \A x \in v.batches : x.seq >= v.first /\ x.seq < v.next
        /\ v \in Window
    <3> HIDE DEF w
    <3>1. w \in Window /\ v = Push(w, from, to, {}) /\ {} \in SUBSET Batch
      BY <1>1, <1>3 DEF w
    <3>2. LET u == Push(w, from, to, {})
          IN /\ u.next = to + 1 /\ u.first < u.next /\ u.next - u.first <= HistorySize
             /\ ~IsEmpty(w) => u.first >= w.first
             /\ u.batches = {x \in w.batches \cup {} : x.seq >= u.first}
             /\ \A x \in u.batches : x.seq >= u.first /\ x.seq < u.next
             /\ u \in Window
      BY <2>1, <2>2, <3>1, PushFacts
    <3> HIDE DEF v
    <3> QED
      BY <3>1, <3>2
  <2>4. v.first \in Nat /\ v.next \in Nat /\ w.first \in Nat
    BY <1>3, <2>3 DEF Window
  <2>5. \A x \in v.batches : x.gen = n.gen /\ InRecord(n, x) /\ x \in w.batches
    BY <1>1, <1>2, <1>6, <2>3 DEF GoodWindow
  <2>6. \A x, y \in v.batches : x.seq = y.seq => x = y
    BY <1>2, <2>5 DEF GoodWindow
  <2>7. \A i \in 1 .. Len(r.blocks) : r.blocks[i].seq >= v.first => r.blocks[i] \in v.batches
    <3> SUFFICES ASSUME NEW i \in 1 .. Len(r.blocks), r.blocks[i].seq >= v.first
                 PROVE  r.blocks[i] \in v.batches
      OBVIOUS
    <3>1. ~IsEmpty(w)
      <4>1. r.cursor # None
        BY <1>2, <1>3 DEF GoodBlocks
      <4> QED
        BY <1>2, <4>1 DEF GoodWindow
    <3>2. v.first >= w.first /\ r.blocks[i].seq \in Nat
      BY <1>4, <2>3, <3>1
    <3>3. r.blocks[i].seq >= w.first
      <4> HIDE DEF v, w
      <4> QED
        BY <2>4, <3>2
    <3>4. r.blocks[i] \in w.batches
      BY <1>2, <3>3 DEF GoodWindow
    <3> QED
      BY <2>3, <3>4
  <2>8. n.cursor # None => ~IsEmpty(v) /\ v.next = n.cursor + 1
    BY <1>1, <2>3, <2>4 DEF IsEmpty
  <2> QED
    BY <1>1, <2>3, <2>4, <2>5, <2>6, <2>7, <2>8 DEF GoodWindow
<1> QED
  BY <1>7, <1>8 DEF GoodRecord, n

LEMMA NewRecordGood == \A g \in Nat : GoodRecord(NewRecord(g))
<1> SUFFICES ASSUME NEW g \in Nat PROVE GoodRecord(NewRecord(g))
  OBVIOUS
<1> DEFINE r == NewRecord(g)
<1>1. /\ r.cursor = None /\ r.window = EmptyWindow /\ r.blocks = << >> /\ r.lost = {}
      /\ Len(r.blocks) = 0
  BY DEF NewRecord
<1>2. r.window.first = 0 /\ r.window.next = 0 /\ r.window.batches = {}
  BY <1>1 DEF EmptyWindow
<1> HIDE DEF r
<1>3. GoodBlocks(r)
  BY <1>1 DEF GoodBlocks, None
<1>4. GoodWindow(r)
  BY <1>1, <1>2, Constants DEF GoodWindow
<1> QED
  BY <1>3, <1>4 DEF GoodRecord, r

-------------------------------------------------------------------------------
(* The relay's task.  Whatever it is about to relay or to pass as lost     *)
(* goes on where the record ends.                                          *)

GoodFill(f) ==
  /\ \A b \in f.replies : b.seq >= f.expected
  /\ \A b, c \in f.replies : b.seq = c.seq => b = c
  /\ \/ rec.cursor = f.expected - 1
     \/ rec.cursor = None /\ \E b \in f.replies : b.seq = f.expected

LogInv == \A i \in 1 .. Len(log) : log[i].seq = i - 1 /\ log[i].life = life

JobInv ==
  /\ job.pc = "ask" => rec.cursor = job.from - 1 /\ job.from < job.msg.seq
  /\ job.pc = "announce" => rec.cursor = None
  /\ job.pc = "send" => /\ rec.cursor = job.batch.seq /\ job.batch.gen = rec.gen
                        /\ rec.blocks # << >> /\ job.batch = rec.blocks[Len(rec.blocks)]
                        /\ job.next.pc = "fill" => GoodFill(job.next)
  /\ job.pc = "fill" => GoodFill(job)
  /\ ~prime.done => rec.cursor = None
  /\ job.pc # "recv" => prime.done

RelayInv == LogInv /\ GoodRecord(rec) /\ JobInv

(* What a step of the task does to the record: it leaves the blocks, or    *)
(* adds one batch and goes on to send it, or starts over and goes on to    *)
(* announce it.                                                            *)
Between == job.pc \notin {"send", "announce"}

Steady ==
  /\ Between /\ job'.pc \notin {"send", "announce"}
  /\ rec'.blocks = rec.blocks /\ rec'.gen = rec.gen /\ rec'.cursor >= rec.cursor

Recorded(b) ==
  /\ Between /\ job'.pc = "send" /\ job'.batch = b
  /\ b.gen = rec.gen /\ b.seq > rec.cursor
  /\ rec'.cursor = b.seq /\ rec'.gen = rec.gen /\ rec'.blocks = Apply(rec.blocks, b)

StartedOver == Between /\ job'.pc = "announce" /\ rec' = NewRecord(rec.gen + 1)

RelayEffect ==
  GoodRecord(rec') /\ (Steady \/ (\E b \in Batch : Recorded(b)) \/ StartedOver)

LEMMA InitRelay == Init => RelayInv
<1> SUFFICES ASSUME Init PROVE RelayInv
  OBVIOUS
<1>1. LogInv
  BY DEF Init, LogInv
<1>2. GoodRecord(rec)
  BY NewRecordGood DEF Init
<1>3. JobInv
  BY DEF Init, JobInv, Idle, NewRecord
<1> QED
  BY <1>1, <1>2, <1>3 DEF RelayInv

LEMMA RelayGood ==
  ASSUME Types, RelayInv, Between, NEW m \in Batch, NEW next \in {Idle} \cup FillJob,
         Relay(m, next), rec.cursor = None \/ m.seq = rec.cursor + 1,
         next.pc = "fill" =>
           /\ next.expected = m.seq + 1
           /\ \A b \in next.replies : b.seq > m.seq
           /\ \A b, c \in next.replies : b.seq = c.seq => b = c,
         prime'.done
  PROVE  JobInv' /\ RelayEffect
<1> DEFINE b == [m EXCEPT !.gen = rec.gen]
<1>0. rec \in RankRecord /\ rec.gen \in Nat /\ GoodRecord(rec) /\ rec.cursor \in Nat \cup {None}
  BY DEF Types, RelayInv, RankRecord
<1>1. rec' = Record(rec, m) /\ job' = [pc |-> "send", batch |-> b, next |-> next]
  BY DEF Relay
<1>2. b \in Batch /\ b.seq = m.seq /\ b.gen = rec.gen /\ m.seq \in Nat
  BY <1>0, StampedFacts, BatchFacts
<1>3. /\ rec' \in RankRecord /\ rec'.cursor = m.seq /\ rec'.gen = rec.gen
      /\ rec'.blocks = Apply(rec.blocks, b)
  BY <1>0, <1>1, RecordFields
<1>4. GoodRecord(rec')
  BY <1>0, <1>1, RecordGood
<1>5. job'.pc = "send" /\ job'.batch = b /\ job'.next = next
  BY <1>1
<1>6. m.seq > rec.cursor /\ m.seq # None
  BY <1>0, <1>2 DEF None
<1> HIDE DEF b
<1>7. Recorded(b)
  BY <1>2, <1>3, <1>5, <1>6 DEF Recorded
<1>8. /\ rec'.blocks # << >> /\ rec'.blocks[Len(rec'.blocks)] = b
  <2>1. rec.blocks \in Seq(Batch) /\ rec'.blocks \in Seq(Batch)
    BY <1>0, <1>3 DEF RankRecord
  <2>2. rec'.blocks[Len(rec'.blocks)] = b /\ Len(rec'.blocks) # 0
    BY <1>2, <1>3, <2>1, ApplyFacts
  <2> QED
    BY <2>1, <2>2
<1>9. next.pc = "fill" => GoodFill(next)'
  <2> SUFFICES ASSUME next.pc = "fill" PROVE GoodFill(next)'
    OBVIOUS
  <2>1. next \in FillJob
    BY DEF Idle
  <2>2. next.expected \in Nat /\ \A c \in next.replies : c.seq \in Nat
    BY <2>1, FillFields, BatchFacts
  <2> QED
    BY <1>2, <1>3, <2>2 DEF GoodFill
<1>10. JobInv'
  BY <1>2, <1>3, <1>5, <1>6, <1>8, <1>9 DEF JobInv
<1> QED
  BY <1>2, <1>4, <1>7, <1>10 DEF RelayEffect

LEMMA DeclareRestartGood ==
  ASSUME Types, RelayInv, Between, NEW m \in Batch, DeclareRestart(m), prime'.done
  PROVE  JobInv' /\ RelayEffect
<1>1. rec' = NewRecord(rec.gen + 1) /\ job' = [pc |-> "announce", msg |-> m]
  BY DEF DeclareRestart, RestartRank
<1>2. rec.gen + 1 \in Nat
  BY DEF Types, RankRecord
<1>3. GoodRecord(rec')
  BY <1>1, <1>2, NewRecordGood
<1>4. job'.pc = "announce" /\ rec'.cursor = None
  BY <1>1 DEF NewRecord
<1>5. JobInv'
  BY <1>4 DEF JobInv
<1> QED
  BY <1>1, <1>3, <1>4, <1>5 DEF RelayEffect, StartedOver

(* A step of the task that leaves the record as it is.                     *)
LEMMA RecordUnchanged ==
  ASSUME Types, RelayInv, UNCHANGED rec, Between, job'.pc \notin {"send", "announce"}
  PROVE  RelayEffect
<1>1. rec.cursor >= rec.cursor
  BY DEF Types, RankRecord, None
<1> QED
  BY <1>1 DEF RelayInv, RelayEffect, Steady

LEMMA AdmitFacts ==
  ASSUME NEW r \in RankRecord, NEW m \in Batch
  PROVE  /\ Admit(r, m) = "accept" => r.cursor = None \/ m.seq = r.cursor + 1
         /\ Admit(r, m) = "gap" => r.cursor # None /\ m.seq > r.cursor + 1
  BY DEF Admit

LEMMA ReceiveGood ==
  ASSUME Types, RelayInv, Receive
  PROVE  JobInv' /\ RelayEffect
<1> DEFINE m == Head(socket)
<1>0. /\ rec \in RankRecord /\ job.pc = "recv" /\ prime'.done /\ JobInv
      /\ rec.cursor \in Nat \cup {None}
  BY DEF Receive, Types, RelayInv, RankRecord
<1>1. m \in Batch /\ m.seq \in Nat
  <2>1. m \in Batch
    BY DEF Receive, Types
  <2> QED
    BY <2>1, BatchFacts
<1>2. Between
  BY <1>0 DEF Between
<1> HIDE DEF m
<1>3. CASE rec.cursor = None /\ JoinedLate(m) /\ job' = Ask(m, 0, "admit") /\ UNCHANGED rec
  <2>1. job'.pc = "ask" /\ job'.from = 0 /\ job'.msg = m
    BY <1>3 DEF Ask
  <2>2. 0 < m.seq /\ rec.cursor = 0 - 1
    BY <1>1, <1>3 DEF JoinedLate, None
  <2>3. JobInv'
    BY <1>0, <1>3, <2>1, <2>2 DEF JobInv
  <2> QED
    BY <1>2, <1>3, <2>1, <2>3, RecordUnchanged
<1>4. CASE Admit(rec, m) = "gap" /\ job' = Ask(m, rec.cursor + 1, "admit") /\ UNCHANGED rec
  <2>1. job'.pc = "ask" /\ job'.from = rec.cursor + 1 /\ job'.msg = m
    BY <1>4 DEF Ask
  <2>2. rec.cursor + 1 < m.seq /\ rec.cursor \in Nat
    BY <1>0, <1>1, <1>4, AdmitFacts
  <2>3. rec.cursor = (rec.cursor + 1) - 1
    BY <2>2
  <2>4. JobInv'
    BY <1>0, <1>4, <2>1, <2>2, <2>3 DEF JobInv
  <2> QED
    BY <1>2, <1>4, <2>1, <2>4, RecordUnchanged
<1>5. CASE DeclareRestart(m)
  BY <1>0, <1>1, <1>2, <1>5, DeclareRestartGood
<1>6. CASE UNCHANGED <<rec, job>>
  <2>1. JobInv'
    BY <1>0, <1>6 DEF JobInv
  <2> QED
    BY <1>0, <1>2, <1>6, <2>1, RecordUnchanged
<1>7. CASE Admit(rec, m) = "accept" /\ Relay(m, Idle)
  <2>1. rec.cursor = None \/ m.seq = rec.cursor + 1
    BY <1>0, <1>1, <1>7, AdmitFacts
  <2>2. Idle \in {Idle} \cup FillJob /\ Idle.pc # "fill"
    BY DEF Idle
  <2> QED
    BY <1>0, <1>1, <1>2, <1>7, <2>1, <2>2, RelayGood
<1> QED
  BY <1>3, <1>4, <1>5, <1>6, <1>7 DEF Receive, m

(* What the replay answers is good to fill from where it was asked.        *)
LEMMA BufferedGood ==
  ASSUME Types, LogInv, NEW from \in Nat, NEW replies \in Buffered(from)
  PROVE  /\ \A b \in replies : b.seq \in Nat /\ b.seq >= from
         /\ \A b, c \in replies : b.seq = c.seq => b = c
<1>1. \A b \in replies : \E i \in 1 .. Len(log) : b = log[i] /\ i > from
  BY BufferedFacts
<1>2. \A i \in 1 .. Len(log) : log[i].seq = i - 1
  BY DEF LogInv
<1>3. \A b \in replies : b.seq \in Nat /\ b.seq >= from
  BY <1>1, <1>2
<1>4. ASSUME NEW b \in replies, NEW c \in replies, b.seq = c.seq
      PROVE  b = c
  <2>1. PICK i \in 1 .. Len(log) : b = log[i]
    BY <1>1
  <2>2. PICK j \in 1 .. Len(log) : c = log[j]
    BY <1>1
  <2>3. i - 1 = j - 1
    BY <1>2, <1>4, <2>1, <2>2
  <2>4. i = j
    BY <2>3
  <2> QED
    BY <2>1, <2>2, <2>4
<1> QED
  BY <1>3, <1>4

LEMMA AnswerGood ==
  ASSUME Types, RelayInv, Answer
  PROVE  JobInv' /\ RelayEffect
<1>1. /\ job.pc = "ask" /\ job.msg \in Batch /\ job.from \in Nat /\ prime.done /\ JobInv
      /\ rec.cursor = job.from - 1 /\ LogInv /\ UNCHANGED <<rec, prime>>
  BY JobFields DEF Answer, Types, RelayInv, JobInv
<1>2. PICK replies \in Buffered(job.from) :
        job' = Fill(job.msg, job.then, replies, job.from, job.msg.seq - 1)
  BY DEF Answer
<1>3. job'.pc = "fill" /\ job'.replies = replies /\ job'.expected = job.from
  BY <1>2 DEF Fill
<1>4. /\ \A b \in replies : b.seq >= job.from
      /\ \A b, c \in replies : b.seq = c.seq => b = c
  BY <1>1, <1>2, BufferedGood
<1>5. GoodFill(job)'
  BY <1>1, <1>3, <1>4 DEF GoodFill
<1>6. JobInv'
  BY <1>1, <1>3, <1>5 DEF JobInv
<1>7. Between
  BY <1>1 DEF Between
<1> QED
  BY <1>1, <1>3, <1>6, <1>7, RecordUnchanged

LEMMA LoseKeeps ==
  \A r \in RankRecord, from, to \in Nat :
    /\ Lose(r, from, to).cursor = to /\ Lose(r, from, to).gen = r.gen
    /\ Lose(r, from, to).blocks = r.blocks
  BY DEF Lose, RankRecord

(* Passing a hole leaves the blocks.                                       *)
LEMMA LoseEffect ==
  ASSUME Types, RelayInv, Between, NEW from \in Nat, NEW to \in Nat, from <= to,
         rec.cursor = from - 1, rec' = Lose(rec, from, to), job'.pc \notin {"send", "announce"}
  PROVE  RelayEffect /\ rec'.cursor = to
<1>1. rec \in RankRecord /\ GoodRecord(rec)
  BY DEF Types, RelayInv
<1>2. GoodRecord(rec')
  BY <1>1, LoseGood
<1> DEFINE n == Lose(rec, from, to)
<1>3. n.cursor = to /\ n.gen = rec.gen /\ n.blocks = rec.blocks /\ rec' = n
  BY <1>1, LoseKeeps, Zenon
<1> HIDE DEF n
<1>4. rec'.cursor = to /\ to >= rec.cursor /\ rec'.gen = rec.gen /\ rec'.blocks = rec.blocks
  BY <1>3
<1>5. Steady
  BY <1>4 DEF Steady
<1> QED
  BY <1>2, <1>4, <1>5 DEF RelayEffect

LEMMA FillNextGood ==
  ASSUME Types, RelayInv, FillNext
  PROVE  JobInv' /\ RelayEffect
<1>0. /\ rec \in RankRecord /\ job.pc = "fill" /\ prime.done /\ prime' = prime /\ GoodFill(job)
      /\ job \in FillJob /\ Between
  BY JobFields DEF FillNext, Types, RelayInv, JobInv, Between
<1>1. /\ job.msg \in Batch /\ job.then \in {"admit", "restarted", "recv"}
      /\ job.replies \in SUBSET Batch /\ job.expected \in Nat /\ job.to \in Int
  BY <1>0, FillFields
<1>2. \A b \in job.replies : b \in Batch /\ b.seq \in Nat
  BY <1>1, BatchFacts
<1>3. /\ \A b \in job.replies : b.seq >= job.expected
      /\ \A b, c \in job.replies : b.seq = c.seq => b = c
      /\ \/ rec.cursor = job.expected - 1
         \/ rec.cursor = None /\ \E b \in job.replies : b.seq = job.expected
  BY <1>0 DEF GoodFill
<1>4. ASSUME NEW b \in job.replies, IsFirst(b, job.replies), job.expected < b.seq,
             rec' = Lose(rec, job.expected, b.seq - 1),
             job' = Fill(job.msg, job.then, job.replies, b.seq, job.to)
      PROVE  JobInv' /\ RelayEffect
  <2>1. \A c \in job.replies : b.seq <= c.seq
    BY <1>4 DEF IsFirst
  <2>2. rec.cursor = job.expected - 1
    BY <1>1, <1>2, <1>3, <1>4, <2>1
  <2>3. job'.pc = "fill" /\ job'.replies = job.replies /\ job'.expected = b.seq
    BY <1>4 DEF Fill
  <2>4. b.seq - 1 \in Nat /\ job.expected <= b.seq - 1
    BY <1>1, <1>2, <1>4
  <2>5. RelayEffect /\ rec'.cursor = b.seq - 1
    BY <1>0, <1>1, <1>4, <2>2, <2>3, <2>4, LoseEffect
  <2>6. GoodFill(job)'
    BY <1>2, <1>3, <2>1, <2>3, <2>5 DEF GoodFill
  <2>7. JobInv'
    BY <1>0, <2>3, <2>6 DEF JobInv
  <2> QED
    BY <2>5, <2>7
<1>5. ASSUME NEW b \in job.replies, IsFirst(b, job.replies), ~(job.expected < b.seq),
             Relay(b, Fill(job.msg, job.then, job.replies \ {b}, b.seq + 1, job.to))
      PROVE  JobInv' /\ RelayEffect
  <2> DEFINE next == Fill(job.msg, job.then, job.replies \ {b}, b.seq + 1, job.to)
  <2>1. \A c \in job.replies : b.seq <= c.seq
    BY <1>5 DEF IsFirst
  <2>2. b.seq = job.expected
    BY <1>1, <1>2, <1>3, <1>5
  <2>3. rec.cursor = None \/ b.seq = rec.cursor + 1
    BY <1>1, <1>3, <2>2
  <2>4. job.replies \ {b} \in SUBSET Batch /\ b.seq + 1 \in Nat
    BY <1>1, <1>2
  <2>5. next \in FillJob
    BY <1>1, <2>4, JobTypes
  <2>6. next.expected = b.seq + 1 /\ next.replies = job.replies \ {b}
    BY DEF Fill
  <2>7. \A c \in job.replies \ {b} : c.seq > b.seq
    BY <1>2, <1>3, <2>1
  <2> HIDE DEF next
  <2>8. Relay(b, next) /\ prime'.done
    BY <1>0, <1>5 DEF next
  <2>9. /\ \A c \in next.replies : c.seq > b.seq
        /\ \A c, d \in next.replies : c.seq = d.seq => c = d
    BY <1>3, <2>6, <2>7
  <2> QED
    BY <1>0, <1>2, <2>3, <2>5, <2>6, <2>8, <2>9, RelayGood
<1>6. CASE /\ job.replies = {} /\ job.expected <= job.to
           /\ rec' = Lose(rec, job.expected, job.to)
           /\ job' = Fill(job.msg, job.then, {}, job.to + 1, job.to)
  <2>1. rec.cursor = job.expected - 1 /\ job.to \in Nat
    BY <1>1, <1>3, <1>6
  <2>2. job'.pc = "fill" /\ job'.replies = {} /\ job'.expected = job.to + 1
    BY <1>6 DEF Fill
  <2>3. RelayEffect /\ rec'.cursor = job.to
    BY <1>0, <1>1, <1>6, <2>1, <2>2, LoseEffect
  <2>4. job.to = (job.to + 1) - 1
    BY <2>1
  <2>5. GoodFill(job)'
    BY <2>2, <2>3, <2>4 DEF GoodFill
  <2>6. JobInv'
    BY <1>0, <2>2, <2>5 DEF JobInv
  <2> QED
    BY <2>3, <2>6
<1> QED
  BY <1>4, <1>5, <1>6 DEF FillNext

LEMMA ReadmitGood ==
  ASSUME Types, RelayInv, Readmit
  PROVE  JobInv' /\ RelayEffect
<1>0. /\ rec \in RankRecord /\ job.pc = "fill" /\ prime.done /\ prime' = prime
      /\ job \in FillJob /\ Between
  BY JobFields DEF Readmit, Types, RelayInv, JobInv, Between
<1>1. job.msg \in Batch
  BY <1>0, FillFields
<1>2. CASE Admit(rec, job.msg) = "accept" /\ Relay(job.msg, Idle)
  <2>1. rec.cursor = None \/ job.msg.seq = rec.cursor + 1
    BY <1>0, <1>1, <1>2, AdmitFacts
  <2>2. Idle \in {Idle} \cup FillJob /\ Idle.pc # "fill"
    BY DEF Idle
  <2> QED
    BY <1>0, <1>1, <1>2, <2>1, <2>2, RelayGood
<1>3. CASE DeclareRestart(job.msg)
  BY <1>0, <1>1, <1>3, DeclareRestartGood
<1>4. CASE job' = Idle /\ UNCHANGED rec
  <2>1. job'.pc = "recv"
    BY <1>4 DEF Idle
  <2>2. JobInv'
    BY <1>0, <2>1 DEF JobInv
  <2> QED
    BY <1>0, <1>4, <2>1, <2>2, RecordUnchanged
<1> QED
  BY <1>2, <1>3, <1>4 DEF Readmit

LEMMA PrimeFromReplayGood ==
  ASSUME Types, RelayInv, PrimeFromReplay
  PROVE  JobInv' /\ RelayEffect
<1>0. /\ job.pc = "recv" /\ rec.cursor = None /\ prime'.done /\ UNCHANGED rec /\ Between
      /\ LogInv /\ JobInv
  BY DEF PrimeFromReplay, RelayInv, JobInv, Between, Types
<1>1. CASE UNCHANGED job
  <2>1. JobInv'
    BY <1>0, <1>1 DEF JobInv
  <2> QED
    BY <1>0, <1>1, <2>1, RecordUnchanged
<1>2. ASSUME NEW replies \in Buffered(0), NEW b \in replies, IsFirst(b, replies),
             job' = Fill(b, "recv", replies, IF b.seq <= 1 THEN b.seq ELSE 0, None)
      PROVE  JobInv' /\ RelayEffect
  <2> DEFINE e == IF b.seq <= 1 THEN b.seq ELSE 0
  <2>1. job'.pc = "fill" /\ job'.replies = replies /\ job'.expected = e
    BY <1>2 DEF Fill
  <2>2. /\ \A c \in replies : c.seq \in Nat
        /\ \A c, d \in replies : c.seq = d.seq => c = d
    BY <1>0, BufferedGood
  <2>3. \A c \in replies : b.seq <= c.seq
    BY <1>2 DEF IsFirst
  <2>4. b.seq \in Nat /\ e \in Nat /\ e <= b.seq /\ (e = 0 \/ e = b.seq)
    BY <2>2
  <2> HIDE DEF e
  <2>5. \A c \in replies : c.seq >= e
    BY <2>2, <2>3, <2>4
  <2>6. rec'.cursor = e - 1 \/ (rec'.cursor = None /\ \E c \in replies : c.seq = e)
    BY <1>0, <2>4 DEF None
  <2>7. GoodFill(job)'
    BY <2>1, <2>2, <2>5, <2>6 DEF GoodFill
  <2>8. JobInv'
    BY <1>0, <2>1, <2>7 DEF JobInv
  <2> QED
    BY <1>0, <2>1, <2>8, RecordUnchanged
<1> QED
  BY <1>1, <1>2 DEF PrimeFromReplay

(* The steps of the task before it sends or announces.                     *)
RelayStep == Receive \/ Answer \/ FillNext \/ Readmit \/ PrimeFromReplay

LEMMA RelayStepGood ==
  ASSUME Types, RelayInv, RelayStep
  PROVE  JobInv' /\ RelayEffect /\ UNCHANGED <<sub, gw, breaks>>
<1>1. UNCHANGED <<sub, gw, breaks>>
  BY DEF RelayStep, Receive, Answer, FillNext, Readmit, PrimeFromReplay
<1> QED
  BY <1>1, ReceiveGood, AnswerGood, FillNextGood, ReadmitGood, PrimeFromReplayGood DEF RelayStep

(* The steps of the streams leave the record and the task.                 *)
StreamStep ==
  \/ Subscribe \/ Serve \/ DeliverChunk \/ DeliverReplay \/ DeliverLive \/ Refill \/ Break

LEMMA StreamStepRelay ==
  ASSUME Types, StreamStep
  PROVE  UNCHANGED <<life, log, socket, rec, job>> /\ prime'.done = prime.done
<1>1. UNCHANGED <<life, log, socket, rec, job>>
  BY DEF StreamStep, Subscribe, Serve, DeliverChunk, DeliverReplay, DeliverLive, Refill, Break,
         engine, relay
<1>2. UNCHANGED prime \/ prime' = [prime EXCEPT !.again = TRUE]
  BY DEF StreamStep, Subscribe, Serve, DeliverChunk, DeliverReplay, DeliverLive, Refill, Break,
         engine, relay
<1>3. prime \in [done : BOOLEAN, again : BOOLEAN]
  BY DEF Types
<1> QED
  BY <1>1, <1>2, <1>3

LEMMA NextCases ==
  Next => \/ Publish \/ EngineRestart \/ RelayStep \/ Send \/ Announce \/ PrimeAgain \/ StreamStep
  BY DEF Next, RelayTask, Subscription, RelayStep, StreamStep

LEMMA NextRelay == RelayInv /\ Types /\ [Next]_vars => RelayInv'
<1> SUFFICES ASSUME RelayInv, Types, [Next]_vars PROVE RelayInv'
  OBVIOUS
<1> USE DEF vars, engine, relay
<1>0. GoodRecord(rec) /\ JobInv /\ LogInv /\ job \in Job /\ rec \in RankRecord
      /\ prime \in [done : BOOLEAN, again : BOOLEAN]
  BY DEF RelayInv, Types
<1>1. LogInv'
  <2>1. CASE Publish
    <3>1. PICK b \in [seq : {Len(log)}, op : {"blocks", "clear"}, life : {life}, gen : {0}] :
            log' = Append(log, b) /\ life' = life
      BY <2>1 DEF Publish
    <3>2. b \in Batch /\ b.seq = Len(log) /\ b.life = life /\ log \in Seq(Batch) /\ Len(log) \in Nat
      BY DEF Types, Batch
    <3>3. /\ Len(log') = Len(log) + 1 /\ log'[Len(log) + 1] = b
          /\ \A i \in 1 .. Len(log) : log'[i] = log[i]
      BY <3>1, <3>2, AppendProperties
    <3> SUFFICES ASSUME NEW i \in 1 .. Len(log') PROVE log'[i].seq = i - 1 /\ log'[i].life = life'
      BY DEF LogInv
    <3>4. i \in 1 .. Len(log) \/ i = Len(log) + 1
      BY <3>2, <3>3
    <3> QED
      BY <1>0, <3>1, <3>2, <3>3, <3>4 DEF LogInv
  <2>2. CASE EngineRestart
    BY <2>2 DEF EngineRestart, LogInv
  <2>3. CASE UNCHANGED <<life, log>>
    BY <1>0, <2>3 DEF LogInv
  <2> QED
    BY <2>1, <2>2, <2>3, NextCases, StreamStepRelay
    DEF RelayStep, Receive, Answer, FillNext, Readmit, PrimeFromReplay, Send, Announce, PrimeAgain
<1>2. GoodRecord(rec') /\ JobInv'
  <2>1. CASE RelayStep
    BY <2>1, RelayStepGood DEF RelayEffect
  <2>2. CASE Publish \/ EngineRestart \/ UNCHANGED vars
    BY <1>0, <2>2 DEF Publish, EngineRestart, JobInv, GoodFill
  <2>3. CASE StreamStep
    BY <1>0, <2>3, StreamStepRelay DEF JobInv, GoodFill
  <2>4. CASE Send
    <3>1. job.pc = "send" /\ job' = job.next /\ UNCHANGED <<rec, prime>>
      BY <2>4 DEF Send
    <3>2. job' = Idle \/ job'.pc = "fill"
      BY <1>0, <3>1, JobFields, FillFields
    <3>3. prime.done /\ (job'.pc = "fill" => GoodFill(job)')
      BY <1>0, <3>1 DEF JobInv, GoodFill
    <3>4. job'.pc = "recv" \/ job'.pc = "fill"
      BY <3>2 DEF Idle
    <3> QED
      BY <1>0, <3>1, <3>3, <3>4 DEF JobInv
  <2>5. CASE Announce
    <3>1. job.pc = "announce" /\ job' = Rejoin(job.msg) /\ UNCHANGED <<rec, prime>>
      BY <2>5 DEF Announce
    <3>2. job.msg \in Batch /\ job.msg.seq \in Nat /\ rec.cursor = 0 - 1 /\ prime.done
      BY <1>0, <3>1, JobFields, BatchFacts DEF JobInv, None
    <3>3. CASE JoinedLate(job.msg)
      <4>1. job'.pc = "ask" /\ job'.from = 0 /\ job'.msg = job.msg
        BY <3>1, <3>3 DEF Rejoin, Ask
      <4>2. 0 < job.msg.seq
        BY <3>2, <3>3 DEF JoinedLate
      <4> QED
        BY <1>0, <3>1, <3>2, <4>1, <4>2 DEF JobInv
    <3>4. CASE ~JoinedLate(job.msg)
      <4>1. job'.pc = "fill" /\ job'.replies = {} /\ job'.expected = 0
        BY <3>1, <3>4 DEF Rejoin, Fill
      <4>2. GoodFill(job)'
        BY <3>1, <3>2, <4>1 DEF GoodFill
      <4> QED
        BY <1>0, <3>1, <3>2, <4>1, <4>2 DEF JobInv
    <3> QED
      BY <3>3, <3>4
  <2>6. CASE PrimeAgain
    <3>1. /\ job.pc = "recv" /\ prime' = [done |-> prime.done /\ rec.cursor # None, again |-> FALSE]
          /\ UNCHANGED <<rec, job>>
      BY <2>6 DEF PrimeAgain
    <3>2. ~prime'.done => rec.cursor = None
      BY <1>0, <3>1 DEF JobInv
    <3> QED
      BY <1>0, <3>1, <3>2 DEF JobInv
  <2> QED
    BY <2>1, <2>2, <2>3, <2>4, <2>5, <2>6, NextCases
<1> QED
  BY <1>1, <1>2 DEF RelayInv

LEMMA RelayTypeOK == Types /\ RelayInv => TypeOK
<1> SUFFICES ASSUME Types, RelayInv PROVE TypeOK
  OBVIOUS
<1> DEFINE w == rec.window
<1>1. /\ rec.cursor \in Nat \cup {None} /\ w.first \in Nat /\ w.next \in Nat
      /\ \A b \in w.batches : b \in Batch
  BY DEF Types, RankRecord, Window
<1>2. \A b \in w.batches : b.seq \in Nat
  BY <1>1, BatchFacts
<1>3. GoodBlocks(rec) /\ GoodWindow(rec)
  BY DEF RelayInv, GoodRecord
<1>4. w.next - w.first \in 0 .. HistorySize
  BY <1>1, <1>3, Constants DEF GoodWindow
<1>5. CASE rec.cursor = None
  <2>1. w = EmptyWindow
    BY <1>3, <1>5 DEF GoodBlocks
  <2>2. IsEmpty(w) /\ w.batches = {}
    BY <2>1 DEF EmptyWindow, IsEmpty
  <2> QED
    BY <1>4, <2>2 DEF TypeOK
<1>6. CASE rec.cursor # None
  <2>1. w.next = rec.cursor + 1 /\ \A b \in w.batches : b.seq >= w.first /\ b.seq < w.next
    BY <1>3, <1>6 DEF GoodWindow
  <2>2. \A b \in w.batches : b.seq \in w.first .. rec.cursor
    <3> HIDE DEF w
    <3> QED
      BY <1>1, <1>2, <1>6, <2>1
  <2> QED
    BY <1>4, <2>1, <2>2 DEF TypeOK
<1> QED
  BY <1>5, <1>6

(* However the batches come, every state satisfies TypeOK: the window of   *)
(* the relay's history ends at its cursor, within its size, and holds      *)
(* nothing outside the sequences it covers.                                *)
THEOREM KvTypeCorrect == Spec => []TypeOK
<1>1. Init => Types /\ RelayInv
  BY InitTypes, InitRelay
<1>2. Types /\ RelayInv /\ [Next]_vars => (Types /\ RelayInv)'
  BY NextTypes, NextRelay
<1> QED
  BY <1>1, <1>2, RelayTypeOK, PTL DEF Spec

-------------------------------------------------------------------------------
(* What the relay has from the engine: of the process that runs, with the  *)
(* content it published, or of an earlier one.                             *)

Genuine(n, s, b) == b.life <= n /\ (b.life = n => b.seq < Len(s) /\ s[b.seq + 1].op = b.op)

GenuineJob(n, s, j) ==
  /\ j.pc \in {"ask", "announce", "fill"} => Genuine(n, s, j.msg)
  /\ j.pc = "fill" => \A b \in j.replies : Genuine(n, s, b)

GenuineInv ==
  /\ \A i \in 1 .. Len(socket) : Genuine(life, log, socket[i])
  /\ \A i \in 1 .. Len(rec.blocks) : Genuine(life, log, rec.blocks[i])
  /\ GenuineJob(life, log, job)
  /\ job.pc = "send" => GenuineJob(life, log, job.next)

LEMMA LogGenuine ==
  ASSUME Types, LogInv, NEW i \in 1 .. Len(log)
  PROVE  Genuine(life, log, log[i])
<1>1. log[i].seq = i - 1 /\ log[i].life = life /\ Len(log) \in Nat /\ life \in Nat
  BY Constants DEF LogInv, Types
<1>2. log[i].seq < Len(log) /\ log[i].seq + 1 = i
  BY <1>1
<1> QED
  BY <1>1, <1>2 DEF Genuine

LEMMA BufferedGenuine ==
  ASSUME Types, LogInv, NEW from \in Nat, NEW replies \in Buffered(from), NEW b \in replies
  PROVE  Genuine(life, log, b)
<1>1. PICK i \in 1 .. Len(log) : b = log[i]
  BY BufferedFacts
<1> QED
  BY <1>1, LogGenuine

LEMMA ApplyGenuine ==
  ASSUME NEW n, NEW s, NEW blocks \in Seq(Batch), NEW b \in Batch, Genuine(n, s, b),
         \A i \in 1 .. Len(blocks) : Genuine(n, s, blocks[i])
  PROVE  \A i \in 1 .. Len(Apply(blocks, b)) : Genuine(n, s, Apply(blocks, b)[i])
<1> DEFINE C == Apply(blocks, b)
<1>1. /\ b.op = "clear" => Len(C) = 1 /\ C[1] = b
      /\ b.op # "clear" => /\ Len(C) = Len(blocks) + 1
                           /\ \A i \in 1 .. Len(blocks) : C[i] = blocks[i]
                           /\ C[Len(blocks) + 1] = b
      /\ Len(blocks) \in Nat
  BY ApplyFacts
<1> HIDE DEF C
<1> SUFFICES ASSUME NEW i \in 1 .. Len(C) PROVE Genuine(n, s, C[i])
  BY DEF C
<1>2. C[i] = b \/ (i \in 1 .. Len(blocks) /\ C[i] = blocks[i])
  BY <1>1
<1> QED
  BY <1>2

LEMMA RelayGenuine ==
  ASSUME Types, GenuineInv, NEW m \in Batch, NEW next, Relay(m, next),
         Genuine(life, log, m), GenuineJob(life, log, next)
  PROVE  /\ \A i \in 1 .. Len(rec'.blocks) : Genuine(life, log, rec'.blocks[i])
         /\ GenuineJob(life, log, job')
         /\ job'.pc = "send" => GenuineJob(life, log, job'.next)
<1> DEFINE b == [m EXCEPT !.gen = rec.gen]
<1>1. b \in Batch /\ b.seq = m.seq /\ b.op = m.op /\ b.life = m.life
  BY StampedFacts DEF Types, RankRecord
<1>2. Genuine(life, log, b)
  BY <1>1 DEF Genuine
<1>3. rec'.blocks = Apply(rec.blocks, b) /\ rec.blocks \in Seq(Batch)
  BY RecordFields DEF Relay, Types, RankRecord
<1>4. job'.pc = "send" /\ job'.next = next
  BY DEF Relay
<1> HIDE DEF b
<1>5. \A i \in 1 .. Len(Apply(rec.blocks, b)) : Genuine(life, log, Apply(rec.blocks, b)[i])
  BY <1>1, <1>2, <1>3, ApplyGenuine DEF GenuineInv
<1> QED
  BY <1>3, <1>4, <1>5 DEF GenuineJob

LEMMA GenuineKept ==
  Types /\ [Next]_vars =>
    \A b \in Batch : Genuine(life, log, b) => Genuine(life', log', b)
<1> SUFFICES ASSUME Types, [Next]_vars, NEW b \in Batch, Genuine(life, log, b)
             PROVE  Genuine(life', log', b)
  OBVIOUS
<1> USE DEF vars, engine, relay
<1>0. /\ life \in Nat /\ b.life \in Nat /\ b.seq \in Nat /\ log \in Seq(Batch) /\ Len(log) \in Nat
  BY Constants, BatchFacts DEF Types
<1>1. CASE Publish
  <2>1. PICK c \in [seq : {Len(log)}, op : {"blocks", "clear"}, life : {life}, gen : {0}] :
          log' = Append(log, c) /\ life' = life
    BY <1>1 DEF Publish
  <2>2. c \in Batch
    BY DEF Types, Batch
  <2>3. Len(log') = Len(log) + 1 /\ \A i \in 1 .. Len(log) : log'[i] = log[i]
    BY <1>0, <2>1, <2>2, AppendProperties
  <2> QED
    BY <1>0, <2>1, <2>3 DEF Genuine
<1>2. CASE EngineRestart
  <2>1. life' = life + 1
    BY <1>2 DEF EngineRestart
  <2> QED
    BY <1>0, <2>1 DEF Genuine
<1>3. CASE UNCHANGED <<life, log>>
  BY <1>3
<1> QED
  BY <1>1, <1>2, <1>3, NextCases, StreamStepRelay
  DEF RelayStep, Receive, Answer, FillNext, Readmit, PrimeFromReplay, Send, Announce, PrimeAgain

(* The sets and messages a step leaves are genuine after it as well.       *)
LEMMA JobKept ==
  Types /\ [Next]_vars => \A j \in Job : GenuineJob(life, log, j) => GenuineJob(life', log', j)
<1> SUFFICES ASSUME Types, [Next]_vars, NEW j \in Job, GenuineJob(life, log, j)
             PROVE  GenuineJob(life', log', j)
  OBVIOUS
<1>1. \A b \in Batch : Genuine(life, log, b) => Genuine(life', log', b)
  BY GenuineKept
<1>2. j.pc \in {"ask", "announce", "fill"} => j.msg \in Batch
  BY JobFields, FillFields
<1>3. j.pc = "fill" => j.replies \in SUBSET Batch
  BY JobFields, FillFields
<1> QED
  BY <1>1, <1>2, <1>3 DEF GenuineJob

LEMMA RelayStepGenuine ==
  ASSUME Types, RelayInv, GenuineInv, RelayStep
  PROVE  /\ \A i \in 1 .. Len(socket') : Genuine(life, log, socket'[i])
         /\ \A i \in 1 .. Len(rec'.blocks) : Genuine(life, log, rec'.blocks[i])
         /\ GenuineJob(life, log, job')
         /\ job'.pc = "send" => GenuineJob(life, log, job'.next)
<1> DEFINE Goal == /\ \A i \in 1 .. Len(rec'.blocks) : Genuine(life, log, rec'.blocks[i])
                   /\ GenuineJob(life, log, job')
                   /\ job'.pc = "send" => GenuineJob(life, log, job'.next)
<1>0. /\ \A i \in 1 .. Len(socket) : Genuine(life, log, socket[i])
      /\ \A i \in 1 .. Len(rec.blocks) : Genuine(life, log, rec.blocks[i])
      /\ GenuineJob(life, log, job) /\ socket \in Seq(Batch) /\ job \in Job /\ LogInv
      /\ rec.gen + 1 \in Nat
  BY DEF GenuineInv, Types, RelayInv, RankRecord
<1>1. GenuineJob(life, log, Idle) /\ Idle.pc = "recv"
  BY DEF GenuineJob, Idle
<1>2. ASSUME NEW m \in Batch, Genuine(life, log, m), DeclareRestart(m)
      PROVE  Goal
  <2>1. rec'.blocks = << >>
    BY <1>2 DEF DeclareRestart, RestartRank, NewRecord
  <2>2. job'.pc = "announce" /\ job'.msg = m
    BY <1>2 DEF DeclareRestart
  <2> QED
    BY <1>2, <2>1, <2>2 DEF GenuineJob
<1>3. ASSUME NEW m, Genuine(life, log, m), NEW from, NEW then, job' = Ask(m, from, then),
             UNCHANGED rec
      PROVE  Goal
  <2>1. job'.pc = "ask" /\ job'.msg = m
    BY <1>3 DEF Ask
  <2> QED
    BY <1>0, <1>3, <2>1 DEF GenuineJob
<1>4. ASSUME NEW m, Genuine(life, log, m), NEW then, NEW replies, NEW from, NEW to,
             \A b \in replies : Genuine(life, log, b)
      PROVE  LET j == Fill(m, then, replies, from, to) IN GenuineJob(life, log, j) /\ j.pc = "fill"
  <2> DEFINE j == Fill(m, then, replies, from, to)
  <2>1. j.pc = "fill" /\ j.msg = m /\ j.replies = replies
    BY DEF Fill
  <2> HIDE DEF j
  <2>2. GenuineJob(life, log, j)
    BY <1>4, <2>1 DEF GenuineJob
  <2> QED
    BY <2>1, <2>2 DEF j
<1>5. CASE Receive
  <2>1. /\ socket # << >> /\ socket' = Tail(socket)
    BY <1>5 DEF Receive
  <2>2. Head(socket) \in Batch /\ Genuine(life, log, Head(socket))
    BY <1>0, <2>1
  <2>3. \A i \in 1 .. Len(Tail(socket)) : Genuine(life, log, Tail(socket)[i])
    BY <1>0, <2>1
  <2>4. Goal
    <3> DEFINE m == Head(socket)
    <3> HIDE DEF m, Goal
    <3>1. \/ (\E from : job' = Ask(m, from, "admit") /\ UNCHANGED rec)
          \/ DeclareRestart(m) \/ UNCHANGED <<rec, job>> \/ Relay(m, Idle)
      BY <1>5 DEF Receive, m
    <3>2. m \in Batch /\ Genuine(life, log, m)
      BY <2>2 DEF m
    <3>3. CASE UNCHANGED <<rec, job>>
      BY <1>0, <3>3 DEF Goal, GenuineInv
    <3>4. CASE Relay(m, Idle)
      BY <1>1, <3>2, <3>4, RelayGenuine DEF Goal
    <3> QED
      BY <1>2, <1>3, <3>1, <3>2, <3>3, <3>4
  <2> QED
    BY <2>1, <2>3, <2>4
<1>6. CASE Answer
  <2>1. job.pc = "ask" /\ job.msg \in Batch /\ job.from \in Nat /\ UNCHANGED <<socket, rec>>
    BY <1>0, <1>6, JobFields DEF Answer, engine
  <2>2. PICK replies \in Buffered(job.from) :
          job' = Fill(job.msg, job.then, replies, job.from, job.msg.seq - 1)
    BY <1>6 DEF Answer
  <2>3. \A b \in replies : Genuine(life, log, b)
    BY <1>0, <2>1, BufferedGenuine
  <2>4. Genuine(life, log, job.msg)
    BY <1>0, <2>1 DEF GenuineJob
  <2>5. GenuineJob(life, log, job') /\ job'.pc = "fill"
    BY <1>4, <2>2, <2>3, <2>4
  <2> QED
    BY <1>0, <2>1, <2>5
<1>7. CASE FillNext \/ Readmit
  <2>1. /\ job.pc = "fill" /\ UNCHANGED socket /\ job \in FillJob
        /\ Genuine(life, log, job.msg) /\ \A b \in job.replies : Genuine(life, log, b)
    BY <1>0, <1>7, JobFields DEF FillNext, Readmit, engine, GenuineJob
  <2>2. job.replies \in SUBSET Batch /\ job.msg \in Batch /\ job.expected \in Nat /\ job.to \in Int
    BY <2>1, FillFields
  <2>3. ASSUME NEW b \in job.replies, NEW e,
               rec' = Lose(rec, job.expected, b.seq - 1) /\ job.expected < b.seq,
               job' = Fill(job.msg, job.then, job.replies, e, job.to)
        PROVE  Goal
    <3>1. b.seq - 1 \in Nat
      BY <2>2, <2>3, BatchFacts
    <3>2. rec'.blocks = rec.blocks
      BY <2>2, <2>3, <3>1, LoseFields DEF Types
    <3>3. GenuineJob(life, log, job') /\ job'.pc = "fill"
      BY <1>4, <2>1, <2>3
    <3> QED
      BY <1>0, <3>2, <3>3
  <2>4. ASSUME NEW b \in job.replies, NEW e,
               Relay(b, Fill(job.msg, job.then, job.replies \ {b}, e, job.to))
        PROVE  Goal
    <3> DEFINE next == Fill(job.msg, job.then, job.replies \ {b}, e, job.to)
    <3>1. \A c \in job.replies \ {b} : Genuine(life, log, c)
      BY <2>1
    <3>2. GenuineJob(life, log, next)
      BY <1>4, <2>1, <3>1
    <3> HIDE DEF next
    <3>3. b \in Batch /\ Genuine(life, log, b) /\ Relay(b, next)
      BY <2>1, <2>2, <2>4 DEF next
    <3> QED
      BY <3>2, <3>3, RelayGenuine
  <2>5. ASSUME rec' = Lose(rec, job.expected, job.to) /\ job.expected <= job.to, NEW e,
               job' = Fill(job.msg, job.then, {}, e, job.to)
        PROVE  Goal
    <3>1. job.to \in Nat
      BY <2>2, <2>5
    <3>2. rec'.blocks = rec.blocks
      BY <2>2, <2>5, <3>1, LoseFields DEF Types
    <3>3. GenuineJob(life, log, job') /\ job'.pc = "fill"
      <4>1. \A b \in {} : Genuine(life, log, b)
        OBVIOUS
      <4> QED
        BY <1>4, <2>1, <2>5, <4>1
    <3> QED
      BY <1>0, <3>2, <3>3
  <2>6. Relay(job.msg, Idle) => Goal
    BY <1>1, <2>1, <2>2, RelayGenuine
  <2>7. DeclareRestart(job.msg) => Goal
    BY <1>2, <2>1, <2>2
  <2>8. job' = Idle /\ UNCHANGED rec => Goal
    BY <1>0, <1>1
  <2>9. Goal
    <3> HIDE DEF Goal
    <3>1. CASE FillNext
      BY <2>3, <2>4, <2>5, <3>1 DEF FillNext
    <3>2. CASE Readmit
      BY <2>6, <2>7, <2>8, <3>2 DEF Readmit
    <3> QED
      BY <1>7, <3>1, <3>2
  <2> QED
    BY <1>0, <2>1, <2>9
<1>8. CASE PrimeFromReplay
  <2>1. UNCHANGED <<socket, rec>>
    BY <1>8 DEF PrimeFromReplay, engine
  <2>2. CASE UNCHANGED job
    BY <1>0, <2>1, <2>2 DEF GenuineInv
  <2>3. ASSUME NEW replies \in Buffered(0), NEW b \in replies, NEW e,
               job' = Fill(b, "recv", replies, e, None)
        PROVE  GenuineJob(life, log, job') /\ job'.pc = "fill"
    <3>1. \A c \in replies : Genuine(life, log, c)
      BY <1>0, BufferedGenuine
    <3> QED
      BY <1>4, <2>3, <3>1
  <2> QED
    BY <1>0, <1>8, <2>1, <2>2, <2>3 DEF PrimeFromReplay
<1> QED
  BY <1>5, <1>6, <1>7, <1>8 DEF RelayStep

LEMMA InitGenuine == Init => GenuineInv
  BY DEF Init, GenuineInv, GenuineJob, Idle, NewRecord

LEMMA NextGenuine == GenuineInv /\ RelayInv /\ Types /\ [Next]_vars => GenuineInv'
<1> SUFFICES ASSUME GenuineInv, RelayInv, Types, [Next]_vars PROVE GenuineInv'
  OBVIOUS
<1> USE DEF vars, engine, relay
<1>1. \A b \in Batch : Genuine(life, log, b) => Genuine(life', log', b)
  BY GenuineKept
<1>2. \A j \in Job : GenuineJob(life, log, j) => GenuineJob(life', log', j)
  BY JobKept
<1>3. Types'
  BY NextTypes
<1>4. /\ socket \in Seq(Batch) /\ rec.blocks \in Seq(Batch) /\ job \in Job
      /\ job.pc = "send" => job.next \in Job
  BY JobFields, JobTypes DEF Types, RankRecord
<1>5. CASE Publish
  <2>1. PICK b \in [seq : {Len(log)}, op : {"blocks", "clear"}, life : {life}, gen : {0}] :
          /\ log' = Append(log, b)
          /\ socket' = Append(socket, b) \/ UNCHANGED socket
    BY <1>5 DEF Publish
  <2>2. /\ b \in Batch /\ b.seq = Len(log) /\ log \in Seq(Batch) /\ UNCHANGED <<life, rec, job>>
        /\ b.life = life /\ life \in Nat /\ Len(log) \in Nat
    BY <1>5, Constants DEF Publish, Types, Batch
  <2>3. log'[b.seq + 1] = b /\ Len(log') = Len(log) + 1
    BY <2>1, <2>2, AppendProperties
  <2>4. Genuine(life', log', b)
    BY <2>2, <2>3 DEF Genuine
  <2>5. \A i \in 1 .. Len(socket) : Genuine(life', log', socket[i])
    BY <1>1, <1>4 DEF GenuineInv
  <2>6. \A i \in 1 .. Len(socket') : Genuine(life', log', socket'[i])
    <3>1. CASE UNCHANGED socket
      BY <2>5, <3>1
    <3>2. CASE socket' = Append(socket, b)
      <4>1. /\ Len(socket') = Len(socket) + 1 /\ socket'[Len(socket) + 1] = b
            /\ \A i \in 1 .. Len(socket) : socket'[i] = socket[i]
        BY <1>4, <2>2, <3>2, AppendProperties
      <4>2. ASSUME NEW i \in 1 .. Len(socket') PROVE i \in 1 .. Len(socket) \/ i = Len(socket) + 1
        BY <1>4, <4>1
      <4> QED
        BY <2>4, <2>5, <4>1, <4>2
    <3> QED
      BY <2>1, <3>1, <3>2
  <2>7. \A i \in 1 .. Len(rec.blocks) : Genuine(life', log', rec.blocks[i])
    BY <1>1, <1>4 DEF GenuineInv
  <2> QED
    BY <1>2, <1>4, <2>2, <2>6, <2>7 DEF GenuineInv
<1>6. CASE EngineRestart \/ UNCHANGED vars \/ StreamStep \/ PrimeAgain
  <2>1. UNCHANGED <<socket, rec, job>>
    BY <1>6, StreamStepRelay DEF EngineRestart, PrimeAgain
  <2>2. \A i \in 1 .. Len(socket) : Genuine(life', log', socket[i])
    BY <1>1, <1>4 DEF GenuineInv
  <2>3. \A i \in 1 .. Len(rec.blocks) : Genuine(life', log', rec.blocks[i])
    BY <1>1, <1>4 DEF GenuineInv
  <2> QED
    BY <1>2, <1>4, <2>1, <2>2, <2>3 DEF GenuineInv
<1>7. CASE RelayStep
  <2>1. UNCHANGED <<life, log>>
    BY <1>7 DEF RelayStep, Receive, Answer, FillNext, Readmit, PrimeFromReplay
  <2> QED
    BY <1>7, <2>1, RelayStepGenuine DEF GenuineInv
<1>8. CASE Send
  <2>1. job.pc = "send" /\ job' = job.next /\ UNCHANGED <<life, log, socket, rec>>
    BY <1>8 DEF Send
  <2>2. job' = Idle \/ job'.pc = "fill"
    BY <1>4, <2>1, JobFields, FillFields
  <2>3. job'.pc # "send"
    BY <2>2 DEF Idle
  <2> QED
    BY <2>1, <2>3 DEF GenuineInv
<1>9. CASE Announce
  <2>1. job.pc = "announce" /\ job' = Rejoin(job.msg) /\ UNCHANGED <<life, log, socket, rec>>
    BY <1>9 DEF Announce
  <2>2. Genuine(life, log, job.msg)
    BY <2>1 DEF GenuineInv, GenuineJob
  <2>3. /\ job'.pc \in {"ask", "fill"} /\ job'.msg = job.msg /\ (job'.pc = "fill" => job'.replies = {})
    BY <2>1 DEF Rejoin, Ask, Fill
  <2>4. GenuineJob(life, log, job') /\ job'.pc # "send"
    BY <2>2, <2>3 DEF GenuineJob
  <2> QED
    BY <2>1, <2>4 DEF GenuineInv
<1> QED
  BY <1>5, <1>6, <1>7, <1>8, <1>9, NextCases

LEMMA RecordMatches == Types /\ RelayInv /\ GenuineInv => RecordMatchesEngine
<1> SUFFICES ASSUME Types, RelayInv, GenuineInv, CaughtUp PROVE RecordMatchesEngine
  BY DEF RecordMatchesEngine
<1> DEFINE B == rec.blocks
           kept(q) == q \in 0 .. Len(log) - 1 /\ q \notin rec.lost
           cleared(p) == kept(p) /\ log[p + 1].op = "clear"
           since == {q \in 0 .. Len(log) - 1 : kept(q) /\ ~\E p \in q + 1 .. Len(log) - 1 :
                                                               kept(p) /\ log[p + 1].op = "clear"}
<1>1. /\ B \in Seq(Batch) /\ Len(log) \in Nat /\ Len(B) \in Nat /\ DOMAIN B = 1 .. Len(B)
      /\ rec.cursor = Len(log) - 1 /\ \A i \in 1 .. Len(B) : B[i].life = life
  <2>1. /\ B \in Seq(Batch) /\ Len(log) \in Nat /\ Len(B) \in Nat /\ DOMAIN B = 1 .. Len(B)
    BY DEF Types, RankRecord
  <2>2. \A i \in 1 .. Len(B) : B[i].gen = rec.gen
    BY DEF RelayInv, GoodRecord, GoodBlocks
  <2> QED
    BY <2>1, <2>2 DEF CaughtUp
<1>2. \A i \in 1 .. Len(B) : B[i] \in Batch /\ B[i].seq \in Nat
  BY <1>1, ElementOfSeq, BatchFacts
<1>3. /\ \A i, j \in 1 .. Len(B) : i < j => B[i].seq < B[j].seq
      /\ \A i \in 1 .. Len(B) : /\ B[i].seq <= rec.cursor /\ B[i].seq \notin rec.lost
                                /\ i > 1 => B[i].op # "clear"
      /\ \A q \in 0 .. rec.cursor : \/ B # << >> /\ B[1].op = "clear" /\ q < B[1].seq
                                    \/ q \in rec.lost \/ \E i \in 1 .. Len(B) : B[i].seq = q
  BY DEF RelayInv, GoodRecord, GoodBlocks, Superseded
<1>4. \A i \in 1 .. Len(B) : log[B[i].seq + 1].op = B[i].op
  BY <1>1 DEF GenuineInv, Genuine
<1>5. B # << >> => 1 \in 1 .. Len(B)
  BY <1>1
<1> HIDE DEF B
<1>6. \A i \in 1 .. Len(B) : kept(B[i].seq)
  BY <1>1, <1>2, <1>3
<1>7. ASSUME NEW i \in 1 .. Len(B), NEW p \in B[i].seq + 1 .. Len(log) - 1, cleared(p)
      PROVE  FALSE
  <2>1. p \in 0 .. rec.cursor /\ p > B[i].seq /\ p \in Int /\ p \notin rec.lost
    BY <1>1, <1>2, <1>7
  <2>2. CASE B # << >> /\ B[1].op = "clear" /\ p < B[1].seq
    <3>1. B[1].seq <= B[i].seq
      BY <1>2, <1>3, <1>5, <2>2
    <3> QED
      BY <1>2, <1>5, <2>1, <2>2, <3>1
  <2>3. CASE \E j \in 1 .. Len(B) : B[j].seq = p
    <3>1. PICK j \in 1 .. Len(B) : B[j].seq = p
      BY <2>3
    <3>2. B[j].op = "clear"
      BY <1>4, <1>7, <3>1
    <3>3. j = 1
      BY <1>3, <3>2
    <3>4. B[j].seq <= B[i].seq
      BY <1>2, <1>3, <3>3
    <3> QED
      BY <1>2, <2>1, <3>1, <3>4
  <2> QED
    BY <1>3, <2>1, <2>2, <2>3
<1>8. ASSUME NEW q \in 0 .. Len(log) - 1, kept(q), ~\E p \in q + 1 .. Len(log) - 1 : cleared(p)
      PROVE  \E i \in 1 .. Len(B) : B[i].seq = q
  <2>1. q \in 0 .. rec.cursor /\ q \notin rec.lost
    BY <1>1, <1>8
  <2>2. ASSUME B # << >>, B[1].op = "clear", q < B[1].seq PROVE FALSE
    <3>1. B[1].seq \in q + 1 .. Len(log) - 1
      BY <1>1, <1>2, <1>3, <1>5, <2>2
    <3>2. cleared(B[1].seq)
      BY <1>4, <1>5, <1>6, <2>2
    <3> QED
      BY <1>8, <3>1, <3>2
  <2> QED
    BY <1>3, <2>1, <2>2
<1>9. {B[i].seq : i \in 1 .. Len(B)} = since
  <2>1. ASSUME NEW q \in since PROVE q \in {B[i].seq : i \in 1 .. Len(B)}
    BY <1>8
  <2>2. ASSUME NEW i \in 1 .. Len(B) PROVE B[i].seq \in since
    BY <1>6, <1>7
  <2> HIDE DEF since
  <2> QED
    BY <2>1, <2>2
<1>10. \A i, j \in DOMAIN B : i < j => B[i].seq < B[j].seq
  BY <1>1, <1>3
<1>11. {B[i].seq : i \in DOMAIN B} = since
  BY <1>1, <1>9
<1>12. \A i \in DOMAIN B : B[i].life = life
  BY <1>1
<1> QED
  BY <1>10, <1>11, <1>12 DEF RecordMatchesEngine, B

(* A relay that has caught up with the engine holds each batch since the   *)
(* last clear once and in order, but for those it passed as lost, and none *)
(* of an ended process, however live batches, replays, gaps and restarts   *)
(* followed on each other.                                                 *)
THEOREM RecordIsFaithful == Spec => []RecordMatchesEngine
<1>1. Init => Types /\ RelayInv /\ GenuineInv
  BY InitTypes, InitRelay, InitGenuine
<1>2. Types /\ RelayInv /\ GenuineInv /\ [Next]_vars => (Types /\ RelayInv /\ GenuineInv)'
  BY NextTypes, NextRelay, NextGenuine
<1> QED
  BY <1>1, <1>2, RecordMatches, PTL DEF Spec

-------------------------------------------------------------------------------
(* The stream.  An index stands for the record at a sequence q when it is  *)
(* the part of the blocks up to q, or when a clear after q makes it void.  *)
(* r is the record, j the task, s the relay's side of the stream, g the    *)
(* gateway's rank.                                                         *)

Stands(r, index, q) ==
  \/ Superseded(r, q)
  \/ /\ Len(index) <= Len(r.blocks)
     /\ \A i \in 1 .. Len(index) : index[i] = r.blocks[i] /\ r.blocks[i].seq <= q
     /\ \A i \in Len(index) + 1 .. Len(r.blocks) : r.blocks[i].seq > q

(* A restart, or a lag, that the stream has yet to act on.                 *)
Tainted(j, s) ==
  s.lagged \/ j.pc = "announce" \/ \E i \in 1 .. Len(s.live) : s.live[i] = Restart

Current(r, x) == x # Restart /\ x.gen = r.gen

(* What the channel holds of the record's incarnation comes in order and   *)
(* after every restart; what it holds of an earlier one, before.           *)
GoodLive(r, j, live) ==
  /\ \A i \in 1 .. Len(live) :
       live[i] # Restart =>
         /\ live[i].gen <= r.gen
         /\ live[i].gen = r.gen => /\ InRecord(r, live[i]) /\ live[i].seq <= r.cursor
                                   /\ j.pc = "send" => live[i].seq < j.batch.seq
         /\ live[i].gen # r.gen => \/ j.pc = "announce"
                                   \/ \E k \in i + 1 .. Len(live) : live[k] = Restart
  /\ \A i, k \in 1 .. Len(live) :
       i < k /\ Current(r, live[i]) => Current(r, live[k]) /\ live[i].seq < live[k].seq

GoodPhase(s) ==
  /\ s.phase = "idle" => s = NoStream
  /\ s.phase = "joining" => s.chunks = << >> /\ s.replay = {} /\ s.sent = None

GoodReplay(r, replay, sent) ==
  /\ \A b \in replay : /\ b.gen <= r.gen /\ b.seq > sent
                       /\ b.gen = r.gen => InRecord(r, b) /\ b.seq <= r.cursor
  /\ \A b, c \in replay : b.gen = c.gen /\ (b.seq = c.seq => b = c)

GoodChunks(r, s) ==
  s.chunks # << >> =>
    /\ s.replay = {}
    /\ s.chunks[Len(s.chunks)].stamp = s.sent
    /\ \A i \in 1 .. Len(s.chunks) :
         /\ s.chunks[i].gen <= r.gen /\ s.chunks[i].stamp <= s.sent
         /\ s.chunks[i].last <=> i = Len(s.chunks)
         /\ s.chunks[i].first => i = 1
         /\ s.chunks[i].gen = r.gen => s.sent <= r.cursor
         /\ s.chunks[i].gen = r.gen /\ s.chunks[i].last => Stands(r, s.chunks[i].blocks, s.sent)

(* A block that the subscriber has yet to get is on its way to it.         *)
Covered(r, j, s) ==
  s.phase = "open" =>
    \A i \in 1 .. Len(r.blocks) : r.blocks[i].seq > s.sent =>
      /\ \A c \in s.replay : c.gen = r.gen /\ c.seq >= r.blocks[i].seq => r.blocks[i] \in s.replay
      /\ ~Tainted(j, s) => \/ r.blocks[i] \in s.replay
                           \/ \E k \in 1 .. Len(s.live) : s.live[k] = r.blocks[i]
                           \/ j.pc = "send" /\ j.batch = r.blocks[i]

(* The gateway went on from the incarnation of the record, or is stray.    *)
Kin(r, g) == g.cursor = None \/ g.gen = r.gen \/ g.stray

GoodStream(r, j, s, g) ==
  s.phase = "open" =>
    /\ ~Tainted(j, s) => /\ \A b \in s.replay : b.gen = r.gen
                         /\ \A i \in 1 .. Len(s.chunks) : s.chunks[i].gen = r.gen
                         /\ Kin(r, g)
    /\ (\E b \in s.replay : b.gen = r.gen) => Kin(r, g)
    /\ s.chunks = << >> => s.sent = g.cursor \/ (s.sent = None /\ g.cursor = 0)

GoodIndex(r, g) ==
  /\ g.gen <= r.gen
  /\ g.cursor # None /\ g.gen = r.gen => g.cursor <= r.cursor
  /\ ~g.stray /\ g.cursor = None => g.index = << >>
  /\ ~g.stray /\ g.cursor # None /\ g.gen = r.gen => Stands(r, g.index, g.cursor)

(* Part of a snapshot has come, and the rest is still to come.             *)
MidSnapshot(s) == s.chunks # << >> /\ ~s.chunks[1].first

IndexSoFar(r, s, g) == g.gen <= r.gen /\ (MidSnapshot(s) \/ GoodIndex(r, g))

StreamGood(r, j, s, g) ==
  /\ GoodLive(r, j, s.live) /\ GoodPhase(s) /\ GoodReplay(r, s.replay, s.sent)
  /\ GoodChunks(r, s) /\ Covered(r, j, s) /\ GoodStream(r, j, s, g) /\ IndexSoFar(r, s, g)

StreamInv == StreamGood(rec, job, sub, gw)

LEMMA SameBlocks ==
  ASSUME NEW r, NEW n, n.blocks = r.blocks
  PROVE  /\ \A x : InRecord(n, x) <=> InRecord(r, x)
         /\ \A index, q : Stands(n, index, q) <=> Stands(r, index, q)
  BY DEF Superseded, InRecord, Stands

(* One more batch voids nothing that stood before it.                      *)
LEMMA AppliedBlocks ==
  ASSUME NEW r \in RankRecord, NEW n \in RankRecord, NEW b \in Batch,
         n.blocks = Apply(r.blocks, b), b.seq > r.cursor
  PROVE  /\ \A x \in Batch : InRecord(r, x) /\ x.seq <= r.cursor => InRecord(n, x)
         /\ \A index \in Seq(Batch), q \in Int :
              Stands(r, index, q) /\ q <= r.cursor => Stands(n, index, q)
<1> DEFINE B == r.blocks
           C == n.blocks
<1>1. B \in Seq(Batch) /\ C \in Seq(Batch) /\ r.cursor \in Int /\ b.seq \in Nat
  BY BatchFacts DEF RankRecord, None
<1>2. /\ b.op = "clear" => Len(C) = 1 /\ C[1] = b
      /\ b.op # "clear" => /\ Len(C) = Len(B) + 1
                           /\ \A i \in 1 .. Len(B) : C[i] = B[i]
                           /\ C[Len(B) + 1] = b
      /\ Len(B) \in Nat /\ Len(C) \in Nat
  <2>1. C = Apply(B, b)
    OBVIOUS
  <2> HIDE DEF B, C
  <2> QED
    BY <1>1, <2>1, ApplyFacts
<1>3. (B # << >> <=> Len(B) > 0) /\ (C # << >> <=> Len(C) > 0)
  BY <1>1
<1> HIDE DEF B, C
<1>4. ASSUME b.op = "clear", NEW q \in Int, q <= r.cursor PROVE Superseded(n, q)
  BY <1>1, <1>2, <1>3, <1>4 DEF Superseded, C
<1>5. ASSUME b.op # "clear", NEW q, Superseded(r, q) PROVE Superseded(n, q)
  <2>1. B # << >> /\ B[1].op = "clear" /\ q < B[1].seq
    BY <1>5 DEF Superseded, B
  <2>2. C # << >> /\ C[1] = B[1]
    BY <1>2, <1>3, <1>5, <2>1
  <2> QED
    BY <2>1, <2>2 DEF Superseded, C
<1>6. ASSUME NEW x \in Batch, InRecord(r, x), x.seq <= r.cursor PROVE InRecord(n, x)
  <2>1. x.seq \in Int
    BY BatchFacts
  <2>2. CASE b.op = "clear"
    BY <1>4, <1>6, <2>1, <2>2 DEF InRecord
  <2>3. CASE b.op # "clear"
    <3>1. CASE Superseded(r, x.seq)
      BY <1>5, <2>3, <3>1 DEF InRecord
    <3>2. CASE \E i \in 1 .. Len(B) : B[i] = x
      <4>1. PICK i \in 1 .. Len(B) : B[i] = x
        BY <3>2
      <4>2. i \in 1 .. Len(C) /\ C[i] = x
        BY <1>2, <2>3, <4>1
      <4> QED
        BY <4>2 DEF InRecord, C
    <3> QED
      BY <1>6, <3>1, <3>2 DEF InRecord, B
  <2> QED
    BY <2>2, <2>3
<1>7. ASSUME NEW index \in Seq(Batch), NEW q \in Int, Stands(r, index, q), q <= r.cursor
      PROVE  Stands(n, index, q)
  <2>1. CASE b.op = "clear"
    BY <1>4, <1>7, <2>1 DEF Stands
  <2>2. CASE b.op # "clear" /\ Superseded(r, q)
    BY <1>5, <2>2 DEF Stands
  <2>3. CASE b.op # "clear" /\ ~Superseded(r, q)
    <3>1. /\ Len(index) <= Len(B) /\ Len(index) \in Nat
          /\ \A i \in 1 .. Len(index) : index[i] = B[i] /\ B[i].seq <= q
          /\ \A i \in Len(index) + 1 .. Len(B) : B[i].seq > q
      BY <1>7, <2>3 DEF Stands, B
    <3>2. Len(index) <= Len(C)
      BY <1>2, <2>3, <3>1
    <3>3. \A i \in 1 .. Len(index) : index[i] = C[i] /\ C[i].seq <= q
      BY <1>2, <2>3, <3>1
    <3>4. ASSUME NEW i \in Len(index) + 1 .. Len(C) PROVE C[i].seq > q
      <4>1. i \in Len(index) + 1 .. Len(B) \/ i = Len(B) + 1
        BY <1>2, <2>3, <3>1
      <4>2. CASE i = Len(B) + 1
        BY <1>1, <1>2, <1>7, <2>3, <4>2
      <4>3. CASE i \in Len(index) + 1 .. Len(B)
        <5>1. i \in 1 .. Len(B)
          BY <3>1, <4>3
        <5> QED
          BY <1>2, <2>3, <3>1, <4>3, <5>1
      <4> QED
        BY <4>1, <4>2, <4>3
    <3> QED
      BY <3>2, <3>3, <3>4 DEF Stands, C
  <2> QED
    BY <2>1, <2>2, <2>3
<1> QED
  BY <1>6, <1>7

LEMMA StreamFields ==
  ASSUME NEW s \in Subscriber
  PROVE  /\ s.live \in Seq(Batch \cup {Restart}) /\ Len(s.live) \in Nat
         /\ \A i \in 1 .. Len(s.live) : s.live[i] # Restart =>
              s.live[i] \in Batch /\ s.live[i].seq \in Nat /\ s.live[i].gen \in Nat
         /\ s.replay \in SUBSET Batch
         /\ \A b \in s.replay : b \in Batch /\ b.seq \in Nat /\ b.gen \in Nat
         /\ s.chunks \in Seq(Chunk) /\ Len(s.chunks) \in Nat
         /\ \A i \in 1 .. Len(s.chunks) :
              /\ s.chunks[i].stamp \in Nat /\ s.chunks[i].gen \in Nat
              /\ s.chunks[i].blocks \in Seq(Batch)
              /\ s.chunks[i].first \in BOOLEAN /\ s.chunks[i].last \in BOOLEAN
         /\ s.sent \in Nat \cup {None} /\ s.sent \in Int /\ s.sent >= None
         /\ s.lagged \in BOOLEAN /\ s.phase \in {"idle", "joining", "open"}
<1>1. /\ s.live \in Seq(Batch \cup {Restart}) /\ s.replay \in SUBSET Batch
      /\ s.chunks \in Seq(Chunk) /\ s.sent \in Nat \cup {None}
      /\ s.lagged \in BOOLEAN /\ s.phase \in {"idle", "joining", "open"}
  BY DEF Subscriber
<1>2. \A i \in 1 .. Len(s.live) : s.live[i] \in Batch \cup {Restart}
  BY <1>1, ElementOfSeq
<1>3. \A i \in 1 .. Len(s.chunks) : s.chunks[i] \in Chunk
  BY <1>1, ElementOfSeq
<1>4. \A i \in 1 .. Len(s.live) : s.live[i] # Restart =>
        s.live[i] \in Batch /\ s.live[i].seq \in Nat /\ s.live[i].gen \in Nat
  BY <1>2, BatchFacts
<1>5. \A b \in s.replay : b \in Batch /\ b.seq \in Nat /\ b.gen \in Nat
  BY <1>1, BatchFacts
<1>6. \A i \in 1 .. Len(s.chunks) :
              /\ s.chunks[i].stamp \in Nat /\ s.chunks[i].gen \in Nat
              /\ s.chunks[i].blocks \in Seq(Batch)
              /\ s.chunks[i].first \in BOOLEAN /\ s.chunks[i].last \in BOOLEAN
  BY <1>3 DEF Chunk
<1>7. Len(s.live) \in Nat /\ Len(s.chunks) \in Nat
  BY <1>1
<1>8. s.sent \in Int /\ s.sent >= None
  BY <1>1 DEF None
<1> QED
  BY <1>1, <1>4, <1>5, <1>6, <1>7, <1>8

LEMMA RecordBasics ==
  ASSUME NEW r \in RankRecord
  PROVE  /\ r.gen \in Nat /\ r.cursor \in Nat \cup {None} /\ r.cursor \in Int
         /\ r.blocks \in Seq(Batch) /\ Len(r.blocks) \in Nat /\ r.window \in Window
         /\ \A i \in 1 .. Len(r.blocks) :
              r.blocks[i] \in Batch /\ r.blocks[i].seq \in Nat /\ r.blocks[i].gen \in Nat
<1>1. /\ r.gen \in Nat /\ r.cursor \in Nat \cup {None} /\ r.cursor \in Int
      /\ r.blocks \in Seq(Batch) /\ Len(r.blocks) \in Nat /\ r.window \in Window
  BY DEF RankRecord, None
<1>2. \A i \in 1 .. Len(r.blocks) : r.blocks[i] \in Batch
  BY <1>1, ElementOfSeq
<1> QED
  BY <1>1, <1>2, BatchFacts

LEMMA RankFields ==
  ASSUME NEW g \in RankState
  PROVE  /\ g.cursor \in Nat \cup {None} /\ g.cursor \in Int /\ g.cursor >= None
         /\ g.gen \in Nat /\ g.index \in Seq(Batch)
         /\ g.stray \in BOOLEAN /\ g.replay \in BOOLEAN /\ g.fresh \in BOOLEAN
  BY DEF RankState, None

(* Steps of the relay, as the stream sees them.                            *)
LEMMA SteadyStream ==
  ASSUME NEW r \in RankRecord, NEW n \in RankRecord, NEW i, NEW j, NEW s \in Subscriber,
         NEW g \in RankState, StreamGood(r, i, s, g),
         i.pc \notin {"send", "announce"}, j.pc \notin {"send", "announce"},
         n.blocks = r.blocks, n.gen = r.gen, n.cursor >= r.cursor
  PROVE  StreamGood(n, j, s, g)
<1>1. /\ \A x : InRecord(n, x) <=> InRecord(r, x)
      /\ \A index, q : Stands(n, index, q) <=> Stands(r, index, q)
  BY SameBlocks, Zenon
<1>2. Tainted(j, s) <=> Tainted(i, s)
  BY DEF Tainted
<1>3. \A q \in Int : q <= r.cursor => q <= n.cursor
  BY RecordBasics
<1>4. GoodLive(n, j, s.live)
  <2>1. GoodLive(r, i, s.live)
    BY DEF StreamGood
  <2>2. \A k \in 1 .. Len(s.live) : s.live[k] # Restart => s.live[k].seq \in Int
    BY StreamFields
  <2> QED
    BY <1>1, <1>3, <2>1, <2>2 DEF GoodLive, Current
<1>5. GoodReplay(n, s.replay, s.sent)
  BY <1>1, <1>3, StreamFields DEF StreamGood, GoodReplay
<1>6. GoodChunks(n, s)
  BY <1>1, <1>3, StreamFields DEF StreamGood, GoodChunks
<1>7. Covered(n, j, s)
  BY <1>2 DEF StreamGood, Covered
<1>8. GoodStream(n, j, s, g)
  BY <1>2 DEF StreamGood, GoodStream, Kin
<1>9. IndexSoFar(n, s, g)
  BY <1>1, <1>3, RankFields DEF StreamGood, GoodIndex, IndexSoFar
<1> QED
  BY <1>4, <1>5, <1>6, <1>7, <1>8, <1>9 DEF StreamGood

LEMMA RecordedStream ==
  ASSUME NEW r \in RankRecord, NEW n \in RankRecord, NEW i, NEW j, NEW s \in Subscriber,
         NEW g \in RankState, NEW b \in Batch, StreamGood(r, i, s, g),
         i.pc \notin {"send", "announce"}, j.pc = "send", j.batch = b, b.gen = r.gen,
         b.seq > r.cursor, n.cursor = b.seq, n.gen = r.gen, n.blocks = Apply(r.blocks, b)
  PROVE  StreamGood(n, j, s, g)
<1>1. /\ \A x \in Batch : InRecord(r, x) /\ x.seq <= r.cursor => InRecord(n, x)
      /\ \A index \in Seq(Batch), q \in Int :
           Stands(r, index, q) /\ q <= r.cursor => Stands(n, index, q)
  BY AppliedBlocks
<1>2. Tainted(j, s) <=> Tainted(i, s)
  BY DEF Tainted
<1>3. \A q \in Int : q <= r.cursor => q <= n.cursor /\ q < b.seq
  BY RecordBasics, BatchFacts
<1>4. GoodLive(n, j, s.live)
  <2>1. GoodLive(r, i, s.live)
    BY DEF StreamGood
  <2>2. \A k \in 1 .. Len(s.live) : s.live[k] # Restart => s.live[k] \in Batch /\ s.live[k].seq \in Int
    BY StreamFields
  <2> QED
    BY <1>1, <1>3, <2>1, <2>2 DEF GoodLive, Current
<1>5. GoodReplay(n, s.replay, s.sent)
  BY <1>1, <1>3, StreamFields DEF StreamGood, GoodReplay
<1>6. GoodChunks(n, s)
  BY <1>1, <1>3, StreamFields DEF StreamGood, GoodChunks
<1>7. Covered(n, j, s)
  <2> DEFINE B == r.blocks
             C == n.blocks
  <2>1. \A k \in 1 .. Len(C) : C[k] = b \/ \E l \in 1 .. Len(B) : C[k] = B[l]
    <3>1. C = Apply(B, b) /\ B \in Seq(Batch)
      BY RecordBasics
    <3> HIDE DEF B, C
    <3>2. /\ b.op = "clear" => Len(C) = 1 /\ C[1] = b
          /\ b.op # "clear" => /\ Len(C) = Len(B) + 1
                               /\ \A k \in 1 .. Len(B) : C[k] = B[k]
                               /\ C[Len(B) + 1] = b
          /\ Len(B) \in Nat
      BY <3>1, ApplyFacts
    <3> QED
      BY <3>2
  <2> HIDE DEF B, C
  <2>2. SUFFICES ASSUME s.phase = "open", NEW k \in 1 .. Len(C), C[k].seq > s.sent
        PROVE  /\ \A c \in s.replay : c.gen = n.gen /\ c.seq >= C[k].seq => C[k] \in s.replay
               /\ ~Tainted(j, s) => \/ C[k] \in s.replay
                                    \/ \E l \in 1 .. Len(s.live) : s.live[l] = C[k]
                                    \/ j.pc = "send" /\ j.batch = C[k]
    BY DEF Covered, C
  <2>3. CASE C[k] = b
    <3>1. ASSUME NEW c \in s.replay, c.gen = n.gen, c.seq >= C[k].seq PROVE FALSE
      <4>1. c.seq <= r.cursor /\ c.seq \in Int
        BY <3>1, StreamFields DEF StreamGood, GoodReplay
      <4> QED
        BY <1>3, <2>3, <3>1, <4>1, BatchFacts
    <3> QED
      BY <2>3, <3>1
  <2>4. CASE \E l \in 1 .. Len(B) : C[k] = B[l]
    <3>1. PICK l \in 1 .. Len(B) : C[k] = B[l]
      BY <2>4
    <3>2. /\ \A c \in s.replay : c.gen = r.gen /\ c.seq >= B[l].seq => B[l] \in s.replay
          /\ ~Tainted(i, s) => \/ B[l] \in s.replay
                               \/ \E m \in 1 .. Len(s.live) : s.live[m] = B[l]
      BY <2>2, <3>1 DEF StreamGood, Covered, B
    <3> QED
      BY <1>2, <3>1, <3>2
  <2> QED
    BY <2>1, <2>3, <2>4
<1>8. GoodStream(n, j, s, g)
  BY <1>2 DEF StreamGood, GoodStream, Kin
<1>9. IndexSoFar(n, s, g)
  BY <1>1, <1>3, RankFields DEF StreamGood, GoodIndex, IndexSoFar
<1> QED
  BY <1>4, <1>5, <1>6, <1>7, <1>8, <1>9 DEF StreamGood

LEMMA StartedOverStream ==
  ASSUME NEW r \in RankRecord, NEW n, NEW i, NEW j, NEW s \in Subscriber,
         NEW g \in RankState, StreamGood(r, i, s, g),
         j.pc = "announce", n = NewRecord(r.gen + 1)
  PROVE  StreamGood(n, j, s, g)
<1>1. n.blocks = << >> /\ Len(n.blocks) = 0 /\ n.gen = r.gen + 1 /\ r.gen \in Nat
  BY RecordBasics DEF NewRecord
<1>2. Tainted(j, s)
  BY DEF Tainted
<1>3. \A q \in Nat : q <= r.gen => q <= n.gen /\ q # n.gen
  BY <1>1
<1>4. GoodLive(n, j, s.live)
  BY <1>3, StreamFields DEF StreamGood, GoodLive, Current
<1>5. GoodReplay(n, s.replay, s.sent)
  BY <1>3, StreamFields DEF StreamGood, GoodReplay
<1>6. GoodChunks(n, s)
  BY <1>3, StreamFields DEF StreamGood, GoodChunks
<1>7. Covered(n, j, s)
  BY <1>1 DEF Covered
<1>8. GoodStream(n, j, s, g)
  BY <1>2, <1>3, StreamFields DEF StreamGood, GoodStream, GoodReplay
<1>9. IndexSoFar(n, s, g)
  BY <1>3, RankFields DEF StreamGood, GoodIndex, IndexSoFar
<1> QED
  BY <1>4, <1>5, <1>6, <1>7, <1>8, <1>9 DEF StreamGood

(* The channel after a send, k being how many of the oldest it dropped.    *)
LEMMA SentLive ==
  ASSUME NEW s \in Subscriber, NEW x \in Batch \cup {Restart}, s.phase # "idle",
         Len(s.live) <= LiveChannel
  PROVE  LET t == Sent(s, x)
         IN  /\ t \in Subscriber /\ t.phase = s.phase /\ t.chunks = s.chunks
             /\ t.replay = s.replay /\ t.sent = s.sent
             /\ \E k \in {0, 1} :
                  /\ k <= Len(s.live) /\ Len(t.live) = Len(s.live) - k + 1
                  /\ \A i \in 1 .. Len(s.live) - k : t.live[i] = s.live[i + k]
                  /\ t.live[Len(s.live) - k + 1] = x
                  /\ k = 1 => t.lagged
                  /\ t.lagged \/ ~s.lagged
<1> DEFINE L == s.live
           base == IF Len(L) < LiveChannel THEN L ELSE Tail(L)
           t == Sent(s, x)
<1>1. L \in Seq(Batch \cup {Restart}) /\ Len(L) \in Nat /\ s.lagged \in BOOLEAN
  BY StreamFields
<1>2. t = [s EXCEPT !.live = Append(base, x), !.lagged = s.lagged \/ Len(L) = LiveChannel]
  BY DEF Sent
<1>3. t \in Subscriber
  BY SentType
<1>4. /\ t.phase = s.phase /\ t.chunks = s.chunks /\ t.replay = s.replay /\ t.sent = s.sent
      /\ t.live = Append(base, x) /\ t.lagged = (s.lagged \/ Len(L) = LiveChannel)
  BY <1>2 DEF Subscriber
<1>5. \E k \in {0, 1} : /\ k <= Len(L) /\ base \in Seq(Batch \cup {Restart})
                        /\ Len(base) = Len(L) - k
                        /\ \A i \in 1 .. Len(L) - k : base[i] = L[i + k]
                        /\ k = 1 => Len(L) = LiveChannel
  <2>1. CASE Len(L) < LiveChannel
    <3>1. base = L
      BY <2>1
    <3> HIDE DEF base, L
    <3>2. \A i \in 1 .. Len(L) - 0 : base[i] = L[i + 0]
      BY <1>1, <3>1
    <3>3. Len(base) = Len(L) - 0 /\ 0 <= Len(L) /\ base \in Seq(Batch \cup {Restart})
      BY <1>1, <3>1
    <3>4. 0 # 1
      OBVIOUS
    <3> WITNESS 0 \in {0, 1}
    <3> QED
      BY <3>2, <3>3, <3>4, Zenon
  <2>2. CASE ~(Len(L) < LiveChannel)
    <3>1. base = Tail(L) /\ L # << >> /\ Len(L) = LiveChannel /\ 1 <= Len(L)
      BY <1>1, <2>2, Constants
    <3>2. /\ Tail(L) \in Seq(Batch \cup {Restart}) /\ Len(Tail(L)) = Len(L) - 1
          /\ \A i \in 1 .. Len(L) - 1 : Tail(L)[i] = L[i + 1]
      BY <1>1, <3>1, HeadTailProperties
    <3> HIDE DEF base, L
    <3> QED
      BY <3>1, <3>2
  <2> QED
    BY <2>1, <2>2
<1> HIDE DEF base, t
<1>6. PICK k \in {0, 1} : /\ k <= Len(L) /\ base \in Seq(Batch \cup {Restart})
                          /\ Len(base) = Len(L) - k
                          /\ \A i \in 1 .. Len(L) - k : base[i] = L[i + k]
                          /\ k = 1 => Len(L) = LiveChannel
  BY <1>5
<1>7. /\ Len(t.live) = Len(base) + 1 /\ t.live[Len(base) + 1] = x
      /\ \A i \in 1 .. Len(base) : t.live[i] = base[i]
  BY <1>4, <1>6, AppendProperties
<1>8. /\ Len(t.live) = Len(L) - k + 1 /\ t.live[Len(L) - k + 1] = x
      /\ \A i \in 1 .. Len(L) - k : t.live[i] = L[i + k]
  BY <1>6, <1>7
<1>9. (k = 1 => t.lagged) /\ (t.lagged \/ ~s.lagged)
  BY <1>1, <1>4, <1>6
<1> QED
  BY <1>3, <1>4, <1>6, <1>8, <1>9 DEF t

(* The batch recorded last reaches the subscribers.                        *)
LEMMA SendStream ==
  ASSUME NEW r \in RankRecord, NEW i, NEW j, NEW s \in Subscriber, NEW g \in RankState,
         StreamGood(r, i, s, g), Len(s.live) <= LiveChannel,
         i.pc = "send", i.batch \in Batch, i.batch.gen = r.gen, i.batch.seq = r.cursor,
         InRecord(r, i.batch), j.pc \notin {"send", "announce"}
  PROVE  StreamGood(r, j, Sent(s, i.batch), g)
<1> DEFINE b == i.batch
           t == Sent(s, b)
<1>1. CASE s.phase = "idle"
  <2>1. t = s /\ s = NoStream
    BY <1>1 DEF Sent, StreamGood, GoodPhase
  <2>2. Len(s.live) = 0
    BY <2>1 DEF NoStream
  <2>3. GoodLive(r, j, s.live) /\ Covered(r, j, s) /\ GoodStream(r, j, s, g)
    BY <1>1, <2>2 DEF GoodLive, Covered, GoodStream
  <2> QED
    BY <2>1, <2>3 DEF StreamGood
<1>2. CASE s.phase # "idle"
  <2>0. b \in Batch /\ b # Restart /\ b.seq \in Nat
    BY BatchFacts
  <2> HIDE DEF b, t
  <2>1. /\ t \in Subscriber /\ t.phase = s.phase /\ t.chunks = s.chunks
        /\ t.replay = s.replay /\ t.sent = s.sent
    BY <1>2, <2>0, SentLive DEF t
  <2>2. PICK k \in {0, 1} : /\ k <= Len(s.live) /\ Len(t.live) = Len(s.live) - k + 1
                            /\ \A l \in 1 .. Len(s.live) - k : t.live[l] = s.live[l + k]
                            /\ t.live[Len(s.live) - k + 1] = b
                            /\ k = 1 => t.lagged
                            /\ t.lagged \/ ~s.lagged
    BY <1>2, <2>0, SentLive DEF t
  <2>3. Len(s.live) \in Nat /\ \A l \in 1 .. Len(s.live) : s.live[l] # Restart =>
              s.live[l] \in Batch /\ s.live[l].seq \in Nat /\ s.live[l].gen \in Nat
    BY StreamFields
  <2>4. \A l \in 1 .. Len(t.live) : \/ l \in 1 .. Len(s.live) - k /\ l + k \in 1 .. Len(s.live)
                                    \/ l = Len(s.live) - k + 1
    BY <2>2, <2>3
  <2>5. GoodLive(r, i, s.live)
    BY DEF StreamGood
  <2>6. GoodLive(r, j, t.live)
    <3>1. ASSUME NEW l \in 1 .. Len(t.live), t.live[l] # Restart
          PROVE  /\ t.live[l].gen <= r.gen
                 /\ t.live[l].gen = r.gen => InRecord(r, t.live[l]) /\ t.live[l].seq <= r.cursor
                 /\ t.live[l].gen # r.gen => \E m \in l + 1 .. Len(t.live) : t.live[m] = Restart
      <4>1. CASE l = Len(s.live) - k + 1
        <5>1. t.live[l] = b
          BY <2>2, <4>1
        <5> QED
          BY <2>0, <5>1, RecordBasics DEF b
      <4>2. CASE l \in 1 .. Len(s.live) - k /\ l + k \in 1 .. Len(s.live)
        <5>1. t.live[l] = s.live[l + k]
          BY <2>2, <4>2
        <5>2. /\ s.live[l + k].gen <= r.gen
              /\ s.live[l + k].gen = r.gen =>
                   InRecord(r, s.live[l + k]) /\ s.live[l + k].seq <= r.cursor
              /\ s.live[l + k].gen # r.gen =>
                   \E m \in l + k + 1 .. Len(s.live) : s.live[m] = Restart
          BY <2>5, <3>1, <4>2, <5>1 DEF GoodLive
        <5>3. ASSUME NEW m \in l + k + 1 .. Len(s.live), s.live[m] = Restart
              PROVE  \E o \in l + 1 .. Len(t.live) : t.live[o] = Restart
          <6>1. m - k \in l + 1 .. Len(t.live) /\ m - k \in 1 .. Len(s.live) - k /\ (m - k) + k = m
            BY <2>2, <2>3, <4>2
          <6>2. t.live[m - k] = s.live[m]
            BY <2>2, <6>1
          <6> QED
            BY <5>3, <6>1, <6>2
        <5> QED
          BY <5>1, <5>2, <5>3
      <4> QED
        BY <2>4, <4>1, <4>2
    <3>2. ASSUME NEW l \in 1 .. Len(t.live), NEW m \in 1 .. Len(t.live), l < m,
                 Current(r, t.live[l])
          PROVE  Current(r, t.live[m]) /\ t.live[l].seq < t.live[m].seq
      <4>1. l \in 1 .. Len(s.live) - k /\ l + k \in 1 .. Len(s.live)
        BY <2>2, <2>3, <2>4, <3>2
      <4>2. t.live[l] = s.live[l + k]
        BY <2>2, <4>1
      <4>3. CASE m = Len(s.live) - k + 1
        <5>1. t.live[m] = b
          BY <2>2, <4>3
        <5>2. s.live[l + k].seq < b.seq
          BY <2>5, <3>2, <4>1, <4>2 DEF GoodLive, Current, b
        <5> QED
          BY <2>0, <4>2, <5>1, <5>2 DEF Current, b
      <4>4. CASE m \in 1 .. Len(s.live) - k /\ m + k \in 1 .. Len(s.live)
        <5>1. t.live[m] = s.live[m + k] /\ l + k < m + k
          BY <2>2, <3>2, <4>1, <4>4
        <5> QED
          BY <2>5, <3>2, <4>1, <4>2, <4>4, <5>1 DEF GoodLive
      <4> QED
        BY <2>4, <4>3, <4>4
    <3> QED
      BY <3>1, <3>2 DEF GoodLive
  <2>7. ~Tainted(j, t) => /\ k = 0 /\ ~Tainted(i, s)
                          /\ \A l \in 1 .. Len(s.live) : t.live[l] = s.live[l]
    <3> SUFFICES ASSUME ~Tainted(j, t)
                 PROVE  /\ k = 0 /\ ~Tainted(i, s)
                        /\ \A l \in 1 .. Len(s.live) : t.live[l] = s.live[l]
      OBVIOUS
    <3>1. ~t.lagged /\ \A l \in 1 .. Len(t.live) : t.live[l] # Restart
      BY DEF Tainted
    <3>2. k = 0 /\ ~s.lagged
      BY <2>2, <3>1
    <3>3. \A l \in 1 .. Len(s.live) : l + 0 = l /\ l \in 1 .. Len(s.live) - 0 /\ l \in 1 .. Len(t.live)
      BY <2>2, <2>3, <3>2
    <3>4. \A l \in 1 .. Len(s.live) : t.live[l] = s.live[l]
      BY <2>2, <3>2, <3>3
    <3> QED
      BY <3>1, <3>2, <3>3, <3>4 DEF Tainted
  <2>8. Covered(r, j, t)
    <3> SUFFICES ASSUME s.phase = "open", NEW l \in 1 .. Len(r.blocks), r.blocks[l].seq > s.sent,
                        ~Tainted(j, t)
                 PROVE  \/ r.blocks[l] \in s.replay
                        \/ \E m \in 1 .. Len(t.live) : t.live[m] = r.blocks[l]
      BY <2>1 DEF StreamGood, Covered
    <3>1. \/ r.blocks[l] \in s.replay
          \/ \E m \in 1 .. Len(s.live) : s.live[m] = r.blocks[l]
          \/ b = r.blocks[l]
      BY <2>7 DEF StreamGood, Covered, b
    <3>2. ASSUME NEW m \in 1 .. Len(s.live), s.live[m] = r.blocks[l]
          PROVE  m \in 1 .. Len(t.live) /\ t.live[m] = r.blocks[l]
      BY <2>2, <2>3, <2>7, <3>2
    <3>3. Len(s.live) - k + 1 \in 1 .. Len(t.live)
      BY <2>2, <2>3
    <3> QED
      BY <2>2, <3>1, <3>2, <3>3
  <2>9. GoodStream(r, j, t, g)
    BY <2>1, <2>7 DEF StreamGood, GoodStream
  <2>10. GoodPhase(t) /\ GoodReplay(r, t.replay, t.sent) /\ GoodChunks(r, t)
    BY <1>2, <2>1 DEF StreamGood, GoodPhase, GoodChunks
  <2>11. IndexSoFar(r, t, g)
    BY <2>1 DEF StreamGood, IndexSoFar, MidSnapshot
  <2> QED
    BY <2>6, <2>8, <2>9, <2>10, <2>11 DEF StreamGood, t, b
<1> QED
  BY <1>1, <1>2

(* The announcement of a restart reaches the subscribers.                  *)
LEMMA AnnounceStream ==
  ASSUME NEW r \in RankRecord, NEW i, NEW j, NEW s \in Subscriber, NEW g \in RankState,
         StreamGood(r, i, s, g), Len(s.live) <= LiveChannel,
         i.pc = "announce", r.blocks = << >>, j.pc \notin {"send", "announce"}
  PROVE  StreamGood(r, j, Sent(s, Restart), g)
<1> DEFINE t == Sent(s, Restart)
<1>0. Len(r.blocks) = 0 /\ \A x : ~InRecord(r, x)
  BY DEF InRecord, Superseded
<1>1. CASE s.phase = "idle"
  <2>1. t = s /\ s = NoStream
    BY <1>1 DEF Sent, StreamGood, GoodPhase
  <2>2. Len(s.live) = 0
    BY <2>1 DEF NoStream
  <2>3. GoodLive(r, j, s.live) /\ Covered(r, j, s) /\ GoodStream(r, j, s, g)
    BY <1>1, <2>2 DEF GoodLive, Covered, GoodStream
  <2> QED
    BY <2>1, <2>3 DEF StreamGood
<1>2. CASE s.phase # "idle"
  <2> HIDE DEF t
  <2>1. /\ t \in Subscriber /\ t.phase = s.phase /\ t.chunks = s.chunks
        /\ t.replay = s.replay /\ t.sent = s.sent
    BY <1>2, SentLive DEF t
  <2>2. PICK k \in {0, 1} : /\ k <= Len(s.live) /\ Len(t.live) = Len(s.live) - k + 1
                            /\ \A l \in 1 .. Len(s.live) - k : t.live[l] = s.live[l + k]
                            /\ t.live[Len(s.live) - k + 1] = Restart
    BY <1>2, SentLive DEF t
  <2>3. Len(s.live) \in Nat
    BY StreamFields
  <2>4. \A l \in 1 .. Len(t.live) : \/ l \in 1 .. Len(s.live) - k /\ l + k \in 1 .. Len(s.live)
                                    \/ l = Len(s.live) - k + 1
    BY <2>2, <2>3
  <2>5. \A l \in 1 .. Len(s.live) : s.live[l] # Restart =>
          s.live[l].gen <= r.gen /\ s.live[l].gen # r.gen
    BY <1>0 DEF StreamGood, GoodLive
  <2>6. \A l \in 1 .. Len(t.live) : t.live[l] # Restart =>
          /\ t.live[l].gen <= r.gen /\ t.live[l].gen # r.gen
          /\ \E m \in l + 1 .. Len(t.live) : t.live[m] = Restart
    <3> SUFFICES ASSUME NEW l \in 1 .. Len(t.live), t.live[l] # Restart
                 PROVE  /\ t.live[l].gen <= r.gen /\ t.live[l].gen # r.gen
                        /\ \E m \in l + 1 .. Len(t.live) : t.live[m] = Restart
      OBVIOUS
    <3>1. l \in 1 .. Len(s.live) - k /\ l + k \in 1 .. Len(s.live)
      BY <2>2, <2>4
    <3>2. t.live[l] = s.live[l + k]
      BY <2>2, <3>1
    <3>3. Len(s.live) - k + 1 \in l + 1 .. Len(t.live)
      BY <2>2, <2>3, <3>1
    <3> QED
      BY <2>2, <2>5, <3>1, <3>2, <3>3
  <2>7. GoodLive(r, j, t.live)
    BY <2>6 DEF GoodLive, Current
  <2>8. Tainted(j, t)
    <3>1. Len(s.live) - k + 1 \in 1 .. Len(t.live)
      BY <2>2, <2>3
    <3> QED
      BY <2>2, <3>1 DEF Tainted
  <2>9. Covered(r, j, t)
    BY <1>0 DEF Covered
  <2>10. GoodStream(r, j, t, g)
    BY <2>1, <2>8 DEF StreamGood, GoodStream
  <2>11. GoodPhase(t) /\ GoodReplay(r, t.replay, t.sent) /\ GoodChunks(r, t)
    BY <1>2, <2>1 DEF StreamGood, GoodPhase, GoodChunks
  <2>12. IndexSoFar(r, t, g)
    BY <2>1 DEF StreamGood, IndexSoFar, MidSnapshot
  <2> QED
    BY <2>7, <2>9, <2>10, <2>11, <2>12 DEF StreamGood, t
<1> QED
  BY <1>1, <1>2

-------------------------------------------------------------------------------
(* Steps of the stream.                                                    *)

LEMMA NoStreamGood ==
  ASSUME NEW r \in RankRecord, NEW j, NEW g, GoodIndex(r, g)
  PROVE  /\ StreamGood(r, j, NoStream, g)
         /\ StreamGood(r, j, [NoStream EXCEPT !.phase = "joining"], g)
<1>1. ASSUME NEW s, Len(s.live) = 0, s.replay = {}, s.chunks = << >>, s.sent = None,
             s.phase = "idle" => s = NoStream, s.phase # "open"
      PROVE  StreamGood(r, j, s, g)
  <2>1. GoodLive(r, j, s.live) /\ GoodPhase(s)
    BY <1>1 DEF GoodLive, GoodPhase
  <2>2. GoodReplay(r, s.replay, s.sent) /\ GoodChunks(r, s)
    BY <1>1 DEF GoodReplay, GoodChunks
  <2>3. Covered(r, j, s) /\ GoodStream(r, j, s, g)
    BY <1>1 DEF Covered, GoodStream
  <2>4. IndexSoFar(r, s, g)
    BY DEF IndexSoFar, GoodIndex
  <2> QED
    BY <2>1, <2>2, <2>3, <2>4 DEF StreamGood
<1>2. /\ Len(NoStream.live) = 0 /\ NoStream.replay = {} /\ NoStream.chunks = << >>
      /\ NoStream.sent = None /\ NoStream.phase # "open"
  BY DEF NoStream
<1> DEFINE t == [NoStream EXCEPT !.phase = "joining"]
<1>3. /\ Len(t.live) = 0 /\ t.replay = {} /\ t.chunks = << >> /\ t.sent = None
      /\ t.phase = "joining"
  BY DEF NoStream
<1> HIDE DEF t
<1>4. StreamGood(r, j, NoStream, g)
  BY <1>1, <1>2
<1>5. StreamGood(r, j, t, g)
  BY <1>1, <1>3
<1> QED
  BY <1>4, <1>5 DEF t

(* Between snapshots the index is good.                                    *)
LEMMA SettledIndex ==
  ASSUME NEW r, NEW j, NEW s, NEW g, StreamGood(r, j, s, g), ~MidSnapshot(s)
  PROVE  GoodIndex(r, g)
  BY DEF StreamGood, IndexSoFar

LEMMA ResetWorkerGood ==
  ASSUME NEW r \in RankRecord, NEW g \in RankState
  PROVE  GoodIndex(r, ResetWorker(g))
<1> DEFINE h == ResetWorker(g)
<1>1. h.cursor = None /\ h.index = << >> /\ h.gen = 0 /\ h.stray = FALSE
  BY DEF ResetWorker, Reset, RankState
<1>2. r.gen \in Nat
  BY RecordBasics
<1> HIDE DEF h
<1>3. GoodIndex(r, h)
  BY <1>1, <1>2 DEF GoodIndex
<1> QED
  BY <1>3 DEF h

(* What the window gives from a cursor it serves, or from the start when   *)
(* it is complete, is all the blocks after it.                             *)
LEMMA AfterGood ==
  ASSUME NEW r \in RankRecord, GoodRecord(r), NEW q \in Int, q >= None,
         \/ Serves(r.window, q)
         \/ q = None /\ (IsEmpty(r.window) \/ CompleteFromStart(r.window))
  PROVE  LET replay == After(r.window, q)
         IN  /\ GoodReplay(r, replay, q) /\ \A b \in replay : b.gen = r.gen
             /\ \A i \in 1 .. Len(r.blocks) : r.blocks[i].seq > q => r.blocks[i] \in replay
<1> DEFINE w == r.window
           replay == After(w, q)
<1>1. /\ r.gen \in Nat /\ r.cursor \in Nat \cup {None} /\ r.cursor \in Int
      /\ \A i \in 1 .. Len(r.blocks) : r.blocks[i] \in Batch /\ r.blocks[i].seq \in Nat
      /\ w.first \in Nat /\ w.next \in Nat /\ w.batches \in SUBSET Batch
  BY RecordBasics DEF Window
<1>2. GoodBlocks(r) /\ GoodWindow(r)
  BY DEF GoodRecord
<1>3. \A b : b \in replay <=> b \in w.batches /\ b.seq > q
  BY DEF After
<1>4. \A b \in w.batches : b.seq \in Nat
  BY <1>1, BatchFacts
<1>5. CASE r.cursor = None
  <2>1. Len(r.blocks) = 0 /\ w = EmptyWindow
    BY <1>2, <1>5 DEF GoodBlocks
  <2>2. w.batches = {}
    BY <2>1 DEF EmptyWindow
  <2>3. replay = {}
    BY <1>3, <2>2
  <2> HIDE DEF w, replay
  <2>4. GoodReplay(r, replay, q)
    BY <2>3 DEF GoodReplay
  <2> QED
    BY <2>1, <2>3, <2>4 DEF w, replay
<1>6. CASE r.cursor # None
  <2>1. /\ ~IsEmpty(w) /\ w.next = r.cursor + 1
        /\ \A b \in w.batches : b.seq >= w.first /\ b.seq < w.next /\ b.gen = r.gen /\ InRecord(r, b)
        /\ \A b, c \in w.batches : b.seq = c.seq => b = c
        /\ \A i \in 1 .. Len(r.blocks) :
             r.blocks[i].seq >= w.first => r.blocks[i] \in w.batches
    BY <1>2, <1>6 DEF GoodWindow
  <2>2. q + 1 >= w.first
    <3>1. CASE Serves(w, q)
      BY <3>1 DEF Serves
    <3>2. CASE q = None /\ CompleteFromStart(w)
      BY <3>2 DEF CompleteFromStart, None
    <3> QED
      BY <2>1, <3>1, <3>2
  <2> HIDE DEF w, replay
  <2>3. \A b \in replay : b.gen = r.gen /\ b.gen <= r.gen /\ b.seq > q /\ InRecord(r, b) /\ b.seq <= r.cursor
    BY <1>1, <1>3, <1>4, <2>1
  <2>4. \A b, c \in replay : b.gen = c.gen /\ (b.seq = c.seq => b = c)
    BY <1>3, <2>1
  <2>5. GoodReplay(r, replay, q)
    BY <2>3, <2>4 DEF GoodReplay
  <2>6. ASSUME NEW i \in 1 .. Len(r.blocks), r.blocks[i].seq > q PROVE r.blocks[i] \in replay
    <3>1. r.blocks[i].seq >= w.first
      BY <1>1, <2>2, <2>6
    <3> QED
      BY <1>3, <2>1, <2>6, <3>1
  <2> QED
    BY <2>3, <2>5, <2>6 DEF w, replay
<1> QED
  BY <1>5, <1>6

(* What a gateway joins with: the stream goes on from its incarnation, or  *)
(* its index counts as stray from then on.                                 *)
LEMMA ConnectedGood ==
  ASSUME NEW r \in RankRecord, NEW g \in RankState, NEW h, GoodIndex(r, g),
         h.cursor = g.cursor, h.gen = g.gen, h.index = g.index, h.stray = GoesAstray(g, r)
  PROVE  GoodIndex(r, h) /\ Kin(r, h)
  BY RankFields DEF GoodIndex, Kin, GoesAstray

(* A stream opened, or refilled, with nothing owed to it but what the      *)
(* window holds.                                                           *)
LEMMA OpenedGood ==
  ASSUME NEW r \in RankRecord, GoodRecord(r), NEW j, NEW s, NEW t, NEW g, NEW h,
         StreamGood(r, j, s, g), t.phase = "open", t.live = s.live, t.chunks = << >>,
         t.sent \in Nat \cup {None}, GoodReplay(r, t.replay, t.sent),
         \A b \in t.replay : b.gen = r.gen,
         \A i \in 1 .. Len(r.blocks) : r.blocks[i].seq > t.sent => r.blocks[i] \in t.replay,
         t.sent = h.cursor \/ (t.sent = None /\ h.cursor = 0),
         GoodIndex(r, h), Kin(r, h)
  PROVE  StreamGood(r, j, t, h)
<1>1. GoodLive(r, j, t.live) /\ GoodPhase(t)
  BY DEF StreamGood, GoodPhase
<1>2. GoodChunks(r, t)
  BY DEF GoodChunks
<1>3. Covered(r, j, t)
  BY DEF Covered
<1>4. GoodStream(r, j, t, h)
  BY DEF GoodStream
<1>5. IndexSoFar(r, t, h)
  BY DEF IndexSoFar, GoodIndex
<1> QED
  BY <1>1, <1>2, <1>3, <1>4, <1>5 DEF StreamGood

LEMMA ServeGood ==
  ASSUME Types, RelayInv, StreamInv, Serve
  PROVE  StreamGood(rec, job, sub', gw')
<1> DEFINE open == [sub EXCEPT !.phase = "open"]
           connected == [gw EXCEPT !.fresh = TRUE, !.stray = GoesAstray(gw, rec)]
<1>0. /\ rec \in RankRecord /\ sub \in Subscriber /\ gw \in RankState /\ GoodRecord(rec)
      /\ StreamGood(rec, job, sub, gw)
  BY DEF Types, RelayInv, StreamInv
<1>1. sub.phase = "joining" /\ sub.chunks = << >> /\ sub.replay = {} /\ sub.sent = None
  BY <1>0 DEF Serve, StreamGood, GoodPhase
<1>2. /\ connected.cursor = gw.cursor /\ connected.gen = gw.gen /\ connected.index = gw.index
      /\ connected.stray = GoesAstray(gw, rec)
  BY <1>0 DEF RankState
<1>3. GoodIndex(rec, connected) /\ Kin(rec, connected)
  <2>1. GoodIndex(rec, gw)
    BY <1>0, <1>1, SettledIndex DEF MidSnapshot
  <2> HIDE DEF connected
  <2> QED
    BY <1>0, <1>2, <2>1, ConnectedGood
<1>4. /\ open.phase = "open" /\ open.live = sub.live /\ open.chunks = << >> /\ open.replay = {}
      /\ open.sent = None /\ open \in Subscriber
  BY <1>0, <1>1 DEF Subscriber
<1>5. gw.cursor \in Nat \cup {None} /\ (Start(gw) = 0 => gw.cursor = None \/ gw.cursor = 0)
  BY <1>0, RankFields DEF Start
<1>6. None \in Int /\ None >= None /\ None \in Nat \cup {None}
  BY DEF None
<1> HIDE DEF open, connected
<1>7. CASE /\ Start(gw) = 0 /\ CompleteFromStart(rec.window)
           /\ sub' = [open EXCEPT !.replay = rec.window.batches] /\ gw' = connected
  <2>1. /\ sub'.phase = "open" /\ sub'.live = sub.live /\ sub'.chunks = << >> /\ sub'.sent = None
        /\ sub'.replay = rec.window.batches
    BY <1>4, <1>7 DEF Subscriber
  <2>2. After(rec.window, None) = rec.window.batches
    <3>1. rec.window.batches \in SUBSET Batch
      BY <1>0, RecordBasics DEF Window
    <3>2. \A b \in rec.window.batches : b.seq > None
      BY <3>1, BatchFacts DEF None
    <3> QED
      BY <3>2 DEF After
  <2>3. /\ GoodReplay(rec, sub'.replay, None) /\ \A b \in sub'.replay : b.gen = rec.gen
        /\ \A i \in 1 .. Len(rec.blocks) : rec.blocks[i].seq > None => rec.blocks[i] \in sub'.replay
    BY <1>0, <1>6, <1>7, <2>1, <2>2, AfterGood
  <2>4. sub'.sent = gw'.cursor \/ (sub'.sent = None /\ gw'.cursor = 0)
    BY <1>2, <1>5, <1>7, <2>1
  <2>5. /\ sub'.sent \in Nat \cup {None} /\ GoodReplay(rec, sub'.replay, sub'.sent)
        /\ \A i \in 1 .. Len(rec.blocks) :
             rec.blocks[i].seq > sub'.sent => rec.blocks[i] \in sub'.replay
    BY <1>6, <2>1, <2>3
  <2> QED
    BY <1>0, <1>3, <1>7, <2>1, <2>3, <2>4, <2>5, OpenedGood
<1>8. CASE Start(gw) = 0 /\ rec.cursor = None /\ sub' = open /\ gw' = connected
  <2>1. Len(rec.blocks) = 0
    BY <1>0, <1>8 DEF GoodRecord, GoodBlocks
  <2>2. GoodReplay(rec, sub'.replay, sub'.sent)
    BY <1>4, <1>8 DEF GoodReplay
  <2>3. sub'.sent = gw'.cursor \/ (sub'.sent = None /\ gw'.cursor = 0)
    BY <1>2, <1>4, <1>5, <1>8
  <2>4. \A i \in 1 .. Len(rec.blocks) : rec.blocks[i].seq > sub'.sent => rec.blocks[i] \in sub'.replay
    BY <2>1
  <2> QED
    BY <1>0, <1>3, <1>4, <1>6, <1>8, <2>2, <2>3, <2>4, OpenedGood
<1>9. CASE /\ Serves(rec.window, gw.cursor) /\ gw' = connected
           /\ sub' = [open EXCEPT !.replay = After(rec.window, gw.cursor), !.sent = gw.cursor]
  <2>1. /\ sub'.phase = "open" /\ sub'.live = sub.live /\ sub'.chunks = << >>
        /\ sub'.sent = gw.cursor /\ sub'.replay = After(rec.window, gw.cursor)
    BY <1>4, <1>9 DEF Subscriber
  <2>2. gw.cursor \in Int /\ gw.cursor >= None
    BY <1>0, RankFields
  <2>3. /\ GoodReplay(rec, sub'.replay, sub'.sent) /\ \A b \in sub'.replay : b.gen = rec.gen
        /\ \A i \in 1 .. Len(rec.blocks) :
             rec.blocks[i].seq > sub'.sent => rec.blocks[i] \in sub'.replay
    BY <1>0, <1>9, <2>1, <2>2, AfterGood
  <2>4. sub'.sent = gw'.cursor
    BY <1>2, <1>9, <2>1
  <2> QED
    BY <1>0, <1>3, <1>5, <1>9, <2>1, <2>3, <2>4, OpenedGood
<1>10. CASE sub' = NoStream /\ gw' = ResetWorker(gw)
  BY <1>0, <1>10, ResetWorkerGood, NoStreamGood
<1>11. ASSUME rec.cursor # None, gw' = connected, NEW n \in 1 .. MaxChunks, n <= rec.cursor + 1,
              sub' = [open EXCEPT !.chunks = Chunks(rec, n), !.sent = rec.cursor]
       PROVE  StreamGood(rec, job, sub', gw')
  <2>1. /\ sub'.phase = "open" /\ sub'.live = sub.live /\ sub'.chunks = Chunks(rec, n)
        /\ sub'.sent = rec.cursor /\ sub'.replay = {}
    BY <1>4, <1>11 DEF Subscriber
  <2>2. n \in Nat /\ n >= 1 /\ rec.cursor \in Nat
    BY <1>0, <1>11, RecordBasics, Constants
  <2>3. Chunks(rec, n) \in Seq(Chunk) /\ Len(Chunks(rec, n)) = n
    BY <1>0, <1>11, <2>2, ChunksType
  <2>4. \A i \in 1 .. n : /\ Chunks(rec, n)[i].stamp = rec.cursor - n + i
                          /\ Chunks(rec, n)[i].first = (i = 1)
                          /\ Chunks(rec, n)[i].last = (i = n)
                          /\ Chunks(rec, n)[i].gen = rec.gen
                          /\ i = n => Chunks(rec, n)[i].blocks = rec.blocks
    BY DEF Chunks
  <2>5. /\ \A i \in 1 .. Len(rec.blocks) : rec.blocks[i].seq <= rec.cursor
    BY <1>0 DEF GoodRecord, GoodBlocks
  <2>6. Stands(rec, rec.blocks, rec.cursor)
    <3>1. Len(rec.blocks) \in Nat
      BY <1>0, RecordBasics
    <3> QED
      BY <2>5, <3>1 DEF Stands
  <2>7. GoodChunks(rec, sub')
    <3>1. 1 \in 1 .. n /\ n \in 1 .. n /\ rec.gen \in Nat
      BY <1>0, <2>2, RecordBasics
    <3>2. Chunks(rec, n)[n].stamp = rec.cursor
      BY <2>2, <2>4, <3>1
    <3>3. \A i \in 1 .. n : Chunks(rec, n)[i].stamp <= rec.cursor
      BY <2>2, <2>4
    <3>4. Chunks(rec, n)[1].first
      BY <2>4, <3>1
    <3> DEFINE C == sub'.chunks
    <3>5. Len(C) = n /\ C[Len(C)].stamp = sub'.sent /\ C[1].first /\ sub'.replay = {}
      BY <2>1, <2>3, <3>2, <3>4
    <3>6. \A i \in 1 .. Len(C) : /\ C[i].gen = rec.gen /\ C[i].stamp <= sub'.sent
                                 /\ C[i].last <=> i = Len(C)
                                 /\ C[i].first => i = 1
                                 /\ C[i].last => C[i].blocks = rec.blocks
      BY <2>1, <2>3, <2>4, <3>3
    <3>7. rec.gen <= rec.gen /\ sub'.sent <= rec.cursor /\ Stands(rec, rec.blocks, sub'.sent)
      BY <2>1, <2>2, <2>6, <3>1
    <3> HIDE DEF C
    <3> QED
      BY <3>5, <3>6, <3>7 DEF GoodChunks, C
  <2>8. Covered(rec, job, sub')
    <3>1. \A i \in 1 .. Len(rec.blocks) : ~(rec.blocks[i].seq > rec.cursor)
      BY <1>0, <2>2, <2>5, RecordBasics
    <3> QED
      BY <2>1, <3>1 DEF Covered
  <2>9. GoodStream(rec, job, sub', gw')
    <3>1. Chunks(rec, n) # << >>
      BY <2>2, <2>3
    <3> QED
      BY <1>3, <1>11, <2>1, <2>3, <2>4, <3>1 DEF GoodStream
  <2>10. GoodReplay(rec, sub'.replay, sub'.sent) /\ GoodPhase(sub')
    BY <2>1 DEF GoodReplay, GoodPhase
  <2>11. IndexSoFar(rec, sub', gw')
    BY <1>3, <1>11 DEF IndexSoFar, GoodIndex
  <2>12. GoodLive(rec, job, sub'.live)
    BY <1>0, <2>1 DEF StreamGood
  <2> QED
    BY <2>7, <2>8, <2>9, <2>10, <2>11, <2>12 DEF StreamGood
<1> QED
  BY <1>7, <1>8, <1>9, <1>10, <1>11 DEF Serve, open, connected

LEMMA RefillGood ==
  ASSUME Types, RelayInv, StreamInv, Refill
  PROVE  StreamGood(rec, job, sub', gw')
<1> DEFINE after == After(rec.window, sub.sent)
<1>0. /\ rec \in RankRecord /\ sub \in Subscriber /\ gw \in RankState /\ GoodRecord(rec)
      /\ StreamGood(rec, job, sub, gw) /\ GoodStream(rec, job, sub, gw)
  BY DEF Types, RelayInv, StreamInv, StreamGood
<1>1. sub.phase = "open" /\ sub.chunks = << >> /\ sub.sent \in Int /\ sub.sent >= None
      /\ sub.sent \in Nat \cup {None}
  BY <1>0, StreamFields DEF Refill, AtLive
<1>2. CASE sub' = NoStream /\ gw' = ResetWorker(gw)
  BY <1>0, <1>2, ResetWorkerGood, NoStreamGood
<1>3. CASE /\ \/ Serves(rec.window, sub.sent)
              \/ sub.sent = None /\ (IsEmpty(rec.window) \/ CompleteFromStart(rec.window))
           /\ sub' = [sub EXCEPT !.lagged = FALSE, !.replay = after]
           /\ gw' = [gw EXCEPT !.stray = GoesAstray(gw, rec)]
  <2>1. /\ sub'.phase = "open" /\ sub'.live = sub.live /\ sub'.chunks = << >>
        /\ sub'.sent = sub.sent /\ sub'.replay = after
    BY <1>0, <1>1, <1>3 DEF Subscriber
  <2>2. /\ gw'.cursor = gw.cursor /\ gw'.gen = gw.gen /\ gw'.index = gw.index
        /\ gw'.stray = GoesAstray(gw, rec)
    BY <1>0, <1>3 DEF RankState
  <2>3. GoodIndex(rec, gw') /\ Kin(rec, gw')
    <3>1. GoodIndex(rec, gw)
      BY <1>0, <1>1, SettledIndex DEF MidSnapshot
    <3> QED
      BY <1>0, <2>2, <3>1, ConnectedGood
  <2>4. /\ GoodReplay(rec, after, sub.sent) /\ \A b \in after : b.gen = rec.gen
        /\ \A i \in 1 .. Len(rec.blocks) : rec.blocks[i].seq > sub.sent => rec.blocks[i] \in after
    BY <1>0, <1>1, <1>3, AfterGood
  <2>5. sub.sent = gw.cursor \/ (sub.sent = None /\ gw.cursor = 0)
    BY <1>0, <1>1 DEF GoodStream
  <2> HIDE DEF after
  <2>6. /\ sub'.sent \in Nat \cup {None} /\ GoodReplay(rec, sub'.replay, sub'.sent)
        /\ \A b \in sub'.replay : b.gen = rec.gen
        /\ \A i \in 1 .. Len(rec.blocks) :
             rec.blocks[i].seq > sub'.sent => rec.blocks[i] \in sub'.replay
        /\ sub'.sent = gw'.cursor \/ (sub'.sent = None /\ gw'.cursor = 0)
    BY <1>1, <2>1, <2>2, <2>4, <2>5
  <2> QED
    BY <1>0, <2>1, <2>3, <2>6, OpenedGood
<1> QED
  BY <1>2, <1>3 DEF Refill

(* A snapshot abandoned half way leaves an index that is stray.            *)
LEMMA BreakGood ==
  ASSUME Types, StreamInv, Break
  PROVE  StreamGood(rec, job, sub', gw')
<1>0. /\ rec \in RankRecord /\ sub \in Subscriber /\ gw \in RankState
      /\ StreamGood(rec, job, sub, gw) /\ gw.gen <= rec.gen /\ sub' = NoStream
  BY DEF Types, StreamInv, StreamGood, IndexSoFar, Break
<1>1. sub.chunks # << >> => Head(sub.chunks) = sub.chunks[1]
  BY <1>0, StreamFields
<1>2. GoodIndex(rec, gw')
  <2>1. CASE ~MidSnapshot(sub)
    <3>1. gw' = gw
      BY <1>1, <2>1 DEF Break, MidSnapshot
    <3> QED
      BY <1>0, <2>1, <3>1, SettledIndex
  <2>2. CASE MidSnapshot(sub)
    <3>1. gw' = Abandon(gw)
      BY <1>1, <2>2 DEF Break, MidSnapshot
    <3>2. gw'.cursor = None /\ gw'.gen = gw.gen /\ gw'.stray
      BY <1>0, <3>1 DEF Abandon, Reset, RankState
    <3> QED
      BY <1>0, <3>2 DEF GoodIndex
  <2> QED
    BY <2>1, <2>2
<1> QED
  BY <1>0, <1>2, NoStreamGood

LEMMA DeliverChunkGood ==
  ASSUME Types, StreamInv, DeliverChunk
  PROVE  StreamGood(rec, job, sub', gw')
<1> DEFINE C == sub.chunks
           D == sub'.chunks
           c == C[1]
<1>0. /\ rec \in RankRecord /\ sub \in Subscriber /\ gw \in RankState
      /\ StreamGood(rec, job, sub, gw) /\ GoodChunks(rec, sub) /\ C # << >>
      /\ sub.phase = "open" /\ GoodStream(rec, job, sub, gw)
  BY DEF Types, StreamInv, StreamGood, DeliverChunk
<1>1. /\ C \in Seq(Chunk) /\ Len(C) \in Nat /\ sub.sent \in Int
      /\ \A i \in 1 .. Len(C) :
              /\ C[i].stamp \in Nat /\ C[i].gen \in Nat
              /\ C[i].blocks \in Seq(Batch)
              /\ C[i].first \in BOOLEAN /\ C[i].last \in BOOLEAN
  BY <1>0, StreamFields
<1>2. Head(C) = c /\ Len(C) >= 1 /\ 1 \in 1 .. Len(C)
  BY <1>0, <1>1
<1>3. /\ Tail(C) \in Seq(Chunk) /\ Len(Tail(C)) = Len(C) - 1
      /\ \A i \in 1 .. Len(C) - 1 : Tail(C)[i] = C[i + 1]
  BY <1>0, <1>1, HeadTailProperties
<1>4. /\ D = Tail(C) /\ sub'.phase = "open" /\ sub'.live = sub.live /\ sub'.replay = sub.replay
      /\ sub'.sent = sub.sent /\ sub'.lagged = sub.lagged
  BY <1>0 DEF DeliverChunk, Subscriber
<1>5. /\ gw'.cursor = c.stamp /\ gw'.gen = c.gen /\ gw'.index = c.blocks /\ ~gw'.stray
  <2>1. gw' = [gw EXCEPT !.cursor = c.stamp, !.replay = FALSE, !.fresh = FALSE,
                         !.gen = c.gen, !.index = c.blocks, !.stray = FALSE]
    BY <1>2 DEF DeliverChunk
  <2> HIDE DEF c
  <2> QED
    BY <1>0, <2>1 DEF RankState
<1>6. /\ sub.replay = {} /\ C[Len(C)].stamp = sub.sent
      /\ \A i \in 1 .. Len(C) :
           /\ C[i].gen <= rec.gen /\ C[i].stamp <= sub.sent
           /\ C[i].last <=> i = Len(C)
           /\ C[i].first => i = 1
           /\ C[i].gen = rec.gen => sub.sent <= rec.cursor
           /\ C[i].gen = rec.gen /\ C[i].last => Stands(rec, C[i].blocks, sub.sent)
  BY <1>0 DEF GoodChunks
<1> HIDE DEF C, D
<1>7. GoodChunks(rec, sub')
  <2> SUFFICES ASSUME D # << >> PROVE GoodChunks(rec, sub')
    BY DEF GoodChunks, D
  <2>1. Len(D) = Len(C) - 1 /\ Len(D) >= 1 /\ \A i \in 1 .. Len(D) : D[i] = C[i + 1]
    BY <1>1, <1>3, <1>4
  <2>2. \A i \in 1 .. Len(D) : i + 1 \in 1 .. Len(C) /\ i + 1 # 1 /\ (i = Len(D) <=> i + 1 = Len(C))
    BY <1>1, <2>1
  <2>3. D[Len(D)] = C[Len(C)]
    BY <1>1, <2>1
  <2>4. \A i \in 1 .. Len(D) :
           /\ D[i].gen <= rec.gen /\ D[i].stamp <= sub.sent
           /\ D[i].last <=> i = Len(D)
           /\ D[i].first => i = 1
           /\ D[i].gen = rec.gen => sub.sent <= rec.cursor
           /\ D[i].gen = rec.gen /\ D[i].last => Stands(rec, D[i].blocks, sub.sent)
    BY <1>6, <2>1, <2>2
  <2> QED
    BY <1>4, <1>6, <2>3, <2>4 DEF GoodChunks, D
<1>8. Tainted(job, sub') <=> Tainted(job, sub)
  BY <1>4 DEF Tainted
<1>9. Covered(rec, job, sub')
  BY <1>0, <1>4, <1>8 DEF StreamGood, Covered
<1>10. GoodStream(rec, job, sub', gw')
  <2>1. ~Tainted(job, sub') => \A i \in 1 .. Len(C) : C[i].gen = rec.gen
    BY <1>0, <1>8 DEF GoodStream, C
  <2>2. \A i \in 1 .. Len(D) : i + 1 \in 1 .. Len(C) /\ D[i] = C[i + 1]
    BY <1>1, <1>3, <1>4
  <2>3. ~Tainted(job, sub') => Kin(rec, gw') /\ \A i \in 1 .. Len(D) : D[i].gen = rec.gen
    BY <1>2, <1>5, <2>1, <2>2 DEF Kin
  <2>4. Len(D) = Len(C) - 1
    BY <1>3, <1>4
  <2>5. D = << >> => gw'.cursor = sub.sent
    <3> SUFFICES ASSUME D = << >> PROVE c.stamp = sub.sent
      BY <1>5
    <3>1. Len(D) = 0
      OBVIOUS
    <3>2. Len(C) = 1
      BY <1>1, <2>4, <3>1
    <3> QED
      BY <1>6, <3>2
  <2> QED
    BY <1>4, <1>6, <2>3, <2>5 DEF GoodStream, D
<1>11. IndexSoFar(rec, sub', gw')
  <2>1. c.stamp \in Nat /\ rec.cursor \in Int /\ c.stamp # None
    BY <1>0, <1>1, <1>2, RecordBasics DEF None
  <2>2. c.last => c.stamp = sub.sent
    BY <1>2, <1>6
  <2>3. c.gen <= rec.gen /\ c.stamp <= sub.sent /\ (c.gen = rec.gen => sub.sent <= rec.cursor)
        /\ (c.gen = rec.gen /\ c.last => Stands(rec, c.blocks, sub.sent))
    BY <1>1, <1>2, <1>6
  <2>4. CASE D = << >>
    <3>0. Len(D) = 0 /\ Len(D) = Len(C) - 1
      BY <1>3, <1>4, <2>4
    <3>1. Len(C) = 1
      BY <1>1, <3>0
    <3>2. c.last
      BY <1>6, <3>1
    <3> HIDE DEF c
    <3>3. gw'.gen <= rec.gen /\ gw'.cursor # None
      BY <1>5, <2>1, <2>3
    <3>4. gw'.gen = rec.gen => gw'.cursor <= rec.cursor
      BY <1>1, <1>5, <2>1, <2>3
    <3>5. gw'.gen = rec.gen => Stands(rec, gw'.index, gw'.cursor)
      BY <1>5, <2>2, <2>3, <3>2
    <3> QED
      BY <3>3, <3>4, <3>5 DEF IndexSoFar, GoodIndex
  <2>5. CASE D # << >>
    <3>1. Len(C) >= 2 /\ 2 \in 1 .. Len(C) /\ D[1] = C[2]
      BY <1>1, <1>3, <1>4, <2>5
    <3>2. ~D[1].first
      BY <1>6, <3>1
    <3>3. gw'.gen <= rec.gen
      BY <1>5, <2>3
    <3> QED
      BY <2>5, <3>2, <3>3 DEF IndexSoFar, MidSnapshot, D
  <2> QED
    BY <2>4, <2>5
<1>12. GoodLive(rec, job, sub'.live) /\ GoodPhase(sub') /\ GoodReplay(rec, sub'.replay, sub'.sent)
  BY <1>0, <1>4 DEF StreamGood, GoodPhase
<1> QED
  BY <1>7, <1>9, <1>10, <1>11, <1>12 DEF StreamGood

-------------------------------------------------------------------------------
(* A batch admitted.                                                       *)

LEMMA ClearStands ==
  ASSUME NEW r \in RankRecord, GoodBlocks(r), NEW b \in Batch, InRecord(r, b), b.op = "clear"
  PROVE  Stands(r, <<b>>, b.seq)
<1> DEFINE B == r.blocks
<1>1. Len(B) \in Nat /\ \A i \in 1 .. Len(B) : B[i].seq \in Nat
  BY RecordBasics
<1>2. /\ \A i, j \in 1 .. Len(B) : i < j => B[i].seq < B[j].seq
      /\ \A i \in 1 .. Len(B) : i > 1 => B[i].op # "clear"
  BY DEF GoodBlocks
<1> HIDE DEF B
<1>3. CASE Superseded(r, b.seq)
  BY <1>3 DEF Stands
<1>4. CASE \E k \in 1 .. Len(B) : B[k] = b
  <2>1. PICK k \in 1 .. Len(B) : B[k] = b
    BY <1>4
  <2>2. k = 1
    BY <1>2, <2>1
  <2>3. Len(<<b>>) = 1 /\ <<b>>[1] = b /\ 1 \in 1 .. Len(B) /\ 1 <= Len(B)
    BY <1>1, <2>1, <2>2
  <2>4. \A i \in 1 + 1 .. Len(B) : i \in 1 .. Len(B) /\ 1 < i
    BY <1>1
  <2>5. \A i \in 1 + 1 .. Len(B) : B[i].seq > b.seq
    <3> SUFFICES ASSUME NEW i \in 1 + 1 .. Len(B) PROVE B[i].seq > b.seq
      OBVIOUS
    <3>1. B[1].seq < B[i].seq /\ B[1].seq \in Nat /\ B[i].seq \in Nat
      BY <1>1, <1>2, <2>3, <2>4
    <3> QED
      BY <2>1, <2>2, <3>1
  <2>6. \A i \in 1 .. 1 : <<b>>[i] = B[i] /\ B[i].seq <= b.seq
    <3>1. \A i \in 1 .. 1 : i = 1
      OBVIOUS
    <3>2. <<b>>[1] = B[1] /\ B[1].seq <= b.seq
      BY <2>1, <2>2, BatchFacts
    <3> QED
      BY <3>1, <3>2
  <2> QED
    BY <2>3, <2>5, <2>6 DEF Stands, B
<1> QED
  BY <1>3, <1>4 DEF InRecord, B

(* The next block after the ones the index stands for.                     *)
LEMMA NextStands ==
  ASSUME NEW r \in RankRecord, GoodBlocks(r), NEW index \in Seq(Batch), NEW q \in Int,
         NEW sent \in Int, NEW b \in Batch, InRecord(r, b), b.seq > q, sent <= q,
         Stands(r, index, q),
         \A i \in 1 .. Len(r.blocks) : ~(r.blocks[i].seq > sent /\ r.blocks[i].seq < b.seq)
  PROVE  Stands(r, Apply(index, b), b.seq)
<1> DEFINE B == r.blocks
           C == Apply(index, b)
<1>1. Len(B) \in Nat /\ (\A i \in 1 .. Len(B) : B[i].seq \in Nat) /\ b.seq \in Nat
  BY RecordBasics, BatchFacts
<1>2. \A i, j \in 1 .. Len(B) : i < j => B[i].seq < B[j].seq
  BY DEF GoodBlocks
<1>3. /\ b.op # "clear" => /\ Len(C) = Len(index) + 1
                           /\ \A i \in 1 .. Len(index) : C[i] = index[i]
                           /\ C[Len(index) + 1] = b
      /\ b.op = "clear" => C = <<b>>
      /\ Len(index) \in Nat
  BY ApplyFacts
<1>4. \A i \in 1 .. Len(B) : ~(B[i].seq > sent /\ B[i].seq < b.seq)
  OBVIOUS
<1> HIDE DEF B, C
<1>5. CASE Superseded(r, b.seq)
  BY <1>5 DEF Stands
<1>6. CASE b.op = "clear"
  BY <1>3, <1>6, ClearStands DEF C
<1>7. ASSUME b.op # "clear", NEW k \in 1 .. Len(B), B[k] = b
      PROVE  Stands(r, C, b.seq)
  <2>1. CASE Superseded(r, q)
    <3>1. B # << >> /\ B[1].op = "clear" /\ q < B[1].seq
      BY <2>1 DEF Superseded, B
    <3>2. 1 \in 1 .. Len(B) /\ B[1].seq \in Nat
      BY <1>1
    <3>3. B[1].seq >= b.seq
      BY <1>1, <1>4, <3>1, <3>2
    <3>4. k = 1
      BY <1>1, <1>2, <1>7, <3>2, <3>3
    <3> QED
      BY <1>7, <3>1, <3>4
  <2>2. CASE ~Superseded(r, q)
    <3> DEFINE n == Len(index)
    <3>1. /\ n <= Len(B) /\ n \in Nat
          /\ \A i \in 1 .. n : index[i] = B[i] /\ B[i].seq <= q
          /\ \A i \in n + 1 .. Len(B) : B[i].seq > q
      BY <1>3, <2>2 DEF Stands, B
    <3> HIDE DEF n
    <3>2. k > n
      <4> SUFFICES ASSUME k <= n PROVE FALSE
        BY <3>1
      <4>1. k \in 1 .. n
        BY <3>1
      <4>2. b.seq <= q
        BY <1>7, <3>1, <4>1
      <4> QED
        BY <1>1, <4>2
    <3>3. n + 1 \in n + 1 .. Len(B) /\ n + 1 \in 1 .. Len(B)
      BY <1>1, <3>1, <3>2
    <3>4. B[n + 1].seq > q /\ B[n + 1].seq \in Nat
      BY <1>1, <3>1, <3>3
    <3>5. B[n + 1].seq >= b.seq
      BY <1>1, <1>4, <3>3, <3>4
    <3>6. k = n + 1
      <4> SUFFICES ASSUME k # n + 1 PROVE FALSE
        OBVIOUS
      <4>1. n + 1 < k
        BY <3>1, <3>2
      <4>2. B[n + 1].seq < b.seq
        BY <1>2, <1>7, <3>3, <4>1
      <4> QED
        BY <1>1, <3>4, <3>5, <4>2
    <3>7. Len(C) = n + 1 /\ C[n + 1] = b /\ \A i \in 1 .. n : C[i] = index[i]
      BY <1>3, <1>7 DEF n
    <3>8. \A i \in 1 .. Len(C) : C[i] = B[i] /\ B[i].seq <= b.seq
      <4> SUFFICES ASSUME NEW i \in 1 .. Len(C) PROVE C[i] = B[i] /\ B[i].seq <= b.seq
        OBVIOUS
      <4>1. CASE i = n + 1
        BY <1>1, <1>7, <3>6, <3>7, <4>1
      <4>2. CASE i \in 1 .. n
        <5>1. C[i] = B[i] /\ B[i].seq <= q /\ i \in 1 .. Len(B)
          BY <1>1, <3>1, <3>7, <4>2
        <5> QED
          BY <1>1, <5>1
      <4> QED
        BY <3>1, <3>7, <4>1, <4>2
    <3>9. \A i \in Len(C) + 1 .. Len(B) : B[i].seq > b.seq
      <4> SUFFICES ASSUME NEW i \in Len(C) + 1 .. Len(B) PROVE B[i].seq > b.seq
        OBVIOUS
      <4>1. i \in 1 .. Len(B) /\ k < i
        BY <1>1, <3>1, <3>6, <3>7
      <4>2. B[k].seq < B[i].seq /\ B[i].seq \in Nat
        BY <1>1, <1>2, <4>1
      <4> QED
        BY <1>1, <1>7, <4>2
    <3>10. Len(C) <= Len(B)
      BY <1>1, <3>3, <3>7
    <3> QED
      BY <3>8, <3>9, <3>10 DEF Stands, B
  <2> QED
    BY <2>1, <2>2
<1> QED
  BY <1>5, <1>6, <1>7 DEF InRecord, B, C

LEMMA EmptyStands ==
  ASSUME NEW r \in RankRecord
  PROVE  Stands(r, << >>, None)
<1>1. Len(<< >>) = 0 /\ Len(r.blocks) \in Nat /\ \A i \in 1 .. Len(r.blocks) : r.blocks[i].seq > None
  BY RecordBasics DEF None
<1> QED
  BY <1>1 DEF Stands

LEMMA AdvanceGood ==
  ASSUME NEW r \in RankRecord, GoodBlocks(r), NEW g \in RankState, NEW index \in Seq(Batch),
         NEW b \in Batch, NEW stray \in BOOLEAN, b.gen <= r.gen,
         b.gen = r.gen => InRecord(r, b) /\ b.seq <= r.cursor,
         b.gen = r.gen /\ ~stray => Stands(r, Apply(index, b), b.seq)
  PROVE  LET h == Advance(g, index, b, stray)
         IN  GoodIndex(r, h) /\ h.cursor = b.seq /\ h.gen = b.gen
<1> DEFINE h == Advance(g, index, b, stray)
<1>1. /\ h.cursor = b.seq /\ h.gen = b.gen /\ h.index = Apply(index, b)
      /\ h.stray = (stray /\ b.op # "clear")
  BY DEF Advance, RankState
<1>2. b.seq \in Nat /\ b.seq # None
  BY BatchFacts DEF None
<1>3. b.gen = r.gen /\ b.op = "clear" => Stands(r, Apply(index, b), b.seq)
  BY ClearStands DEF Apply
<1> HIDE DEF h
<1>4. GoodIndex(r, h)
  BY <1>1, <1>2, <1>3 DEF GoodIndex
<1> QED
  BY <1>1, <1>4 DEF h

(* Whatever becomes of the next batch of a stream, the index is good.      *)
LEMMA AdmitGood ==
  ASSUME NEW r \in RankRecord, GoodBlocks(r), NEW g \in RankState, GoodIndex(r, g),
         NEW b \in Batch, NEW sent \in Int, b.seq > sent,
         sent = g.cursor \/ (sent = None /\ g.cursor = 0), b.gen <= r.gen,
         b.gen = r.gen =>
           /\ InRecord(r, b) /\ b.seq <= r.cursor /\ Kin(r, g)
           /\ \A i \in 1 .. Len(r.blocks) : ~(r.blocks[i].seq > sent /\ r.blocks[i].seq < b.seq)
  PROVE  LET h == AdmitBatch(g, b)
         IN  /\ GoodIndex(r, h) /\ (IsGap(g, b) \/ h.cursor = b.seq)
             /\ IsGap(g, b) \/ (b.gen = r.gen => Kin(r, h))
<1> DEFINE h == AdmitBatch(g, b)
<1>1. /\ g.cursor \in Nat \cup {None} /\ g.cursor \in Int /\ g.index \in Seq(Batch)
      /\ g.stray \in BOOLEAN /\ b.seq \in Nat /\ << >> \in Seq(Batch)
  BY RankFields, BatchFacts
<1>2. sent <= g.cursor
  BY <1>1 DEF None
<1>3. ASSUME b.seq > g.cursor, b.gen = r.gen, ~g.stray
      PROVE  Stands(r, Apply(g.index, b), b.seq)
  <2>1. Stands(r, g.index, g.cursor)
    <3>1. CASE g.cursor = None
      BY <1>3, <3>1, EmptyStands DEF GoodIndex
    <3>2. CASE g.cursor # None
      BY <1>3, <3>2 DEF GoodIndex, Kin
    <3> QED
      BY <3>1, <3>2
  <2> QED
    BY <1>1, <1>2, <1>3, <2>1, NextStands
<1>4. CASE /\ Follows(g, b) \/ IsHole(g, b)
           /\ h = Advance(g, g.index, b, g.stray)
  <2>1. b.seq > g.cursor
    BY <1>1, <1>4 DEF Follows, IsHole, Passed, None
  <2> HIDE DEF h
  <2>2. GoodIndex(r, h) /\ h.cursor = b.seq /\ h.gen = b.gen
    BY <1>1, <1>3, <1>4, <2>1, AdvanceGood
  <2> QED
    BY <2>2 DEF Kin, h
<1>5. CASE Passed(g, b) /\ g.cursor # None
  <2>1. sent = None /\ g.cursor = 0 /\ b.seq = 0
    BY <1>1, <1>5 DEF Passed
  <2>2. CASE h = Advance(g, << >>, b, FALSE)
    <3>1. b.gen = r.gen => Stands(r, Apply(<< >>, b), b.seq)
      <4>1. None \in Int /\ None <= None /\ b.seq > None
        BY <1>1 DEF None
      <4> QED
        BY <1>1, <2>1, <4>1, EmptyStands, NextStands
    <3> HIDE DEF h
    <3>2. GoodIndex(r, h) /\ h.cursor = b.seq /\ h.gen = b.gen
      BY <1>1, <2>2, <3>1, AdvanceGood
    <3> QED
      BY <3>2 DEF Kin, h
  <2>3. CASE h = [g EXCEPT !.fresh = FALSE]
    <3>1. h.cursor = g.cursor /\ h.gen = g.gen /\ h.index = g.index /\ h.stray = g.stray
      BY <2>3 DEF RankState
    <3> HIDE DEF h
    <3>2. GoodIndex(r, h) /\ h.cursor = b.seq
      BY <2>1, <3>1 DEF GoodIndex
    <3>3. b.gen = r.gen => Kin(r, h)
      BY <3>1 DEF Kin
    <3> QED
      BY <3>2, <3>3 DEF h
  <2> QED
    <3>1. ~Follows(g, b) /\ ~IsGap(g, b) /\ ~IsHole(g, b)
      BY <1>1, <1>5 DEF Follows, Passed, IsGap, IsHole, None
    <3> QED
      BY <2>2, <2>3, <3>1, AdmitCases
<1>6. CASE IsGap(g, b) /\ h = [g EXCEPT !.replay = TRUE, !.fresh = FALSE]
  <2>1. h.cursor = g.cursor /\ h.gen = g.gen /\ h.index = g.index /\ h.stray = g.stray
    BY <1>6 DEF RankState
  <2> HIDE DEF h
  <2>2. GoodIndex(r, h)
    BY <2>1 DEF GoodIndex
  <2> QED
    BY <1>6, <2>2 DEF h
<1>7. CASE h = Advance(g, << >>, b, TRUE)
  <2> HIDE DEF h
  <2>1. GoodIndex(r, h) /\ h.cursor = b.seq /\ h.gen = b.gen
    BY <1>1, <1>7, AdvanceGood
  <2> QED
    BY <2>1 DEF Kin, h
<1> QED
  BY <1>4, <1>5, <1>6, <1>7, AdmitCases

LEMMA DeliverReplayGood ==
  ASSUME Types, RelayInv, StreamInv, DeliverReplay
  PROVE  StreamGood(rec, job, sub', gw')
<1>0. /\ rec \in RankRecord /\ sub \in Subscriber /\ gw \in RankState /\ GoodBlocks(rec)
      /\ StreamGood(rec, job, sub, gw) /\ GoodIndex(rec, gw) /\ GoodStream(rec, job, sub, gw)
      /\ GoodReplay(rec, sub.replay, sub.sent) /\ Covered(rec, job, sub)
      /\ sub.phase = "open" /\ sub.chunks = << >>
  BY DEF Types, RelayInv, GoodRecord, StreamInv, StreamGood, DeliverReplay, MidSnapshot, IndexSoFar
<1>1. PICK b \in sub.replay : /\ IsFirst(b, sub.replay)
                              /\ Deliver([sub EXCEPT !.replay = @ \ {b}], b)
  BY DEF DeliverReplay
<1>2. /\ \A c \in sub.replay : c \in Batch /\ c.seq \in Nat /\ c.gen \in Nat
      /\ sub.sent \in Int /\ sub.sent \in Nat \cup {None}
  BY <1>0, StreamFields
<1>3. /\ \A c \in sub.replay : b.seq <= c.seq
      /\ \A c \in sub.replay \ {b} : c.seq > b.seq
  BY <1>0, <1>1, <1>2 DEF IsFirst, GoodReplay
<1>4. /\ b.gen <= rec.gen /\ b.seq > sub.sent /\ b \in Batch /\ b.seq \in Nat
      /\ b.gen = rec.gen => InRecord(rec, b) /\ b.seq <= rec.cursor /\ Kin(rec, gw)
  BY <1>0, <1>2 DEF GoodReplay, GoodStream
<1>5. sub.sent = gw.cursor \/ (sub.sent = None /\ gw.cursor = 0)
  BY <1>0 DEF GoodStream
<1>6. ASSUME b.gen = rec.gen, NEW i \in 1 .. Len(rec.blocks), rec.blocks[i].seq > sub.sent,
             rec.blocks[i].seq < b.seq
      PROVE  FALSE
  <2>1. rec.blocks[i].seq \in Nat
    BY <1>0, RecordBasics
  <2>2. rec.blocks[i] \in sub.replay
    BY <1>0, <1>4, <1>6, <2>1 DEF Covered
  <2> QED
    BY <1>3, <1>4, <1>6, <2>1, <2>2
<1>7. /\ gw' = AdmitBatch(gw, b)
      /\ sub' = IF IsGap(gw, b) THEN NoStream
                ELSE [[sub EXCEPT !.replay = @ \ {b}] EXCEPT !.sent = b.seq]
  BY <1>1 DEF Deliver
<1>8. /\ GoodIndex(rec, gw') /\ (IsGap(gw, b) \/ gw'.cursor = b.seq)
      /\ IsGap(gw, b) \/ (b.gen = rec.gen => Kin(rec, gw'))
  BY <1>0, <1>2, <1>4, <1>5, <1>6, <1>7, AdmitGood
<1>9. CASE IsGap(gw, b)
  BY <1>0, <1>7, <1>8, <1>9, NoStreamGood
<1>10. CASE ~IsGap(gw, b)
  <2>1. /\ sub'.phase = "open" /\ sub'.live = sub.live /\ sub'.chunks = << >>
        /\ sub'.replay = sub.replay \ {b} /\ sub'.sent = b.seq /\ sub'.lagged = sub.lagged
    BY <1>0, <1>7, <1>10 DEF Subscriber
  <2>2. Tainted(job, sub') <=> Tainted(job, sub)
    BY <2>1 DEF Tainted
  <2>3. GoodLive(rec, job, sub'.live) /\ GoodPhase(sub') /\ GoodChunks(rec, sub')
    BY <1>0, <2>1 DEF StreamGood, GoodPhase, GoodChunks
  <2>4. GoodReplay(rec, sub'.replay, sub'.sent)
    BY <1>0, <1>3, <2>1 DEF GoodReplay
  <2>5. Covered(rec, job, sub')
    <3> SUFFICES ASSUME NEW i \in 1 .. Len(rec.blocks), rec.blocks[i].seq > b.seq
                 PROVE  /\ \A c \in sub'.replay : c.gen = rec.gen /\ c.seq >= rec.blocks[i].seq
                              => rec.blocks[i] \in sub'.replay
                        /\ ~Tainted(job, sub') =>
                             \/ rec.blocks[i] \in sub'.replay
                             \/ \E k \in 1 .. Len(sub'.live) : sub'.live[k] = rec.blocks[i]
                             \/ job.pc = "send" /\ job.batch = rec.blocks[i]
      BY <2>1 DEF Covered
    <3>1. rec.blocks[i].seq \in Nat /\ rec.blocks[i].seq > sub.sent /\ rec.blocks[i] # b
      BY <1>0, <1>2, <1>4, RecordBasics
    <3> QED
      BY <1>0, <2>1, <2>2, <3>1 DEF Covered
  <2>6. GoodStream(rec, job, sub', gw')
    <3>1. \A c \in sub'.replay : c.gen = b.gen
      BY <1>0, <2>1 DEF GoodReplay
    <3>2. ~Tainted(job, sub') => /\ \A c \in sub'.replay : c.gen = rec.gen
                                 /\ b.gen = rec.gen
      BY <1>0, <2>1, <2>2 DEF GoodStream
    <3>3. Len(sub'.chunks) = 0
      BY <2>1
    <3> QED
      BY <1>8, <1>10, <2>1, <3>1, <3>2, <3>3 DEF GoodStream
  <2>7. IndexSoFar(rec, sub', gw')
    BY <1>8 DEF IndexSoFar, GoodIndex
  <2> QED
    BY <2>3, <2>4, <2>5, <2>6, <2>7 DEF StreamGood
<1> QED
  BY <1>9, <1>10

(* The channel without its oldest item.                                    *)
LEMMA TailLive ==
  ASSUME NEW r, NEW j, NEW live \in Seq(Batch \cup {Restart}), live # << >>, GoodLive(r, j, live)
  PROVE  /\ Len(live) \in Nat /\ Len(live) >= 1 /\ Head(live) = live[1]
         /\ Len(Tail(live)) = Len(live) - 1
         /\ \A i \in 1 .. Len(Tail(live)) : i + 1 \in 1 .. Len(live) /\ Tail(live)[i] = live[i + 1]
         /\ GoodLive(r, j, Tail(live))
<1> DEFINE T == Tail(live)
<1>1. /\ Len(live) \in Nat /\ Len(live) >= 1 /\ Head(live) = live[1]
  BY EmptySeq
<1>2. Len(T) = Len(live) - 1 /\ \A i \in 1 .. Len(live) - 1 : T[i] = live[i + 1]
  BY HeadTailProperties
<1> HIDE DEF T
<1>3. \A i \in 1 .. Len(T) : i + 1 \in 1 .. Len(live) /\ T[i] = live[i + 1]
  BY <1>1, <1>2
<1>4. ASSUME NEW i \in 1 .. Len(T), T[i] # Restart
      PROVE  /\ T[i].gen <= r.gen
             /\ T[i].gen = r.gen => /\ InRecord(r, T[i]) /\ T[i].seq <= r.cursor
                                    /\ j.pc = "send" => T[i].seq < j.batch.seq
             /\ T[i].gen # r.gen => \/ j.pc = "announce"
                                    \/ \E k \in i + 1 .. Len(T) : T[k] = Restart
  <2>1. i + 1 \in 1 .. Len(live) /\ T[i] = live[i + 1]
    BY <1>3
  <2>2. /\ T[i].gen <= r.gen
        /\ T[i].gen = r.gen => /\ InRecord(r, T[i]) /\ T[i].seq <= r.cursor
                               /\ j.pc = "send" => T[i].seq < j.batch.seq
        /\ T[i].gen # r.gen => \/ j.pc = "announce"
                               \/ \E k \in (i + 1) + 1 .. Len(live) : live[k] = Restart
    BY <1>4, <2>1 DEF GoodLive
  <2>3. ASSUME NEW k \in (i + 1) + 1 .. Len(live), live[k] = Restart
        PROVE  \E l \in i + 1 .. Len(T) : T[l] = Restart
    <3>1. k - 1 \in i + 1 .. Len(T) /\ k - 1 \in 1 .. Len(T) /\ (k - 1) + 1 = k
      BY <1>1, <1>2
    <3>2. T[k - 1] = Restart
      BY <1>3, <2>3, <3>1
    <3> QED
      BY <3>1, <3>2
  <2> QED
    BY <2>2, <2>3
<1>5. ASSUME NEW i \in 1 .. Len(T), NEW k \in 1 .. Len(T), i < k, Current(r, T[i])
      PROVE  Current(r, T[k]) /\ T[i].seq < T[k].seq
  <2>1. /\ i + 1 \in 1 .. Len(live) /\ T[i] = live[i + 1]
        /\ k + 1 \in 1 .. Len(live) /\ T[k] = live[k + 1] /\ i + 1 < k + 1
    BY <1>3, <1>5
  <2> QED
    BY <1>5, <2>1 DEF GoodLive
<1>6. GoodLive(r, j, T)
  BY <1>4, <1>5 DEF GoodLive
<1> QED
  BY <1>1, <1>2, <1>3, <1>6 DEF T

LEMMA DeliverLiveGood ==
  ASSUME Types, RelayInv, StreamInv, DeliverLive
  PROVE  StreamGood(rec, job, sub', gw')
<1> DEFINE L == sub.live
           b == L[1]
<1>0. /\ rec \in RankRecord /\ sub \in Subscriber /\ gw \in RankState /\ GoodBlocks(rec) /\ JobInv
      /\ StreamGood(rec, job, sub, gw) /\ GoodIndex(rec, gw) /\ GoodStream(rec, job, sub, gw)
      /\ GoodLive(rec, job, L) /\ Covered(rec, job, sub)
      /\ sub.phase = "open" /\ sub.chunks = << >> /\ sub.replay = {} /\ ~sub.lagged /\ L # << >>
  BY DEF Types, RelayInv, GoodRecord, StreamInv, StreamGood, DeliverLive, AtLive, MidSnapshot,
         IndexSoFar
<1>1. /\ L \in Seq(Batch \cup {Restart}) /\ sub.sent \in Int
      /\ \A i \in 1 .. Len(L) : L[i] # Restart => L[i] \in Batch /\ L[i].seq \in Nat /\ L[i].gen \in Nat
  BY <1>0, StreamFields
<1>2. /\ Len(L) \in Nat /\ Len(L) >= 1 /\ Head(L) = b /\ 1 \in 1 .. Len(L)
      /\ Len(Tail(L)) = Len(L) - 1
      /\ \A i \in 1 .. Len(Tail(L)) : i + 1 \in 1 .. Len(L) /\ Tail(L)[i] = L[i + 1]
      /\ GoodLive(rec, job, Tail(L))
  BY <1>0, <1>1, TailLive
<1>3. CASE sub' = NoStream /\ gw' = ResetWorker(gw)
  BY <1>0, <1>3, ResetWorkerGood, NoStreamGood
<1>4. ASSUME NEW i \in 1 .. Len(L) PROVE i = 1 \/ \E k \in 1 .. Len(Tail(L)) : Tail(L)[k] = L[i]
  <2> SUFFICES ASSUME i # 1 PROVE \E k \in 1 .. Len(Tail(L)) : Tail(L)[k] = L[i]
    OBVIOUS
  <2>1. i - 1 \in 1 .. Len(Tail(L)) /\ (i - 1) + 1 = i
    BY <1>2
  <2> QED
    BY <1>2, <2>1
(* What both kinds of delivery leave for the rest of the stream.           *)
<1>5. ASSUME b # Restart, NEW t, t.phase = "open", t.live = Tail(L), t.chunks = << >>, t.replay = {},
             t.lagged = sub.lagged, NEW h, GoodIndex(rec, h), t.sent \in Int,
             t.sent >= sub.sent, t.sent >= b.seq,
             t.sent = h.cursor \/ (t.sent = None /\ h.cursor = 0),
             ~Tainted(job, t) => Kin(rec, h)
      PROVE  StreamGood(rec, job, t, h)
  <2>1. Tainted(job, t) <=> Tainted(job, sub)
    <3>1. (\E i \in 1 .. Len(Tail(L)) : Tail(L)[i] = Restart) <=> \E i \in 1 .. Len(L) : L[i] = Restart
      BY <1>2, <1>4, <1>5
    <3> QED
      BY <1>5, <3>1 DEF Tainted
  <2>2. Covered(rec, job, t)
    <3> SUFFICES ASSUME NEW i \in 1 .. Len(rec.blocks), rec.blocks[i].seq > t.sent, ~Tainted(job, t)
                 PROVE  \/ \E k \in 1 .. Len(Tail(L)) : Tail(L)[k] = rec.blocks[i]
                        \/ job.pc = "send" /\ job.batch = rec.blocks[i]
      BY <1>5 DEF Covered
    <3>1. rec.blocks[i].seq \in Nat /\ b.seq \in Nat
      BY <1>0, <1>1, <1>2, <1>5, RecordBasics
    <3>2. rec.blocks[i].seq > sub.sent /\ rec.blocks[i].seq > b.seq
      BY <1>1, <1>5, <3>1
    <3>3. rec.blocks[i] # b
      BY <3>1, <3>2
    <3>4. \/ \E k \in 1 .. Len(L) : L[k] = rec.blocks[i]
          \/ job.pc = "send" /\ job.batch = rec.blocks[i]
      BY <1>0, <2>1, <3>2 DEF Covered
    <3>5. ASSUME NEW k \in 1 .. Len(L), L[k] = rec.blocks[i]
          PROVE  \E l \in 1 .. Len(Tail(L)) : Tail(L)[l] = rec.blocks[i]
      BY <1>4, <3>3, <3>5
    <3> QED
      BY <3>4, <3>5
  <2>3. GoodStream(rec, job, t, h)
    <3>1. Len(t.chunks) = 0
      BY <1>5
    <3> QED
      BY <1>5, <3>1 DEF GoodStream
  <2>4. GoodPhase(t) /\ GoodChunks(rec, t) /\ GoodReplay(rec, t.replay, t.sent)
    BY <1>5 DEF GoodPhase, GoodChunks, GoodReplay
  <2>5. IndexSoFar(rec, t, h)
    BY <1>5 DEF IndexSoFar, GoodIndex
  <2> QED
    BY <1>2, <1>5, <2>2, <2>3, <2>4, <2>5 DEF StreamGood
<1>6. sub.sent = gw.cursor \/ (sub.sent = None /\ gw.cursor = 0)
  BY <1>0 DEF GoodStream
<1>7. CASE /\ b # Restart /\ b.seq <= sub.sent
           /\ sub' = [sub EXCEPT !.live = Tail(@)] /\ UNCHANGED gw
  <2>1. /\ sub'.phase = "open" /\ sub'.live = Tail(L) /\ sub'.chunks = << >> /\ sub'.replay = {}
        /\ sub'.lagged = sub.lagged /\ sub'.sent = sub.sent
    BY <1>0, <1>7 DEF Subscriber
  <2>2. sub.sent >= b.seq /\ sub.sent >= sub.sent
    BY <1>1, <1>2, <1>7
  <2>3. Tainted(job, sub) => Tainted(job, sub')
    <3>1. (\E i \in 1 .. Len(L) : L[i] = Restart) => \E i \in 1 .. Len(Tail(L)) : Tail(L)[i] = Restart
      BY <1>4, <1>7
    <3> HIDE DEF L
    <3> QED
      BY <2>1, <3>1 DEF Tainted, L
  <2>4. ~Tainted(job, sub') => Kin(rec, gw)
    BY <1>0, <2>3 DEF GoodStream
  <2>5. gw' = gw
    BY <1>7
  <2>6. sub'.sent \in Int /\ sub'.sent >= sub.sent /\ sub'.sent >= b.seq
    BY <1>1, <2>1, <2>2
  <2>7. sub'.sent = gw.cursor \/ (sub'.sent = None /\ gw.cursor = 0)
    BY <1>6, <2>1
  <2>8. StreamGood(rec, job, sub', gw)
    <3> HIDE DEF L, b
    <3> QED
      BY <1>0, <1>5, <1>7, <2>1, <2>4, <2>6, <2>7
  <2> QED
    BY <2>5, <2>8
<1>8. CASE b # Restart /\ b.seq > sub.sent /\ Deliver([sub EXCEPT !.live = Tail(@)], b)
  <2>1. b \in Batch /\ b.seq \in Nat /\ b.gen \in Nat
    BY <1>1, <1>2, <1>8
  <2>2. /\ b.gen <= rec.gen
        /\ b.gen = rec.gen => /\ InRecord(rec, b) /\ b.seq <= rec.cursor
                              /\ job.pc = "send" => b.seq < job.batch.seq
        /\ b.gen # rec.gen => \/ job.pc = "announce"
                              \/ \E k \in 1 + 1 .. Len(L) : L[k] = Restart
        /\ b.gen = rec.gen => \A k \in 1 .. Len(L) : 1 < k => L[k] # Restart /\ b.seq < L[k].seq
    BY <1>0, <1>2, <1>8 DEF GoodLive, Current
  <2>3. b.gen = rec.gen => ~Tainted(job, sub)
    <3> SUFFICES ASSUME b.gen = rec.gen PROVE ~Tainted(job, sub)
      OBVIOUS
    <3>1. job.pc # "announce"
      <4> SUFFICES ASSUME job.pc = "announce" PROVE FALSE
        OBVIOUS
      <4>1. rec.blocks = << >>
        BY <1>0 DEF JobInv, GoodBlocks
      <4> QED
        BY <2>2, <4>1 DEF InRecord, Superseded
    <3>2. \A k \in 1 .. Len(L) : L[k] # Restart
      <4> SUFFICES ASSUME NEW k \in 1 .. Len(L) PROVE L[k] # Restart
        OBVIOUS
      <4>1. k = 1 \/ 1 < k
        BY <1>2
      <4> QED
        BY <1>8, <2>2, <4>1
    <3> QED
      BY <1>0, <3>1, <3>2 DEF Tainted
  <2>4. ASSUME b.gen = rec.gen, NEW i \in 1 .. Len(rec.blocks), rec.blocks[i].seq > sub.sent,
               rec.blocks[i].seq < b.seq
        PROVE  FALSE
    <3>1. rec.blocks[i].seq \in Nat
      BY <1>0, RecordBasics
    <3>2. \/ \E k \in 1 .. Len(L) : L[k] = rec.blocks[i]
          \/ job.pc = "send" /\ job.batch = rec.blocks[i]
      BY <1>0, <2>3, <2>4 DEF Covered
    <3>3. CASE job.pc = "send" /\ job.batch = rec.blocks[i]
      BY <2>1, <2>2, <2>4, <3>1, <3>3
    <3>4. ASSUME NEW k \in 1 .. Len(L), L[k] = rec.blocks[i] PROVE FALSE
      <4>1. k = 1 \/ 1 < k
        BY <1>2
      <4>2. CASE k = 1
        BY <2>1, <2>4, <3>4, <4>2
      <4>3. CASE 1 < k
        <5>1. b.seq < rec.blocks[i].seq
          BY <2>2, <2>4, <3>4, <4>3
        <5> QED
          BY <2>1, <2>4, <3>1, <5>1
      <4> QED
        BY <4>1, <4>2, <4>3
    <3> QED
      BY <3>2, <3>3, <3>4
  <2>5. b.gen = rec.gen => Kin(rec, gw)
    BY <1>0, <2>3 DEF GoodStream
  <2>6. /\ gw' = AdmitBatch(gw, b)
        /\ sub' = IF IsGap(gw, b) THEN NoStream
                  ELSE [[sub EXCEPT !.live = Tail(@)] EXCEPT !.sent = b.seq]
    BY <1>8 DEF Deliver
  <2>7. /\ GoodIndex(rec, gw') /\ (IsGap(gw, b) \/ gw'.cursor = b.seq)
        /\ IsGap(gw, b) \/ (b.gen = rec.gen => Kin(rec, gw'))
    <3> HIDE DEF b
    <3> QED
      BY <1>0, <1>1, <1>6, <1>8, <2>1, <2>2, <2>4, <2>5, <2>6, AdmitGood
  <2>8. CASE IsGap(gw, b)
    BY <1>0, <2>6, <2>7, <2>8, NoStreamGood
  <2>9. CASE ~IsGap(gw, b)
    <3>1. /\ sub'.phase = "open" /\ sub'.live = Tail(L) /\ sub'.chunks = << >> /\ sub'.replay = {}
          /\ sub'.lagged = sub.lagged /\ sub'.sent = b.seq
      BY <1>0, <2>6, <2>9 DEF Subscriber
    <3>2. b.gen # rec.gen => Tainted(job, sub')
      <4> SUFFICES ASSUME b.gen # rec.gen PROVE Tainted(job, sub')
        OBVIOUS
      <4>1. ASSUME NEW k \in 1 + 1 .. Len(L), L[k] = Restart
            PROVE  \E l \in 1 .. Len(Tail(L)) : Tail(L)[l] = Restart
        <5>1. k \in 1 .. Len(L) /\ k # 1
          BY <1>2
        <5> QED
          BY <1>4, <4>1, <5>1
      <4>2. job.pc = "announce" \/ \E l \in 1 .. Len(Tail(L)) : Tail(L)[l] = Restart
        BY <2>2, <4>1
      <4> QED
        BY <3>1, <4>2 DEF Tainted
    <3>3. ~Tainted(job, sub') => Kin(rec, gw')
      BY <2>7, <2>9, <3>2
    <3>4. sub'.sent \in Int /\ sub'.sent >= sub.sent /\ sub'.sent >= b.seq
      BY <1>1, <1>8, <2>1, <3>1
    <3>5. sub'.sent = gw'.cursor
      BY <2>7, <2>9, <3>1
    <3> HIDE DEF L, b
    <3> QED
      BY <1>0, <1>5, <1>8, <2>7, <3>1, <3>3, <3>4, <3>5
  <2> QED
    BY <2>8, <2>9
<1> QED
  <2>1. LET item == b
            rest == [sub EXCEPT !.live = Tail(@)]
        IN \/ item = Restart /\ sub' = NoStream /\ gw' = ResetWorker(gw)
           \/ /\ item # Restart /\ item.seq <= sub.sent
              /\ sub' = rest /\ UNCHANGED gw
           \/ item # Restart /\ item.seq > sub.sent /\ Deliver(rest, item)
    <3> HIDE DEF b
    <3> QED
      BY <1>2 DEF DeliverLive
  <2> QED
    BY <1>3, <1>7, <1>8, <2>1

-------------------------------------------------------------------------------
LEMMA InitStream == Init => StreamInv
<1> SUFFICES ASSUME Init PROVE StreamInv
  OBVIOUS
<1>1. rec \in RankRecord /\ rec.gen = 0
  BY NewRecordType DEF Init, NewRecord
<1>2. GoodIndex(rec, gw)
  BY <1>1 DEF Init, GoodIndex
<1> QED
  BY <1>1, <1>2, NoStreamGood DEF Init, StreamInv

LEMMA NextStream == StreamInv /\ RelayInv /\ Types /\ [Next]_vars => StreamInv'
<1> SUFFICES ASSUME StreamInv, RelayInv, Types, [Next]_vars PROVE StreamInv'
  OBVIOUS
<1> USE DEF vars, engine, relay
<1>0. /\ rec \in RankRecord /\ job \in Job /\ sub \in Subscriber /\ gw \in RankState
      /\ Len(sub.live) <= LiveChannel /\ StreamGood(rec, job, sub, gw)
      /\ GoodRecord(rec) /\ JobInv
  BY DEF Types, StreamInv, RelayInv
<1>1. rec' \in RankRecord
  BY NextTypes DEF Types
<1>2. CASE RelayStep
  <2>1. RelayEffect /\ UNCHANGED <<sub, gw>>
    BY <1>2, RelayStepGood
  <2>2. CASE Steady
    BY <1>0, <1>1, <2>1, <2>2, SteadyStream DEF Steady, Between, StreamInv
  <2>3. ASSUME NEW b \in Batch, Recorded(b) PROVE StreamInv'
    BY <1>0, <1>1, <2>1, <2>3, RecordedStream DEF Recorded, Between, StreamInv
  <2>4. CASE StartedOver
    BY <1>0, <2>1, <2>4, StartedOverStream DEF StartedOver, StreamInv
  <2> QED
    BY <2>1, <2>2, <2>3, <2>4 DEF RelayEffect
<1>3. CASE Send
  <2>1. job.pc = "send" /\ job' = job.next /\ sub' = Sent(sub, job.batch) /\ UNCHANGED <<rec, gw>>
    BY <1>3 DEF Send
  <2>2. job.batch \in Batch /\ (job' = Idle \/ job'.pc = "fill")
    BY <1>0, <2>1, JobFields, FillFields
  <2>3. job'.pc \notin {"send", "announce"}
    BY <2>2 DEF Idle
  <2>4. /\ rec.cursor = job.batch.seq /\ job.batch.gen = rec.gen
        /\ rec.blocks # << >> /\ job.batch = rec.blocks[Len(rec.blocks)]
    BY <1>0, <2>1 DEF JobInv
  <2>5. Len(rec.blocks) \in 1 .. Len(rec.blocks)
    BY <1>0, <2>4, RecordBasics, EmptySeq
  <2>6. InRecord(rec, job.batch)
    BY <2>4, <2>5 DEF InRecord
  <2>7. StreamGood(rec, job', Sent(sub, job.batch), gw)
    BY <1>0, <2>1, <2>2, <2>3, <2>4, <2>6, SendStream
  <2> QED
    BY <2>1, <2>7 DEF StreamInv
<1>4. CASE Announce
  <2>1. job.pc = "announce" /\ job' = Rejoin(job.msg) /\ sub' = Sent(sub, Restart)
        /\ UNCHANGED <<rec, gw>>
    BY <1>4 DEF Announce
  <2>2. job'.pc \notin {"send", "announce"}
    BY <2>1 DEF Rejoin, Ask, Fill
  <2>3. rec.blocks = << >>
    BY <1>0, <2>1 DEF JobInv, GoodRecord, GoodBlocks
  <2>4. StreamGood(rec, job', Sent(sub, Restart), gw)
    BY <1>0, <2>1, <2>2, <2>3, AnnounceStream
  <2> QED
    BY <2>1, <2>4 DEF StreamInv
<1>5. CASE Publish \/ EngineRestart \/ PrimeAgain \/ UNCHANGED vars
  <2>1. UNCHANGED <<rec, job, sub, gw>>
    BY <1>5 DEF Publish, EngineRestart, PrimeAgain
  <2> QED
    BY <1>0, <2>1 DEF StreamInv
<1>6. CASE StreamStep
  <2>1. rec' = rec /\ job' = job
    BY <1>6, StreamStepRelay
  <2>2. StreamGood(rec, job, sub', gw')
    <3>1. CASE Subscribe
      <4>1. sub = NoStream /\ sub' = [NoStream EXCEPT !.phase = "joining"] /\ gw' = gw
        BY <1>0, <3>1 DEF Subscribe, StreamGood, GoodPhase
      <4>2. ~MidSnapshot(sub)
        BY <4>1 DEF MidSnapshot, NoStream
      <4> QED
        BY <1>0, <4>1, <4>2, SettledIndex, NoStreamGood
    <3> QED
      BY <1>6, <3>1, ServeGood, DeliverChunkGood, DeliverReplayGood, DeliverLiveGood, RefillGood,
         BreakGood
      DEF StreamStep
  <2> QED
    BY <2>1, <2>2 DEF StreamInv
<1> QED
  BY <1>2, <1>3, <1>4, <1>5, <1>6, NextCases

LEMMA IndexMatches == Types /\ RelayInv /\ StreamInv => IndexMatchesRecord
<1> SUFFICES ASSUME Types, RelayInv, StreamInv, Drained, job.pc = "recv", gw.cursor = rec.cursor,
                    ~gw.stray
             PROVE  gw.index = rec.blocks
  BY DEF IndexMatchesRecord
<1>0. /\ rec \in RankRecord /\ sub \in Subscriber /\ gw \in RankState /\ GoodBlocks(rec)
      /\ GoodIndex(rec, gw) /\ GoodStream(rec, job, sub, gw)
  BY DEF Types, RelayInv, GoodRecord, StreamInv, StreamGood, IndexSoFar, MidSnapshot, Drained
<1>1. CASE rec.cursor = None
  BY <1>0, <1>1 DEF GoodBlocks, GoodIndex
<1>2. CASE rec.cursor # None
  <2>1. ~Tainted(job, sub) /\ sub.phase = "open"
    BY DEF Drained, Tainted
  <2>2. gw.gen = rec.gen
    BY <1>0, <1>2, <2>1 DEF GoodStream, Kin
  <2>3. Stands(rec, gw.index, rec.cursor)
    BY <1>0, <1>2, <2>2 DEF GoodIndex
  <2>4. /\ rec.blocks \in Seq(Batch) /\ Len(rec.blocks) \in Nat /\ rec.cursor \in Int
        /\ gw.index \in Seq(Batch) /\ Len(gw.index) \in Nat
        /\ \A i \in 1 .. Len(rec.blocks) : rec.blocks[i].seq \in Nat /\ rec.blocks[i].seq <= rec.cursor
    BY <1>0, RecordBasics, RankFields DEF GoodBlocks
  <2>5. ~Superseded(rec, rec.cursor)
    <3> SUFFICES ASSUME rec.blocks # << >>, rec.cursor < rec.blocks[1].seq PROVE FALSE
      BY DEF Superseded
    <3>1. 1 \in 1 .. Len(rec.blocks)
      BY <2>4
    <3> QED
      BY <2>4, <3>1
  <2>6. /\ Len(gw.index) <= Len(rec.blocks)
        /\ \A i \in 1 .. Len(gw.index) : gw.index[i] = rec.blocks[i]
        /\ \A i \in Len(gw.index) + 1 .. Len(rec.blocks) : rec.blocks[i].seq > rec.cursor
    BY <2>3, <2>5 DEF Stands
  <2>7. Len(gw.index) = Len(rec.blocks)
    <3> SUFFICES ASSUME Len(gw.index) # Len(rec.blocks) PROVE FALSE
      OBVIOUS
    <3>1. /\ Len(rec.blocks) \in Len(gw.index) + 1 .. Len(rec.blocks)
          /\ Len(rec.blocks) \in 1 .. Len(rec.blocks)
      BY <2>4, <2>6
    <3> QED
      BY <2>4, <2>6, <3>1
  <2> QED
    BY <2>4, <2>6, <2>7, SeqEqual
<1> QED
  BY <1>1, <1>2

(* A gateway that stands where the relay's record stands, with nothing on  *)
(* its way to it, holds the blocks of the record: over live batches,       *)
(* windows, snapshots cut short, lags, restarts and broken streams, unless *)
(* its index went on by number alone or from the part of an abandoned      *)
(* snapshot, or was cleared for a large gap.                               *)
THEOREM IndexIsFaithful == Spec => []IndexMatchesRecord
<1>1. Init => Types /\ RelayInv /\ StreamInv
  BY InitTypes, InitRelay, InitStream
<1>2. Types /\ RelayInv /\ StreamInv /\ [Next]_vars => (Types /\ RelayInv /\ StreamInv)'
  BY NextTypes, NextRelay, NextStream
<1> QED
  BY <1>1, <1>2, IndexMatches, PTL DEF Spec
===============================================================================
