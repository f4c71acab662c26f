---------------------------- MODULE WorkflowProofs ----------------------------
(***************************************************************************)
(* For every finite DAG of steps, whatever their outcomes, delays and      *)
(* conditions, and however cancellations and clean-ups fall: steps are     *)
(* launched once and in order, the verdict of a workflow is that of its    *)
(* steps, and a completed shutdown leaves none under way.                  *)
(***************************************************************************)
EXTENDS Workflow, FiniteSetTheorems, TLAPS

Live  == {"gate", "check", "begin", "run", "success", "fatal", "retryable", "backoff",
          "settle"}
Ended == {"record", "over"}

(* A step is in one place only: not launched, running or processed.        *)
PlaceInv ==
  \A s \in Step :
    /\ s \in Processed <=> task[s] \in Ended
    /\ s \in running <=> task[s] \in Live
    /\ s \in waiting => task[s] = "none"
    /\ s \in failed => s \notin Satisfied

(* A step that waits for its delay has its dependencies behind it.         *)
DependenciesMet(s) ==
  /\ DependsOn[s] \subseteq Satisfied
  /\ DependsOnAny[s] # {} => DependsOnAny[s] \cap Satisfied # {}

WaitInv == \A s \in waiting : DependenciesMet(s)

(* The channel holds each completion once.                                 *)
ChannelInv ==
  /\ \A i \in 1 .. Len(inbox) : inbox[i] \in Processed
  /\ \A i, j \in 1 .. Len(inbox) : inbox[i] = inbox[j] => i = j

(* No step is forgotten: it will be looked at now, when a completion is    *)
(* read, or when a dependency ends well.                                   *)
CheckInv ==
  pc # "done" => \A s \in Step :
    task[s] = "none" /\ s \notin waiting =>
      \/ s \in pending
      \/ \E d \in Dependencies(s) : d \notin Satisfied \/ d \in Received

(* What the loop has seen still holds when it acts on it.                  *)
LoopInv ==
  /\ pc \in {"redrain", "blocked"} =>
       pending = {} /\ running = {} /\ waiting = {} /\ Processed # Step
  /\ pc = "blocked" => inbox = << >>
  /\ pc = "finish" => Processed = Step

(* The count of active workflows, and a shutdown that has been waited for. *)
CountInv ==
  /\ active = IF pc \in {"new", "refused", "done"} THEN 0 ELSE 1
  /\ drained => closing

(* A step that backs off has an attempt left, and one that owes the store  *)
(* a status knows which.                                                   *)
RetryInv ==
  \A s \in Step :
    /\ task[s] = "backoff" => OnFailure[s] = "retry" \/ attempt[s] < MaxAttempts
    /\ task[s] = "record" => result[s].owed # "none"

StepInv == PlaceInv /\ WaitInv /\ ChannelInv /\ CheckInv

EngineInv ==
  /\ TypeOK /\ RetryInv
  /\ StepInv
  /\ LoopInv /\ CountInv
  /\ VerdictMatchesSteps
  /\ ShutdownIsComplete

-------------------------------------------------------------------------------
(* Lemmas about the operators.                                             *)

(* A channel that holds no completion twice holds at most one a step.      *)
LEMMA ChannelFits ==
  ASSUME NEW q \in Seq(Step),
         \A i, j \in 1 .. Len(q) : q[i] = q[j] => i = j
  PROVE  Len(q) <= Cardinality(Step)
<1>1. IsFiniteSet(1 .. Len(q)) /\ Cardinality(1 .. Len(q)) = Len(q)
  <2>1. Len(q) \in Nat
    OBVIOUS
  <2>2. Cardinality(1 .. Len(q)) = IF 1 > Len(q) THEN 0 ELSE Len(q) - 1 + 1
    BY <2>1, FS_Interval
  <2>. QED  BY <2>1, <2>2, FS_Interval
<1>2. q \in Injection(1 .. Len(q), Step)
  <2>1. q \in [1 .. Len(q) -> Step]
    OBVIOUS
  <2>. QED  BY <2>1 DEF Injection, IsInjective
<1>. QED  BY <1>1, <1>2, FS_Injection, WorkflowAssumption DEF ExistsInjection

(* Nothing unlaunched can make progress only if a step has failed: the     *)
(* first step, in the order of the DAG, that is not processed waits for    *)
(* one that is, and did not end well.                                      *)
LEMMA BlockedHasFailed ==
  ASSUME TypeOK, PlaceInv, CheckInv, LoopInv, pc = "blocked"
  PROVE  failed # {}
<1>1. PICK s \in Step \ Processed : Dependencies(s) \cap (Step \ Processed) = {}
  <2>1. Step \ Processed # {} /\ Step \ Processed \in SUBSET Step
    BY DEF LoopInv, TypeOK, Processed
  <2>. QED  BY <2>1, WorkflowAssumption DEF IsDag
<1>2. task[s] = "none" /\ s \notin waiting /\ s \notin pending
  BY <1>1 DEF LoopInv, PlaceInv, TypeOK, Live, Ended
<1>3. Received = {}
  BY DEF LoopInv, Received
<1>4. PICK d \in Dependencies(s) : d \notin Satisfied
  BY <1>1, <1>2, <1>3 DEF CheckInv
<1>5. d \in Step
  BY <1>1, WorkflowAssumption DEF Dependencies
<1>. QED  BY <1>1, <1>4, <1>5 DEF Processed, Satisfied

-------------------------------------------------------------------------------
(* What a step's task does before and after it settles.                    *)

StoreStep ==
  /\ store' \in State \cup {Removed}
  /\ store' = store \/ (store # Removed /\ store'.status = store.status)

OthersStand == UNCHANGED <<pc, caller, tracker, channel>>

DataTyped ==
  /\ attempt' \in [Step -> 1 .. MaxAttempts]
  /\ copy' \in [Step -> SUBSET Step]
  /\ result' \in [Step -> Result]

OthersKeep(s) ==
  \A t \in Step \ {s} : attempt'[t] = attempt[t] /\ result'[t] = result[t]

Moves(s, p) ==
  /\ OthersStand
  /\ Goto(s, p)
  /\ p # "gate"
  /\ (task[s] \in Live /\ p \in Live) \/ (task[s] \in Ended /\ p = "over")
  /\ p = "backoff" => OnFailure[s] = "retry" \/ attempt'[s] < MaxAttempts
  /\ StoreStep /\ DataTyped /\ OthersKeep(s)

LEMMA SetStepTyped ==
  ASSUME TypeOK, store # Removed, NEW s \in Step,
         NEW status \in {"Pending", "Running", "Succeeded", "Failed", "Retrying", "Skipped"},
         SetStep(s, status)
  PROVE  StoreStep
  BY DEF TypeOK, SetStep, State, StoreStep

Reports(s) ==
  \/ ReportFailure(s)
  \/ \E signal \in {"success", "skip", "failure"}, owed \in {"none", "Failed", "Skipped"} :
       Report(s, signal, owed)

(* A task on its way to settle.                                            *)
LEMMA ReportMoves ==
  ASSUME TypeOK, NEW s \in Step, Reports(s), task[s] \in Live, OthersStand, StoreStep,
         UNCHANGED <<attempt, copy>>
  PROVE  Moves(s, "settle")
<1>1. Goto(s, "settle")
  BY DEF Reports, ReportFailure, Report
<1>2. result' \in [Step -> Result] /\ \A t \in Step \ {s} : result'[t] = result[t]
  <2>1. PICK r \in Result : result' = [result EXCEPT ![s] = r]
    BY DEF Reports, ReportFailure, Report, Result
  <2>. QED  BY <2>1 DEF TypeOK
<1>3. DataTyped /\ OthersKeep(s)
  BY <1>2 DEF DataTyped, OthersKeep, TypeOK
<1>. QED  BY <1>1, <1>3 DEF Moves, Live

(* A task on its way to somewhere else.                                    *)
LEMMA GotoMoves ==
  ASSUME TypeOK, NEW s \in Step, NEW p \in Live \ {"gate", "backoff"}, Goto(s, p), task[s] \in Live,
         OthersStand, StoreStep, copy' \in [Step -> SUBSET Step],
         UNCHANGED <<attempt, result>>
  PROVE  Moves(s, p)
<1>1. DataTyped /\ OthersKeep(s)
  BY DEF DataTyped, OthersKeep, TypeOK
<1>. QED  BY <1>1 DEF Moves

(* A step's task moves within its life, or within what it does after.      *)
LEMMA TaskMoves ==
  ASSUME TypeOK, RetryInv, NEW s \in Step, RunStep(s), ~Settle(s)
  PROVE  \E p : Moves(s, p)
<1>0. /\ store \in State \cup {Removed}
      /\ copy \in [Step -> SUBSET Step] /\ result \in [Step -> Result]
      /\ UNCHANGED store => StoreStep
      /\ UNCHANGED copy => copy' \in [Step -> SUBSET Step]
  BY DEF TypeOK, StoreStep
<1>1. CASE RunIfGate(s)
  <2>1. task[s] \in Live /\ OthersStand /\ StoreStep /\ UNCHANGED <<attempt, copy>>
    BY <1>0, <1>1 DEF RunIfGate, OthersStand, Live
  <2>2. (Goto(s, "check") /\ UNCHANGED result) \/ Reports(s)
    BY <1>1 DEF RunIfGate, Reports
  <2>3. "check" \in Live \ {"gate", "backoff"}
    BY DEF Live
  <2>. QED  BY <1>0, <2>1, <2>2, <2>3, ReportMoves, GotoMoves
<1>2. CASE CheckBeforeAttempt(s)
  <2>1. task[s] \in Live /\ OthersStand /\ StoreStep /\ UNCHANGED <<attempt, copy>>
    BY <1>0, <1>2 DEF CheckBeforeAttempt, OthersStand, Live
  <2>2. (Goto(s, "begin") /\ UNCHANGED result) \/ Reports(s)
    BY <1>2 DEF CheckBeforeAttempt, Reports
  <2>3. "begin" \in Live \ {"gate", "backoff"}
    BY DEF Live
  <2>. QED  BY <1>0, <2>1, <2>2, <2>3, ReportMoves, GotoMoves
<1>3. CASE BeginAttempt(s)
  <2>0. task[s] \in Live /\ OthersStand /\ UNCHANGED attempt
    BY <1>3 DEF BeginAttempt, OthersStand, Live
  <2>1. CASE store = Removed
    <3>1. Reports(s) /\ UNCHANGED <<store, copy>>
      BY <1>3, <2>1 DEF BeginAttempt, Reports
    <3>. QED  BY <1>0, <2>0, <3>1, ReportMoves
  <2>2. CASE store # Removed
    <3>1. StoreStep
      BY <1>3, <2>2, SetStepTyped DEF BeginAttempt
    <3>2. copy' \in [Step -> SUBSET Step]
      BY <1>0, <1>3, <2>2 DEF BeginAttempt, State
    <3>3. Goto(s, "run") /\ UNCHANGED result
      BY <1>3, <2>2 DEF BeginAttempt
    <3>4. "run" \in Live \ {"gate", "backoff"}
      BY DEF Live
    <3>. QED  BY <2>0, <3>1, <3>2, <3>3, <3>4, GotoMoves
  <2>. QED  BY <2>1, <2>2
<1>4. CASE RunOnce(s)
  <2>1. PICK out \in Outcomes[s] :
          \E context \in IF out = "success" THEN {copy[s] \cup {s}}
                                            ELSE {copy[s], copy[s] \cup {s}} :
            WriteBack(s, out, context)
    BY <1>4 DEF RunOnce
  <2>2. PICK context \in SUBSET Step : WriteBack(s, out, context)
    BY <1>0, <2>1
  <2>3. task[s] \in Live /\ OthersStand /\ UNCHANGED <<attempt, copy>>
    BY <1>4 DEF RunOnce, OthersStand, Live
  <2>4. out \in Outcome
    BY WorkflowAssumption
  <2>5. CASE out = "skip" \/ store = Removed
    <3>1. UNCHANGED store
      BY <2>2, <2>5 DEF WriteBack
    <3>2. Reports(s)
      BY <2>2, <2>5 DEF WriteBack, Reports
    <3>. QED  BY <1>0, <2>3, <3>1, <3>2, ReportMoves
  <2>6. CASE out # "skip" /\ store # Removed
    <3>1. store' = [store EXCEPT !.context = context] /\ Goto(s, out) /\ UNCHANGED result
      BY <2>2, <2>6 DEF WriteBack
    <3>2. StoreStep
      BY <1>0, <2>6, <3>1 DEF StoreStep, State
    <3>3. out \in Live \ {"gate", "backoff"}
      BY <2>4, <2>6 DEF Outcome, Live
    <3>. QED  BY <1>0, <2>3, <3>1, <3>2, <3>3, GotoMoves
  <2>. QED  BY <2>5, <2>6
<1>5. CASE Succeed(s)
  <2>1. task[s] \in Live /\ OthersStand /\ UNCHANGED <<attempt, copy>>
    BY <1>5 DEF Succeed, OthersStand, Live
  <2>2. Reports(s)
    BY <1>5 DEF Succeed, Reports
  <2>3. StoreStep
    BY <1>0, <1>5, SetStepTyped DEF Succeed
  <2>. QED  BY <2>1, <2>2, <2>3, ReportMoves
<1>6. CASE RecordFailure(s)
  <2>1. task[s] \in Live /\ OthersStand /\ UNCHANGED <<attempt, copy>>
    BY <1>6 DEF RecordFailure, OthersStand, Live
  <2>2. StoreStep
    BY <1>0, <1>6, SetStepTyped DEF RecordFailure
  <2>3. CASE store # Removed /\ WillRetry(s)
    <3>1. Goto(s, "backoff") /\ UNCHANGED result
      BY <1>6, <2>3 DEF RecordFailure
    <3>2. DataTyped /\ OthersKeep(s)
      BY <2>1, <3>1 DEF DataTyped, OthersKeep, TypeOK
    <3>3. OnFailure[s] = "retry" \/ attempt'[s] < MaxAttempts
      BY <2>1, <2>3 DEF WillRetry
    <3>4. Moves(s, "backoff")
      BY <2>1, <2>2, <3>1, <3>2, <3>3 DEF Moves, Live
    <3>. QED  BY <3>4
  <2>4. CASE ~(store # Removed /\ WillRetry(s))
    <3>1. Reports(s)
      BY <1>6, <2>4 DEF RecordFailure, Reports
    <3>. QED  BY <2>1, <2>2, <3>1, ReportMoves
  <2>. QED  BY <2>3, <2>4
<1>7. CASE WaitBeforeRetry(s)
  <2>1. task[s] \in Live /\ OthersStand /\ UNCHANGED <<store, copy, result>>
    BY <1>7 DEF WaitBeforeRetry, OthersStand, Live
  <2>2. DataTyped /\ OthersKeep(s)
    BY <1>7, <2>1, WorkflowAssumption DEF WaitBeforeRetry, DataTyped, OthersKeep, TypeOK, RetryInv
  <2>3. Moves(s, "check")
    BY <1>0, <1>7, <2>1, <2>2 DEF WaitBeforeRetry, Moves, Live
  <2>. QED  BY <2>3
<1>8. CASE RecordStepStatus(s)
  <2>1. /\ task[s] = "record" /\ Goto(s, "over")
        /\ OthersStand /\ UNCHANGED <<attempt, copy, result>>
    BY <1>8 DEF RecordStepStatus, OthersStand
  <2>2. result[s].owed \in {"Failed", "Skipped"}
    BY <1>0, <2>1 DEF RetryInv, Result
  <2>3. StoreStep
    BY <1>0, <1>8, <2>2, SetStepTyped DEF RecordStepStatus
  <2>4. DataTyped /\ OthersKeep(s)
    BY <2>1 DEF DataTyped, OthersKeep, TypeOK
  <2>5. Moves(s, "over")
    BY <2>1, <2>3, <2>4 DEF Moves, Ended
  <2>. QED  BY <2>5
<1>. QED  BY <1>1, <1>2, <1>3, <1>4, <1>5, <1>6, <1>7, <1>8 DEF RunStep

LEMMA MovesInv ==
  ASSUME EngineInv, NEW s \in Step, NEW p, Moves(s, p)
  PROVE  EngineInv'
<1>. USE DEF EngineInv, StepInv
<1>1. /\ UNCHANGED <<pc, active, closing, drained, cancels, inbox, pending, launched>>
      /\ UNCHANGED <<completed, failed, skipped, running, waiting, ripe>>
  BY DEF Moves, OthersStand, caller, tracker, channel
<1>2. /\ UNCHANGED <<Processed, Satisfied, Received>>
  BY <1>1 DEF Processed, Satisfied, Received
<1>3. /\ \A t \in Step \ {s} : task'[t] = task[t]
      /\ task'[s] = p
      /\ task[s] \in Live <=> task'[s] \in Live
      /\ task[s] \in Ended <=> task'[s] \in Ended
      /\ task[s] # "none" /\ task'[s] # "none"
  BY DEF Moves, Goto, TypeOK, Live, Ended
<1>4. TypeOK'
  <2>1. p \in {"none", "gate", "check", "begin", "run", "success", "fatal", "retryable",
               "backoff", "settle", "record", "over"}
    BY DEF Moves, Live
  <2>2. task' \in [Step -> {"none", "gate", "check", "begin", "run", "success", "fatal",
                            "retryable", "backoff", "settle", "record", "over"}]
    BY <2>1 DEF Moves, Goto, TypeOK
  <2>. QED  BY <1>1, <2>2 DEF Moves, StoreStep, DataTyped, TypeOK
<1>5. RetryInv'
  <2>1. p # "record"
    BY DEF Moves, Live
  <2>. QED  BY <1>3, <2>1 DEF Moves, OthersKeep, RetryInv
<1>6. PlaceInv'
  BY <1>1, <1>2, <1>3 DEF PlaceInv
<1>7. WaitInv' /\ ChannelInv'
  BY <1>1, <1>2 DEF WaitInv, DependenciesMet, ChannelInv
<1>8. CheckInv'
  BY <1>1, <1>2, <1>3 DEF CheckInv
<1>9. LoopInv' /\ CountInv' /\ ShutdownIsComplete'
  BY <1>1, <1>2 DEF LoopInv, CountInv, ShutdownIsComplete
<1>10. VerdictMatchesSteps'
  BY <1>1, <1>2 DEF Moves, StoreStep, VerdictMatchesSteps
<1>. QED  BY <1>4, <1>5, <1>6, <1>7, <1>8, <1>9, <1>10

-------------------------------------------------------------------------------
(* The callers, and the steps of the loop that touch no step.              *)

LEMMA StepsStand ==
  ASSUME EngineInv, UNCHANGED <<tracker, channel, tasks>>, pc = "done" => pc' = "done"
  PROVE  /\ StepInv' /\ RetryInv'
         /\ UNCHANGED <<Processed, Satisfied, failed, running, waiting, pending, inbox>>
         /\ \A v \in State \cup {Removed} :
              store' = v /\ pc' \in {"new", "counted", "loop", "drain", "scan", "redrain",
                                     "blocked", "await", "recv", "finish", "refused", "done"}
              /\ active' \in 0 .. 1
              /\ closing' \in BOOLEAN /\ drained' \in BOOLEAN /\ cancels' \in BOOLEAN
              => TypeOK'
<1>. USE DEF EngineInv, StepInv
<1>1. /\ UNCHANGED <<inbox, pending, launched, task, attempt, copy, result>>
      /\ UNCHANGED <<completed, failed, skipped, running, waiting, ripe>>
  BY DEF tracker, channel, tasks
<1>2. UNCHANGED <<Processed, Satisfied, Received>>
  BY <1>1 DEF Processed, Satisfied, Received
<1>3. StepInv' /\ RetryInv'
  BY <1>1, <1>2 DEF PlaceInv, WaitInv, DependenciesMet, ChannelInv, CheckInv, RetryInv
<1>4. ASSUME NEW v \in State \cup {Removed}, store' = v,
             pc' \in {"new", "counted", "loop", "drain", "scan", "redrain", "blocked",
                      "await", "recv", "finish", "refused", "done"},
             active' \in 0 .. 1, closing' \in BOOLEAN, drained' \in BOOLEAN,
             cancels' \in BOOLEAN
      PROVE  TypeOK'
  BY <1>1, <1>4 DEF TypeOK
<1>. QED  BY <1>1, <1>2, <1>3, <1>4

CallerStep == Enter \/ Admit \/ Shutdown \/ WaitForShutdown \/ Cancel \/ Cleanup
PlainLoopStep == CheckCancelled \/ FailBlocked \/ Await \/ Finish

LEMMA PlainStepInv ==
  ASSUME EngineInv, CallerStep \/ PlainLoopStep
  PROVE  EngineInv'
<1>. USE DEF EngineInv
<1>0. UNCHANGED <<tracker, channel, tasks>> /\ (pc = "done" => pc' = "done")
  BY DEF CallerStep, PlainLoopStep, Enter, Admit, Shutdown, WaitForShutdown, Cancel, Cleanup,
         CheckCancelled, FailBlocked, Await, Finish, Return, caller
<1>1. /\ StepInv' /\ RetryInv'
      /\ UNCHANGED <<Processed, Satisfied, failed, running, waiting, pending, inbox>>
  BY <1>0, StepsStand
<1>2. LoopInv'
  BY <1>1 DEF LoopInv, CallerStep, PlainLoopStep, Enter, Admit, Shutdown, WaitForShutdown,
         Cancel, Cleanup, CheckCancelled, FailBlocked, Await, Finish, Return
<1>3. CountInv' /\ ShutdownIsComplete'
  <2>1. CASE CallerStep
    BY <2>1 DEF CallerStep, Enter, Admit, Shutdown, WaitForShutdown, Cancel, Cleanup, caller,
                CountInv, ShutdownIsComplete
  <2>2. CASE PlainLoopStep
    BY <2>2 DEF PlainLoopStep, CheckCancelled, FailBlocked, Await, Finish, Return, caller,
                CountInv, ShutdownIsComplete
  <2>. QED  BY <2>1, <2>2
<1>4. store' \in State \cup {Removed}
  <2>1. NewState \in State
    BY DEF NewState, State, Terminal
  <2>2. ASSUME store # Removed, NEW status \in Terminal
        PROVE  [store EXCEPT !.status = status] \in State
    BY <2>2 DEF TypeOK, State
  <2>3. "Cancelled" \in Terminal /\ "Failed" \in Terminal /\ "Completed" \in Terminal
    BY DEF Terminal
  <2>4. store \in State \cup {Removed}
    BY DEF TypeOK
  <2>5. CASE CallerStep
    BY <2>1, <2>2, <2>3, <2>4, <2>5 DEF CallerStep, Enter, Admit, Shutdown, WaitForShutdown,
       Cancel, Cleanup
  <2>6. CASE PlainLoopStep
    BY <2>2, <2>3, <2>4, <2>6 DEF PlainLoopStep, CheckCancelled, FailBlocked, Await, Finish,
       SetStatus
  <2>. QED  BY <2>5, <2>6
<1>5. TypeOK'
  <2>1. pc' \in {"new", "counted", "loop", "drain", "scan", "redrain", "blocked", "await",
                 "recv", "finish", "refused", "done"}
    BY DEF CallerStep, PlainLoopStep, Enter, Admit, Shutdown, WaitForShutdown, Cancel, Cleanup,
           CheckCancelled, FailBlocked, Await, Finish, Return, TypeOK
  <2>2. active' \in 0 .. 1
    BY <1>3 DEF CountInv
  <2>3. closing' \in BOOLEAN /\ drained' \in BOOLEAN /\ cancels' \in BOOLEAN
    BY DEF CallerStep, PlainLoopStep, Enter, Admit, Shutdown, WaitForShutdown, Cancel, Cleanup,
           CheckCancelled, FailBlocked, Await, Finish, TypeOK, caller
  <2>. QED  BY <1>0, <1>4, <2>1, <2>2, <2>3, StepsStand
<1>6. VerdictMatchesSteps'
  <2>1. CASE CallerStep
    BY <1>1, <2>1 DEF CallerStep, Enter, Admit, Shutdown, WaitForShutdown, Cancel, Cleanup,
       NewState, TypeOK, State, VerdictMatchesSteps
  <2>2. CASE CheckCancelled \/ Await
    BY <1>1, <2>2 DEF CheckCancelled, Await, VerdictMatchesSteps
  <2>3. CASE FailBlocked
    <3>1. failed # {}
      BY <2>3, BlockedHasFailed DEF FailBlocked, StepInv
    <3>. QED  BY <1>1, <2>3, <3>1 DEF FailBlocked, SetStatus, TypeOK, State,
                                      VerdictMatchesSteps
  <2>4. CASE Finish
    <3>1. failed = {} => Satisfied = Step
      BY <2>4 DEF Finish, LoopInv, Processed, Satisfied
    <3>. QED  BY <1>1, <2>4, <3>1 DEF Finish, SetStatus, TypeOK, State, VerdictMatchesSteps
  <2>. QED  BY <2>1, <2>2, <2>3, <2>4 DEF PlainLoopStep
<1>. QED  BY <1>1, <1>2, <1>3, <1>5, <1>6

-------------------------------------------------------------------------------
(* The steps of the loop that read the channel.                            *)

(* Completions are read in order, and what is read is looked at: a step    *)
(* whose dependency left the channel is to be checked, unless that failed. *)
LEMMA ReadingInv ==
  ASSUME EngineInv, NEW set \in SUBSET Step, pc' # "done", pc # "done",
         UNCHANGED <<tracker, task>>,
         pending' = pending \cup Unblocked(set),
         inbox' \in Seq(Step), Received \subseteq set \cup Received', Received' \subseteq Received,
         \A i, j \in 1 .. Len(inbox') : inbox'[i] = inbox'[j] => i = j
  PROVE  StepInv'
<1>. USE DEF EngineInv, StepInv
<1>1. UNCHANGED <<completed, failed, skipped, running, waiting, ripe>>
  BY DEF tracker
<1>2. UNCHANGED <<Processed, Satisfied>>
  BY <1>1 DEF Processed, Satisfied
<1>3. PlaceInv' /\ WaitInv'
  BY <1>1, <1>2 DEF PlaceInv, WaitInv, DependenciesMet
<1>4. ChannelInv'
  <2>1. Received \subseteq Processed
    BY DEF ChannelInv, Received
  <2>2. \A i \in 1 .. Len(inbox') : inbox'[i] \in Received'
    BY DEF Received
  <2>. QED  BY <1>2, <2>1, <2>2 DEF ChannelInv
<1>5. CheckInv'
  <2>. SUFFICES ASSUME NEW s \in Step, task[s] = "none", s \notin waiting, s \notin pending'
                PROVE  \E d \in Dependencies(s) : d \notin Satisfied \/ d \in Received'
    BY <1>1, <1>2 DEF CheckInv
  <2>1. PICK d \in Dependencies(s) : d \notin Satisfied \/ d \in Received
    BY DEF CheckInv
  <2>2. CASE d \in failed
    <3>1. d \in Step
      BY <2>2 DEF TypeOK
    <3>. QED  BY <2>2, <3>1 DEF PlaceInv
  <2>3. CASE d \notin failed
    <3>1. d \notin set
      BY <2>3 DEF Unblocked
    <3>. QED  BY <2>1, <3>1
  <2>. QED  BY <2>2, <2>3
<1>. QED  BY <1>3, <1>4, <1>5

LEMMA ChannelStepInv ==
  ASSUME EngineInv, Drain \/ Redrain \/ Recv
  PROVE  EngineInv'
<1>. USE DEF EngineInv
<1>0. /\ UNCHANGED <<caller, tracker, launched, store, tasks>>
      /\ pc' # "done" /\ pc # "done"
      /\ inbox \in Seq(Step)
  BY DEF Drain, Redrain, Recv, TypeOK
<1>1. /\ UNCHANGED <<active, closing, drained, cancels, task, attempt, copy, result>>
      /\ UNCHANGED <<completed, failed, skipped, running, waiting, ripe>>
  BY <1>0 DEF caller, tracker, tasks
<1>2. UNCHANGED <<Processed, Satisfied>>
  BY <1>1 DEF Processed, Satisfied
<1>3. Received \in SUBSET Step
  BY <1>0 DEF Received
<1>4. /\ inbox' \in Seq(Step) /\ Len(inbox') <= Cardinality(Step)
      /\ pending' \in SUBSET Step
      /\ StepInv'
  <2>1. CASE Drain \/ Redrain
    <3>1. inbox' = << >> /\ pending' = pending \cup Unblocked(Received)
      BY <2>1 DEF Drain, Redrain
    <3>2. Received' = {} /\ Len(inbox') = 0 /\ inbox' \in Seq(Step)
      BY <3>1 DEF Received
    <3>3. Cardinality(Step) \in Nat
      BY WorkflowAssumption, FS_CardinalityType
    <3>4. StepInv'
      BY <1>0, <1>1, <1>3, <3>1, <3>2, ReadingInv
    <3>. QED  BY <3>1, <3>2, <3>3, <3>4 DEF Unblocked, TypeOK
  <2>2. CASE Recv
    <3>1. /\ inbox # << >> /\ inbox' = Tail(inbox)
          /\ pending' = pending \cup Unblocked({Head(inbox)})
      BY <2>2 DEF Recv
    <3>2. /\ inbox' \in Seq(Step) /\ Head(inbox) \in Step
          /\ Len(inbox) \in Nat /\ Len(inbox) > 0 /\ Len(inbox') = Len(inbox) - 1
          /\ \A i \in 1 .. Len(inbox') : inbox'[i] = inbox[i + 1]
      BY <1>0, <3>1
    <3>3. Received \subseteq {Head(inbox)} \cup Received'
      <4>. SUFFICES ASSUME NEW i \in 1 .. Len(inbox), i # 1
                    PROVE  inbox[i] \in Received'
        BY <1>0, <3>1 DEF Received
      <4>1. i - 1 \in 1 .. Len(inbox') /\ (i - 1) + 1 = i
        BY <3>2
      <4>2. inbox[i] = inbox'[i - 1]
        BY <3>2, <4>1
      <4>. QED  BY <4>1, <4>2 DEF Received
    <3>4. Received' \subseteq Received
      <4>1. \A i \in 1 .. Len(inbox') : i + 1 \in 1 .. Len(inbox)
        BY <3>2
      <4>. QED  BY <3>2, <4>1 DEF Received
    <3>5. \A i, j \in 1 .. Len(inbox') : inbox'[i] = inbox'[j] => i = j
      BY <3>2 DEF StepInv, ChannelInv
    <3>6. StepInv'
      BY <1>0, <1>1, <3>1, <3>2, <3>3, <3>4, <3>5, ReadingInv
    <3>7. Len(inbox') <= Cardinality(Step)
      BY <3>2, <3>5, ChannelFits
    <3>. QED  BY <3>1, <3>2, <3>6, <3>7 DEF Unblocked, TypeOK
  <2>. QED  BY <2>1, <2>2
<1>5. TypeOK'
  <2>1. pc' \in {"scan", "loop", "blocked"}
    BY DEF Drain, Redrain, Recv
  <2>. QED  BY <1>0, <1>1, <1>4, <2>1 DEF TypeOK
<1>6. RetryInv'
  BY <1>1 DEF RetryInv
<1>7. LoopInv'
  <2>1. CASE pc' = "blocked"
    <3>1. Redrain /\ inbox = << >>
      BY <2>1 DEF Drain, Redrain, Recv
    <3>2. Received = {}
      BY <3>1 DEF Received
    <3>3. Unblocked(Received) = {}
      BY <3>2 DEF Unblocked
    <3>. QED  BY <1>1, <1>2, <2>1, <3>1, <3>3 DEF Redrain, LoopInv
  <2>2. CASE pc' # "blocked"
    BY <2>2 DEF Drain, Redrain, Recv, LoopInv
  <2>. QED  BY <2>1, <2>2
<1>8. CountInv' /\ ShutdownIsComplete'
  BY <1>1 DEF Drain, Redrain, Recv, CountInv, ShutdownIsComplete
<1>9. VerdictMatchesSteps'
  BY <1>0, <1>1, <1>2 DEF VerdictMatchesSteps
<1>. QED  BY <1>4, <1>5, <1>6, <1>7, <1>8, <1>9

LEMMA RipenInv ==
  ASSUME EngineInv, NEW s \in Step, Ripen(s)
  PROVE  EngineInv'
<1>. USE DEF EngineInv, StepInv
<1>1. /\ UNCHANGED <<pc, active, closing, drained, cancels, inbox, pending, launched>>
      /\ UNCHANGED <<store, task, attempt, copy, result>>
      /\ UNCHANGED <<completed, failed, skipped, running, waiting>>
      /\ ripe' \subseteq waiting
  BY DEF Ripen, TypeOK, caller, channel, tasks
<1>2. UNCHANGED <<Processed, Satisfied, Received>>
  BY <1>1 DEF Processed, Satisfied, Received
<1>3. TypeOK'
  BY <1>1 DEF TypeOK
<1>4. PlaceInv' /\ WaitInv' /\ ChannelInv' /\ CheckInv' /\ RetryInv'
  BY <1>1, <1>2 DEF PlaceInv, WaitInv, DependenciesMet, ChannelInv, CheckInv, RetryInv
<1>5. LoopInv' /\ CountInv' /\ ShutdownIsComplete' /\ VerdictMatchesSteps'
  BY <1>1, <1>2 DEF LoopInv, CountInv, ShutdownIsComplete, VerdictMatchesSteps
<1>. QED  BY <1>3, <1>4, <1>5

-------------------------------------------------------------------------------
(* The scan.                                                               *)

DepsReady == {s \in pending : IsReady(s)}
ToLaunch  == ripe \cup (DepsReady \ Delayed)
ToWait    == DepsReady \cap Delayed

(* What is launched, or held back, was never launched, and may be.         *)
LEMMA ScanFinds ==
  ASSUME EngineInv
  PROVE  /\ ToLaunch \subseteq Step /\ ToWait \subseteq Step
         /\ \A s \in ToLaunch \cup ToWait : task[s] = "none" /\ DependenciesMet(s)
<1>. USE DEF EngineInv, StepInv
<1>1. ToLaunch \subseteq Step /\ ToWait \subseteq Step
  BY DEF ToLaunch, ToWait, DepsReady, TypeOK
<1>2. ASSUME NEW s \in ripe
      PROVE  task[s] = "none" /\ DependenciesMet(s)
  BY <1>2 DEF TypeOK, PlaceInv, WaitInv
<1>3. ASSUME NEW s \in DepsReady
      PROVE  task[s] = "none" /\ DependenciesMet(s)
  <2>1. s \in Step /\ IsReady(s)
    BY <1>3 DEF DepsReady, TypeOK
  <2>2. task[s] \notin Ended /\ task[s] \notin Live
    BY <2>1 DEF IsReady, IsStepProcessable, PlaceInv
  <2>3. task[s] = "none"
    BY <2>1, <2>2 DEF TypeOK, Live, Ended
  <2>. QED  BY <2>1, <2>3 DEF IsReady, DependenciesMet
<1>. QED  BY <1>1, <1>2, <1>3 DEF ToLaunch, ToWait

(* A step that was to be checked and is neither launched nor held back     *)
(* misses a dependency.                                                    *)
LEMMA ScanForgetsNone ==
  ASSUME EngineInv, NEW s \in Step, task[s] = "none", s \notin waiting, s \in pending,
         s \notin DepsReady
  PROVE  \E d \in Dependencies(s) : d \notin Satisfied
<1>. USE DEF EngineInv, StepInv
<1>1. s \notin Processed /\ s \notin running
  BY DEF PlaceInv, Live, Ended
<1>2. ~IsReady(s)
  BY DEF DepsReady
<1>3. failed \subseteq Step /\ \A d \in failed : d \notin Satisfied
  BY DEF TypeOK, PlaceInv
<1>. QED  BY <1>1, <1>2, <1>3 DEF IsReady, IsStepProcessable, Dependencies

LEMMA ScanInv ==
  ASSUME EngineInv, Scan
  PROVE  EngineInv'
<1>. USE DEF EngineInv, StepInv
<1>1. /\ pc = "scan" /\ pc' \in {"finish", "redrain", "await"}
      /\ pending' = {} /\ ripe' = {}
      /\ waiting' = (waiting \ ripe) \cup ToWait
      /\ UNCHANGED <<active, closing, drained, cancels, completed, failed, skipped, inbox>>
      /\ UNCHANGED <<store, attempt, copy, result>>
      /\ launched' \in BOOLEAN
  BY DEF Scan, ToWait, DepsReady, caller, tasks, TypeOK
<1>2. UNCHANGED <<Processed, Satisfied, Received>>
  BY <1>1 DEF Processed, Satisfied, Received
<1>3. /\ pc' = "await" =>
           /\ running' = running \cup ToLaunch
           /\ task' = [s \in Step |-> IF s \in ToLaunch THEN "gate" ELSE task[s]]
      /\ pc' = "finish" => Processed = Step
      /\ pc' = "redrain" =>
           Processed # Step /\ ToLaunch = {} /\ running = {} /\ waiting \cup ToWait = {}
      /\ pc' # "await" => UNCHANGED <<running, task>>
  BY DEF Scan, ToLaunch, ToWait, DepsReady, tasks
<1>4. /\ ToLaunch \subseteq Step /\ ToWait \subseteq Step
      /\ \A s \in ToLaunch \cup ToWait : task[s] = "none" /\ DependenciesMet(s)
  BY ScanFinds
<1>5. ToLaunch \cap waiting' = {}
  BY <1>1 DEF ToLaunch, ToWait, DepsReady, IsReady, IsStepProcessable, TypeOK
<1>6. TypeOK'
  <2>1. running' \subseteq Step /\ waiting' \subseteq Step
    BY <1>1, <1>3, <1>4 DEF TypeOK
  <2>2. task' \in [Step -> {"none", "gate", "check", "begin", "run", "success", "fatal",
                            "retryable", "backoff", "settle", "record", "over"}]
    <3>1. CASE pc' = "await"
      BY <1>3, <3>1 DEF TypeOK
    <3>2. CASE pc' # "await"
      BY <1>3, <3>2 DEF TypeOK
    <3>. QED  BY <3>1, <3>2
  <2>. QED  BY <1>1, <2>1, <2>2 DEF TypeOK
<1>7. RetryInv'
  BY <1>1, <1>3 DEF RetryInv
<1>8. PlaceInv'
  <2>. SUFFICES ASSUME NEW s \in Step
                PROVE  /\ s \in Processed <=> task'[s] \in Ended
                       /\ s \in running' <=> task'[s] \in Live
                       /\ s \in waiting' => task'[s] = "none"
                       /\ s \in failed => s \notin Satisfied
    BY <1>1, <1>2 DEF PlaceInv
  <2>1. CASE pc' = "await" /\ s \in ToLaunch
    BY <1>3, <1>4, <1>5, <2>1 DEF PlaceInv, Live, Ended
  <2>2. CASE ~(pc' = "await" /\ s \in ToLaunch)
    <3>1. task'[s] = task[s] /\ (s \in running' <=> s \in running)
      BY <1>3, <2>2
    <3>. QED  BY <1>1, <1>4, <3>1 DEF PlaceInv
  <2>. QED  BY <2>1, <2>2
<1>9. WaitInv'
  BY <1>1, <1>2, <1>4 DEF WaitInv, DependenciesMet
<1>10. ChannelInv'
  BY <1>1, <1>2 DEF ChannelInv
<1>11. CheckInv'
  <2>. SUFFICES ASSUME NEW s \in Step, task'[s] = "none", s \notin waiting'
                PROVE  \E d \in Dependencies(s) : d \notin Satisfied \/ d \in Received
    BY <1>1, <1>2 DEF CheckInv
  <2>1. task[s] = "none" /\ ~(pc' = "await" /\ s \in ToLaunch)
    BY <1>3
  <2>2. s \notin ToLaunch
    BY <1>1, <1>3, <2>1 DEF PlaceInv, Ended
  <2>3. s \notin waiting /\ s \notin DepsReady
    BY <1>1, <2>2 DEF ToLaunch, ToWait
  <2>4. CASE s \in pending
    BY <2>1, <2>3, <2>4, ScanForgetsNone
  <2>5. CASE s \notin pending
    BY <1>1, <2>1, <2>3, <2>5 DEF CheckInv
  <2>. QED  BY <2>4, <2>5
<1>12. LoopInv'
  BY <1>1, <1>2, <1>3 DEF LoopInv
<1>13. CountInv' /\ ShutdownIsComplete'
  BY <1>1 DEF CountInv, ShutdownIsComplete
<1>14. VerdictMatchesSteps'
  BY <1>1, <1>2 DEF VerdictMatchesSteps
<1>. QED  BY <1>6, <1>7, <1>8, <1>9, <1>10, <1>11, <1>12, <1>13, <1>14

-------------------------------------------------------------------------------
(* The end of a step.                                                      *)

LEMMA SettleInv ==
  ASSUME EngineInv, NEW s \in Step, Settle(s)
  PROVE  EngineInv'
<1>. USE DEF EngineInv, StepInv
<1>1. /\ UNCHANGED <<pc, active, closing, drained, cancels, waiting, ripe, pending, launched>>
      /\ UNCHANGED <<store, attempt, copy, result>>
      /\ task[s] = "settle" /\ running' = running \ {s}
      /\ inbox' = IF pc = "done" THEN inbox ELSE Append(inbox, s)
      /\ inbox \in Seq(Step)
  BY DEF Settle, caller, TypeOK
<1>2. /\ completed' \subseteq Step /\ failed' \subseteq Step /\ skipped' \subseteq Step
      /\ completed \subseteq completed' /\ failed \subseteq failed'
      /\ Processed' = Processed \cup {s}
      /\ Satisfied' \subseteq Satisfied \cup {s} /\ Satisfied \subseteq Satisfied'
      /\ failed' \subseteq failed \cup {s}
      /\ s \in failed' => s \notin Satisfied' \/ s \in Processed
  <2>1. result[s].signal \in {"success", "skip", "failure"}
    BY DEF TypeOK, Result
  <2>2. CASE result[s].signal = "success"
    BY <2>2 DEF Settle, Processed, Satisfied, TypeOK
  <2>3. CASE result[s].signal = "skip"
    BY <2>3 DEF Settle, Processed, Satisfied, TypeOK
  <2>4. CASE result[s].signal = "failure"
    BY <2>4 DEF Settle, Processed, Satisfied, TypeOK
  <2>. QED  BY <2>1, <2>2, <2>3, <2>4
<1>3. s \notin Processed /\ s \in running /\ s \notin waiting
  BY <1>1 DEF PlaceInv, Live, Ended
<1>4. /\ \A t \in Step \ {s} : task'[t] = task[t]
      /\ task'[s] \in Ended
      /\ task'[s] = "record" => result[s].owed # "none"
      /\ task' \in [Step -> {"none", "gate", "check", "begin", "run", "success", "fatal",
                             "retryable", "backoff", "settle", "record", "over"}]
  BY DEF Settle, Goto, TypeOK, Ended
<1>5. \A i \in 1 .. Len(inbox) : inbox[i] \in Processed /\ inbox[i] # s
  BY <1>3 DEF ChannelInv
<1>6. ChannelInv' /\ CheckInv' /\ inbox' \in Seq(Step) /\ Len(inbox') <= Cardinality(Step)
  <2>1. CASE pc # "done"
    <3>1. /\ inbox' \in Seq(Step) /\ Len(inbox) \in Nat /\ Len(inbox') = Len(inbox) + 1
          /\ \A i \in 1 .. Len(inbox) : inbox'[i] = inbox[i]
          /\ inbox'[Len(inbox) + 1] = s
      BY <1>1, <2>1
    <3>2. \A i \in 1 .. Len(inbox') : i \in 1 .. Len(inbox) \/ i = Len(inbox) + 1
      BY <3>1
    <3>3. \A i, j \in 1 .. Len(inbox') : inbox'[i] = inbox'[j] => i = j
      BY <1>5, <3>1, <3>2 DEF ChannelInv
    <3>4. ChannelInv'
      BY <1>2, <1>5, <3>1, <3>2, <3>3 DEF ChannelInv
    <3>5. Len(inbox') <= Cardinality(Step)
      BY <3>1, <3>3, ChannelFits
    <3>6. Received \cup {s} \subseteq Received'
      <4>1. \A i \in 1 .. Len(inbox) : i \in 1 .. Len(inbox')
        BY <3>1
      <4>2. Len(inbox) + 1 \in 1 .. Len(inbox')
        BY <3>1
      <4>. QED  BY <3>1, <4>1, <4>2 DEF Received
    <3>7. CheckInv'
      <4>. SUFFICES ASSUME NEW t \in Step, task'[t] = "none", t \notin waiting, t \notin pending
                    PROVE  \E d \in Dependencies(t) : d \notin Satisfied' \/ d \in Received'
        BY <1>1 DEF CheckInv
      <4>1. task[t] = "none"
        BY <1>4 DEF Ended
      <4>2. PICK d \in Dependencies(t) : d \notin Satisfied \/ d \in Received
        BY <2>1, <4>1 DEF CheckInv
      <4>. QED  BY <1>2, <3>6, <4>2
    <3>. QED  BY <3>1, <3>4, <3>5, <3>7
  <2>2. CASE pc = "done"
    BY <1>1, <1>2, <2>2 DEF ChannelInv, CheckInv, TypeOK
  <2>. QED  BY <2>1, <2>2
<1>7. TypeOK'
  BY <1>1, <1>2, <1>4, <1>6 DEF TypeOK
<1>8. RetryInv'
  BY <1>1, <1>4 DEF RetryInv, Ended
<1>9. PlaceInv'
  BY <1>1, <1>2, <1>3, <1>4 DEF PlaceInv, Live, Ended
<1>10. WaitInv'
  BY <1>1, <1>2 DEF WaitInv, DependenciesMet
<1>11. LoopInv' /\ CountInv' /\ ShutdownIsComplete'
  BY <1>1, <1>2, <1>3 DEF LoopInv, CountInv, ShutdownIsComplete
<1>12. VerdictMatchesSteps'
  <2>1. Satisfied' \subseteq Step
    BY <1>2 DEF Satisfied
  <2>. QED  BY <1>1, <1>2, <2>1 DEF VerdictMatchesSteps
<1>. QED  BY <1>6, <1>7, <1>8, <1>9, <1>10, <1>11, <1>12

-------------------------------------------------------------------------------

LEMMA InitInv == Init => EngineInv
<1>. SUFFICES ASSUME Init PROVE EngineInv
  OBVIOUS
<1>1. TypeOK
  <2>1. Len(inbox) <= Cardinality(Step) /\ inbox \in Seq(Step)
    BY WorkflowAssumption, FS_CardinalityType DEF Init
  <2>2. attempt \in [Step -> 1 .. MaxAttempts]
    BY WorkflowAssumption DEF Init
  <2>3. /\ task \in [Step -> {"none", "gate", "check", "begin", "run", "success", "fatal",
                           "retryable", "backoff", "settle", "record", "over"}]
        /\ copy \in [Step -> SUBSET Step]
        /\ result \in [Step -> Result]
    BY DEF Init, Result
  <2>4. active \in 0 .. 1 /\ pending \subseteq Step
    BY DEF Init
  <2>5. /\ pc = "new"
        /\ closing \in BOOLEAN /\ drained \in BOOLEAN /\ cancels \in BOOLEAN
        /\ launched \in BOOLEAN /\ store = Removed
        /\ completed = {} /\ failed = {} /\ skipped = {} /\ running = {} /\ waiting = {}
        /\ ripe = {}
    BY DEF Init
  <2>. QED  BY <2>1, <2>2, <2>3, <2>4, <2>5 DEF TypeOK
<1>2. Processed = {} /\ Satisfied = {} /\ Received = {}
  BY DEF Init, Processed, Satisfied, Received
<1>3. PlaceInv /\ WaitInv /\ ChannelInv /\ RetryInv
  BY <1>2 DEF Init, PlaceInv, WaitInv, ChannelInv, RetryInv, Live, Ended
<1>4. CheckInv
  BY <1>2 DEF Init, CheckInv
<1>5. LoopInv /\ CountInv /\ ShutdownIsComplete /\ VerdictMatchesSteps
  BY DEF Init, LoopInv, CountInv, ShutdownIsComplete, VerdictMatchesSteps
<1>. QED  BY <1>1, <1>3, <1>4, <1>5 DEF EngineInv, StepInv

LEMMA StutterInv ==
  ASSUME EngineInv, UNCHANGED vars
  PROVE  EngineInv'
<1>1. /\ UNCHANGED <<tracker, channel, tasks, caller, store, pc>>
      /\ UNCHANGED <<active, closing, drained, cancels>>
  BY DEF vars, caller
<1>2. /\ StepInv' /\ RetryInv'
      /\ UNCHANGED <<Processed, Satisfied, failed, running, waiting, pending, inbox>>
  BY <1>1, StepsStand
<1>3. TypeOK'
  BY <1>1, StepsStand DEF EngineInv, TypeOK
<1>4. LoopInv' /\ CountInv' /\ ShutdownIsComplete' /\ VerdictMatchesSteps'
  BY <1>1, <1>2 DEF EngineInv, LoopInv, CountInv, ShutdownIsComplete, VerdictMatchesSteps
<1>. QED  BY <1>2, <1>3, <1>4 DEF EngineInv

LEMMA NextInv ==
  ASSUME EngineInv, [Next]_vars
  PROVE  EngineInv'
<1>1. CASE CallerStep \/ PlainLoopStep
  BY <1>1, PlainStepInv
<1>2. CASE Drain \/ Redrain \/ Recv
  BY <1>2, ChannelStepInv
<1>3. CASE Scan
  BY <1>3, ScanInv
<1>4. CASE \E s \in Step : Ripen(s)
  BY <1>4, RipenInv
<1>5. ASSUME NEW s \in Step, RunStep(s)
      PROVE  EngineInv'
  <2>1. CASE Settle(s)
    BY <2>1, SettleInv
  <2>2. CASE ~Settle(s)
    <3>1. PICK p : Moves(s, p)
      BY <1>5, <2>2, TaskMoves DEF EngineInv
    <3>. QED  BY <3>1, MovesInv
  <2>. QED  BY <2>1, <2>2
<1>6. CASE UNCHANGED vars
  BY <1>6, StutterInv
<1>. QED  BY <1>1, <1>2, <1>3, <1>4, <1>5, <1>6
          DEF Next, ExecuteWorkflow, CallerStep, PlainLoopStep, Terminated

LEMMA EngineInvariant == Spec => []EngineInv
<1>1. EngineInv /\ [Next]_vars => EngineInv'
  BY NextInv
<1>. QED  BY InitInv, <1>1, PTL DEF Spec

(* The words of the loop, the tracker, the channel and the tasks keep      *)
(* their types, and a retry never passes its policy.                       *)
THEOREM WorkflowTypeCorrect == Spec => []TypeOK
<1>1. EngineInv => TypeOK
  BY DEF EngineInv
<1>. QED  BY EngineInvariant, <1>1, PTL

(* The status the loop writes is what its steps say: a workflow is given   *)
(* up as blocked only where a step has failed (fail_blocked), and          *)
(* completes only when every step has ended well.                          *)
THEOREM VerdictsAreSound == Spec => []VerdictMatchesSteps
<1>1. EngineInv => VerdictMatchesSteps
  BY DEF EngineInv
<1>. QED  BY EngineInvariant, <1>1, PTL

(* After wait_for_shutdown has returned true no workflow is under way and  *)
(* none begins.                                                            *)
THEOREM ShutdownsAreSound == Spec => []ShutdownIsComplete
<1>1. EngineInv => ShutdownIsComplete
  BY DEF EngineInv
<1>. QED  BY EngineInvariant, <1>1, PTL

(* No step is launched twice, or before the steps it depends on have       *)
(* ended well.                                                             *)
THEOREM LaunchesAreSound == Spec => LaunchedOnceAndInOrder
<1>. DEFINE Launches ==
       \A s \in Step :
         task'[s] = "gate" /\ task[s] # "gate" =>
           /\ task[s] = "none"
           /\ DependsOn[s] \subseteq Satisfied
           /\ DependsOnAny[s] # {} => DependsOnAny[s] \cap Satisfied # {}
<1>1. ASSUME EngineInv, [Next]_vars
      PROVE  [Launches]_vars
  <2>. SUFFICES ASSUME NEW s \in Step, task'[s] = "gate", task[s] # "gate"
                PROVE  task[s] = "none" /\ DependenciesMet(s)
    BY DEF DependenciesMet
  <2>1. CASE Scan
    <3>1. s \in ToLaunch
      BY <2>1 DEF Scan, tasks, ToLaunch, ToWait, DepsReady
    <3>. QED  BY <1>1, <3>1, ScanFinds
  <2>2. ASSUME NEW t \in Step, RunStep(t)
        PROVE  FALSE
    <3>1. CASE Settle(t)
      BY <1>1, <3>1 DEF Settle, Goto, EngineInv, TypeOK
    <3>2. CASE ~Settle(t)
      <4>1. PICK p : Moves(t, p)
        BY <1>1, <2>2, <3>2, TaskMoves DEF EngineInv
      <4>. QED  BY <1>1, <4>1 DEF Moves, Goto, EngineInv, TypeOK
    <3>. QED  BY <3>1, <3>2
  <2>3. CASE UNCHANGED task
    BY <2>3
  <2>. QED  BY <1>1, <2>1, <2>2, <2>3
            DEF Next, ExecuteWorkflow, Terminated, vars, tasks, Enter, Admit, Shutdown,
                WaitForShutdown, Cancel, Cleanup, CheckCancelled, Drain, Redrain,
                FailBlocked, Await, Recv, Finish, Ripen
<1>. QED  BY EngineInvariant, <1>1, PTL DEF Spec, LaunchedOnceAndInOrder

-------------------------------------------------------------------------------
(* The context.  A step's executor works on a copy that is written back    *)
(* whole, so what a step wrote survives only if no other step that writes  *)
(* runs beside it.                                                         *)

Writes(s) == Outcomes[s] \ {"skip"} # {}

(* t depends on s, through any number of steps: s is in every set that has *)
(* t and with a step the steps it depends on.                              *)
Follows(t, s) ==
  \A set \in SUBSET Step :
    t \in set /\ (\A u \in set : DependsOn[u] \subseteq set) => s \in set

(* Of any two steps that may write, one follows the other: the branches    *)
(* beside them only skip.                                                  *)
WritersAreOrdered ==
  \A s, t \in Step : s # t /\ Writes(s) /\ Writes(t) => Follows(s, t) \/ Follows(t, s)

(* The step has succeeded, and has yet to be counted as completed.         *)
Delivered(s) ==
  task[s] = "success" \/ (task[s] = "settle" /\ result[s].signal = "success")

LaunchInv ==
  /\ pc \in {"new", "counted", "refused"} => \A s \in Step : task[s] = "none"
  /\ \A s \in Step : task[s] # "none" => DependsOn[s] \subseteq Satisfied
  /\ \A s \in Step : Delivered(s) => Writes(s)

(* The context, and a copy of it that will replace it, have what was       *)
(* written.                                                                *)
ContextInv ==
  store # Removed =>
    /\ completed \subseteq store.context
    /\ \A s \in Step : task[s] = "run" /\ Writes(s) => completed \subseteq copy[s]
    /\ \A s \in Step : Delivered(s) => s \in store.context

UpdateInv == EngineInv /\ LaunchInv /\ ContextInv

(* No two steps that write are under way at once.                          *)
LEMMA OneWriter ==
  ASSUME WritersAreOrdered, EngineInv, LaunchInv,
         NEW s \in Step, NEW t \in Step, Writes(s), Writes(t),
         task[s] \in Live, task[t] \in Live
  PROVE  s = t
<1>0. PlaceInv /\ Processed \subseteq Step /\ Satisfied \subseteq Processed
  BY DEF EngineInv, StepInv, TypeOK, Processed, Satisfied
<1>1. ASSUME NEW a \in Step, NEW b \in Step, a # b, task[a] \in Live, task[b] \in Live,
             Follows(a, b)
      PROVE  FALSE
  <2> DEFINE set == Processed \cup {a}
  <2>1. set \in SUBSET Step /\ a \in set
    BY <1>0
  <2>2. \A u \in set : task[u] # "none"
    BY <1>0, <1>1 DEF PlaceInv, Live, Ended
  <2>3. \A u \in set : DependsOn[u] \subseteq set
    BY <1>0, <2>1, <2>2 DEF LaunchInv
  <2>4. b \in Processed
    BY <1>1, <2>1, <2>3 DEF Follows
  <2> QED
    BY <1>0, <1>1, <2>4 DEF PlaceInv, Live, Ended
<1> QED
  BY <1>1 DEF WritersAreOrdered

LEMMA LaunchPreserved ==
  ASSUME EngineInv, LaunchInv, [Next]_vars
  PROVE  LaunchInv'
<1>0. TypeOK /\ PlaceInv /\ RetryInv
  BY DEF EngineInv, StepInv
<1>a. ASSUME UNCHANGED <<tracker, tasks>>,
             pc' \in {"new", "counted", "refused"} => pc \in {"new", "counted", "refused"}
      PROVE  LaunchInv'
  BY <1>a DEF tracker, tasks, LaunchInv, Satisfied, Delivered
<1>1. CASE CallerStep \/ PlainLoopStep
  <2>1. UNCHANGED <<tracker, tasks>>
    BY <1>1 DEF CallerStep, PlainLoopStep, Enter, Admit, Shutdown, WaitForShutdown, Cancel,
      Cleanup, CheckCancelled, FailBlocked, Await, Finish
  <2>2. pc' \in {"new", "counted", "refused"} => pc \in {"new", "counted", "refused"}
    BY <1>1 DEF CallerStep, PlainLoopStep, Enter, Admit, Shutdown, WaitForShutdown, Cancel,
      Cleanup, CheckCancelled, FailBlocked, Await, Finish, Return
  <2> QED
    BY <1>a, <2>1, <2>2
<1>2. CASE Drain \/ Redrain \/ Recv
  BY <1>2, <1>a DEF Drain, Redrain, Recv
<1>3. CASE Scan
  <2>1. /\ UNCHANGED <<completed, skipped, result>>
        /\ pc' \in {"finish", "redrain", "await"}
        /\ \/ UNCHANGED task
           \/ task' = [s \in Step |-> IF s \in ToLaunch THEN "gate" ELSE task[s]]
    BY <1>3 DEF Scan, ToLaunch, DepsReady, tasks
  <2>2. UNCHANGED Satisfied
    BY <2>1 DEF Satisfied
  <2>3. \A s \in Step : task'[s] = task[s] \/ (task'[s] = "gate" /\ s \in ToLaunch)
    BY <2>1
  <2>4. \A s \in ToLaunch : DependsOn[s] \subseteq Satisfied
    BY ScanFinds DEF DependenciesMet
  <2> QED
    BY <2>1, <2>2, <2>3, <2>4 DEF LaunchInv, Delivered
<1>4. CASE \E s \in Step : Ripen(s)
  <2>1. UNCHANGED <<completed, skipped, task, result, pc>>
    BY <1>4 DEF Ripen, tasks
  <2> QED
    BY <2>1 DEF LaunchInv, Satisfied, Delivered
<1>5. ASSUME NEW s \in Step, RunStep(s)
      PROVE  LaunchInv'
  <2>1. /\ pc' = pc /\ Satisfied \subseteq Satisfied'
        /\ task[s] # "none"
        /\ \A t \in Step \ {s} : task'[t] = task[t] /\ result'[t] = result[t]
    <3>1. CASE Settle(s)
      BY <1>0, <3>1 DEF Settle, Goto, Satisfied, TypeOK
    <3>2. CASE ~Settle(s)
      <4>1. PICK p : Moves(s, p)
        BY <1>0, <1>5, <3>2, TaskMoves
      <4> QED
        BY <1>0, <4>1 DEF Moves, OthersStand, OthersKeep, tracker, Satisfied, Goto, TypeOK,
          Live, Ended
    <3> QED
      BY <3>1, <3>2
  <2>2. Delivered(s)' => Delivered(s) \/ Writes(s)
    <3> USE DEF Delivered, Goto, Report, ReportFailure
    <3>1. CASE RunOnce(s)
      <4>1. PICK out \in Outcomes[s] : \E context : WriteBack(s, out, context)
        BY <3>1 DEF RunOnce
      <4>2. CASE out = "skip"
        BY <1>0, <4>1, <4>2 DEF WriteBack, TypeOK
      <4>3. CASE out # "skip"
        BY <4>3 DEF Writes
      <4> QED
        BY <4>2, <4>3
    <3>2. CASE RunIfGate(s)
      BY <1>0, <3>2 DEF RunIfGate, TypeOK
    <3>3. CASE CheckBeforeAttempt(s)
      BY <1>0, <3>3 DEF CheckBeforeAttempt, TypeOK
    <3>4. CASE BeginAttempt(s)
      BY <1>0, <3>4 DEF BeginAttempt, TypeOK
    <3>5. CASE Succeed(s)
      BY <1>0, <3>5 DEF Succeed, TypeOK
    <3>6. CASE RecordFailure(s)
      BY <1>0, <3>6 DEF RecordFailure, TypeOK
    <3>7. CASE WaitBeforeRetry(s) \/ Settle(s) \/ RecordStepStatus(s)
      BY <1>0, <3>7 DEF WaitBeforeRetry, Settle, RecordStepStatus, TypeOK
    <3> QED
      BY <1>5, <3>1, <3>2, <3>3, <3>4, <3>5, <3>6, <3>7 DEF RunStep
  <2>3. \A t \in Step : Delivered(t)' => Writes(t)
    BY <2>1, <2>2 DEF LaunchInv, Delivered
  <2> QED
    BY <2>1, <2>3 DEF LaunchInv
<1>6. CASE UNCHANGED vars
  BY <1>6, <1>a DEF vars
<1> QED
  BY <1>1, <1>2, <1>3, <1>4, <1>5, <1>6
     DEF Next, ExecuteWorkflow, CallerStep, PlainLoopStep, Terminated

(* A step that leaves the tracker's completions and what the store has of  *)
(* the context alone, and moves no task into or within the three places    *)
(* ContextInv speaks of.                                                   *)
LEMMA ContextStands ==
  ASSUME ContextInv, UNCHANGED completed,
         store' # Removed => store # Removed /\ store'.context = store.context,
         \A s \in Step : task'[s] = "run" => task[s] = "run" /\ copy'[s] = copy[s],
         \A s \in Step : Delivered(s)' => Delivered(s)
  PROVE  ContextInv'
  BY DEF ContextInv

LEMMA ContextPreserved ==
  ASSUME WritersAreOrdered, EngineInv, LaunchInv, ContextInv, [Next]_vars
  PROVE  ContextInv'
<1>0. /\ TypeOK /\ PlaceInv /\ RetryInv
      /\ store # Removed => store \in State
  BY DEF EngineInv, StepInv, TypeOK
<1>a. ASSUME UNCHANGED <<completed, tasks>>,
             store' # Removed => store # Removed /\ store'.context = store.context
      PROVE  ContextInv'
  <2>1. \A s \in Step : task'[s] = task[s] /\ copy'[s] = copy[s] /\ result'[s] = result[s]
    BY <1>a DEF tasks
  <2> QED
    BY <1>a, <2>1, ContextStands DEF Delivered
<1>1. CASE CallerStep \/ PlainLoopStep
  <2>1. UNCHANGED <<completed, tasks>>
    BY <1>1 DEF CallerStep, PlainLoopStep, Enter, Admit, Shutdown, WaitForShutdown, Cancel,
      Cleanup, CheckCancelled, FailBlocked, Await, Finish, tracker
  <2>2. CASE Admit
    <3>1. \A s \in Step : task[s] = "none"
      BY <2>2 DEF Admit, LaunchInv
    <3>2. completed = {}
      BY <1>0, <3>1 DEF PlaceInv, TypeOK, Processed, Ended
    <3>3. \A s \in Step : task'[s] = "none"
      BY <2>1, <3>1 DEF tasks
    <3> QED
      BY <2>1, <3>2, <3>3 DEF ContextInv, Delivered
  <2>3. CASE ~Admit
    <3>1. store' # Removed => store # Removed /\ store'.context = store.context
      BY <1>0, <1>1, <2>3 DEF CallerStep, PlainLoopStep, Enter, Shutdown, WaitForShutdown,
        Cancel, Cleanup, CheckCancelled, FailBlocked, Await, Finish, SetStatus, State
    <3> QED
      BY <1>a, <2>1, <3>1
  <2> QED
    BY <2>2, <2>3
<1>2. CASE Drain \/ Redrain \/ Recv
  BY <1>2, <1>a DEF Drain, Redrain, Recv, tracker
<1>3. CASE Scan
  <2>1. /\ UNCHANGED <<completed, store, copy, result>>
        /\ \/ UNCHANGED task
           \/ task' = [s \in Step |-> IF s \in ToLaunch THEN "gate" ELSE task[s]]
    BY <1>3 DEF Scan, ToLaunch, DepsReady, tasks
  <2>2. \A s \in Step : task'[s] = task[s] \/ task'[s] = "gate"
    BY <2>1
  <2> QED
    BY <2>1, <2>2, ContextStands DEF Delivered
<1>4. CASE \E s \in Step : Ripen(s)
  BY <1>4, <1>a DEF Ripen
<1>5. ASSUME NEW s \in Step, RunStep(s)
      PROVE  ContextInv'
  <2>1. /\ pc' = pc /\ (UNCHANGED completed \/ Settle(s))
        /\ \A t \in Step \ {s} : task'[t] = task[t] /\ result'[t] = result[t]
        /\ store' # Removed => store # Removed
    <3>1. CASE Settle(s)
      BY <1>0, <3>1 DEF Settle, Goto, TypeOK
    <3>2. CASE ~Settle(s)
      <4>1. PICK p : Moves(s, p)
        BY <1>0, <1>5, <3>2, TaskMoves
      <4> QED
        BY <1>0, <4>1 DEF Moves, OthersStand, OthersKeep, tracker, Goto, TypeOK, StoreStep
    <3> QED
      BY <3>1, <3>2
  <2>2. \A t \in Step \ {s} : copy'[t] = copy[t]
    BY <1>0, <1>5 DEF RunStep, RunIfGate, CheckBeforeAttempt, BeginAttempt, RunOnce, Succeed,
      RecordFailure, WaitBeforeRetry, Settle, RecordStepStatus, TypeOK
  <2>a. ASSUME UNCHANGED completed, task'[s] # "run", Delivered(s)' => Delivered(s),
               store' # Removed => store'.context = store.context
        PROVE  ContextInv'
    <3>1. \A t \in Step : task'[t] = "run" => task[t] = "run" /\ copy'[t] = copy[t]
      BY <2>1, <2>2, <2>a
    <3>2. \A t \in Step : Delivered(t)' => Delivered(t)
      BY <2>1, <2>a DEF Delivered
    <3> QED
      BY <2>1, <2>a, <3>1, <3>2, ContextStands
  <2> USE DEF Goto, Report, ReportFailure
  <2>3. CASE RunIfGate(s) \/ CheckBeforeAttempt(s)
    BY <1>0, <2>3, <2>a DEF RunIfGate, CheckBeforeAttempt, tracker, Delivered, TypeOK
  <2>4. CASE BeginAttempt(s)
    <3>1. CASE store = Removed
      BY <1>0, <2>4, <2>a, <3>1 DEF BeginAttempt, tracker, Delivered, TypeOK
    <3>2. CASE store # Removed
      <4>1. /\ UNCHANGED <<completed, result>> /\ store'.context = store.context
            /\ copy'[s] = store.context /\ task'[s] = "run"
        BY <1>0, <2>4, <3>2 DEF BeginAttempt, SetStep, tracker, TypeOK, State
      <4> QED
        BY <2>1, <2>2, <3>2, <4>1 DEF ContextInv, Delivered
    <3> QED
      BY <3>1, <3>2
  <2>5. CASE RunOnce(s)
    <3>1. PICK out \in Outcomes[s] :
            \E context \in IF out = "success" THEN {copy[s] \cup {s}}
                                              ELSE {copy[s], copy[s] \cup {s}} :
              WriteBack(s, out, context)
      BY <2>5 DEF RunOnce
    <3>2. PICK context : /\ WriteBack(s, out, context)
                         /\ copy[s] \subseteq context
                         /\ out = "success" => s \in context
      BY <3>1
    <3>3. task[s] = "run" /\ UNCHANGED <<completed, copy>>
      BY <2>5 DEF RunOnce, tracker
    <3>4. CASE out = "skip" \/ store = Removed
      BY <1>0, <2>a, <3>2, <3>3, <3>4 DEF WriteBack, Delivered, TypeOK
    <3>5. CASE out # "skip" /\ store # Removed
      <4>1. /\ store'.context = context /\ task'[s] = out /\ UNCHANGED result
        BY <1>0, <3>2, <3>5 DEF WriteBack, State, TypeOK
      <4>2. Writes(s) /\ out # "run" /\ out # "settle"
        BY <3>1, <3>5, WorkflowAssumption DEF Writes, Outcome
      <4>3. completed \subseteq context
        BY <3>2, <3>3, <3>5, <4>2 DEF ContextInv
      <4>4. \A t \in Step \ {s} : ~Delivered(t)
        <5> SUFFICES ASSUME NEW t \in Step \ {s}, Delivered(t) PROVE FALSE
          OBVIOUS
        <5>1. Writes(t) /\ task[t] \in Live
          BY DEF LaunchInv, Delivered, Live
        <5>2. task[s] \in Live
          BY <3>3 DEF Live
        <5> QED
          BY <4>2, <5>1, <5>2, OneWriter
      <4>5. \A t \in Step : Delivered(t)' => t \in context
        BY <2>1, <3>2, <4>1, <4>2, <4>4 DEF Delivered
      <4>6. \A t \in Step : task'[t] = "run" => task[t] = "run"
        BY <2>1, <3>3
      <4> QED
        BY <3>3, <3>5, <4>1, <4>3, <4>5, <4>6 DEF ContextInv
    <3> QED
      BY <3>4, <3>5
  <2>6. CASE Succeed(s)
    BY <1>0, <2>6, <2>a DEF Succeed, SetStep, State, tracker, Delivered, TypeOK
  <2>7. CASE RecordFailure(s)
    <3>1. UNCHANGED completed /\ task'[s] # "run"
      BY <1>0, <2>7 DEF RecordFailure, tracker, TypeOK
    <3>2. Delivered(s)' => Delivered(s)
      BY <1>0, <2>7 DEF RecordFailure, Delivered, TypeOK
    <3>3. store' # Removed => store'.context = store.context
      BY <1>0, <2>7 DEF RecordFailure, SetStep, State
    <3> QED
      BY <2>a, <3>1, <3>2, <3>3
  <2>8. CASE WaitBeforeRetry(s) \/ RecordStepStatus(s)
    BY <1>0, <2>8, <2>a DEF WaitBeforeRetry, RecordStepStatus, SetStep, State, tracker,
      Delivered, TypeOK
  <2>9. CASE Settle(s)
    <3>1. /\ UNCHANGED <<store, copy, result>>
          /\ task[s] = "settle" /\ task'[s] \notin {"run", "success", "settle"}
          /\ completed' = completed \/ (completed' = completed \cup {s} /\ Delivered(s))
      BY <1>0, <2>9 DEF Settle, Delivered, TypeOK
    <3>2. store # Removed => completed' \subseteq store.context
      BY <3>1 DEF ContextInv
    <3>3. \A t \in Step : Delivered(t)' => Delivered(t)
      BY <2>1, <3>1 DEF Delivered
    <3>4. ASSUME store # Removed, NEW t \in Step, task'[t] = "run", Writes(t)
          PROVE  completed' \subseteq copy[t]
      <4>1. task[t] = "run" /\ t # s
        BY <2>1, <3>1, <3>4
      <4>2. completed \subseteq copy[t]
        BY <3>4, <4>1 DEF ContextInv
      <4>3. ~Delivered(s)
        <5> SUFFICES ASSUME Delivered(s) PROVE FALSE
          OBVIOUS
        <5>1. Writes(s) /\ task[s] \in Live /\ task[t] \in Live
          BY <3>1, <4>1 DEF LaunchInv, Live
        <5> QED
          BY <3>4, <4>1, <5>1, OneWriter
      <4> QED
        BY <3>1, <4>2, <4>3
    <3> QED
      BY <3>1, <3>2, <3>3, <3>4 DEF ContextInv
  <2> QED
    BY <1>5, <2>3, <2>4, <2>5, <2>6, <2>7, <2>8, <2>9 DEF RunStep
<1>6. CASE UNCHANGED vars
  BY <1>6, <1>a DEF vars, tracker
<1> QED
  BY <1>1, <1>2, <1>3, <1>4, <1>5, <1>6
     DEF Next, ExecuteWorkflow, CallerStep, PlainLoopStep, Terminated

(* What a completed step wrote is still in the context, in every DAG whose *)
(* writing steps are ordered, whatever skips, fails or retries beside them *)
(* and whenever the instance is cancelled or collected.  Where two steps   *)
(* that write may run at once, the copy run_once writes back last takes    *)
(* the other's changes with it.                                            *)
THEOREM OrderedUpdatesSurvive == WritersAreOrdered => (Spec => []UpdatesSurvive)
<1> SUFFICES ASSUME WritersAreOrdered PROVE Spec => []UpdatesSurvive
  OBVIOUS
<1>1. Init => UpdateInv
  <2> SUFFICES ASSUME Init PROVE LaunchInv /\ ContextInv
    BY InitInv DEF UpdateInv
  <2> QED
    BY DEF Init, LaunchInv, ContextInv, Delivered
<1>2. UpdateInv /\ [Next]_vars => UpdateInv'
  BY NextInv, LaunchPreserved, ContextPreserved DEF UpdateInv
<1>3. UpdateInv => UpdatesSurvive
  BY DEF UpdateInv, ContextInv, UpdatesSurvive
<1> QED
  BY <1>1, <1>2, <1>3, PTL DEF Spec
===============================================================================
