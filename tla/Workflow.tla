------------------------------- MODULE Workflow -------------------------------
(***************************************************************************)
(* One instance of a workflow on the workflow engine: the scheduling loop  *)
(* (execute_workflow), a task per launched step, the state store, and the  *)
(* callers that cancel the instance, collect its state or shut the engine  *)
(* down.                                                                   *)
(*                                                                         *)
(* The loop and the tasks share the step tracker, behind a lock, and a     *)
(* completion channel; each store call is atomic.  The loop's scan, its    *)
(* verdict and the launch are one step: the tasks can only settle in       *)
(* between, and the verdict reads what the scan has read.                  *)
(*                                                                         *)
(* Left out: hooks and events, which change no state here, panics of       *)
(* executors, and error texts.                                             *)
(***************************************************************************)
EXTENDS Naturals, Sequences, FiniteSets

CONSTANTS
  Step,
  DependsOn,      \* of each step: steps that must all have ended well
  DependsOnAny,   \* and steps of which one must have
  OnFailure,      \* of each step: "fail", "continue" or "retry"
  Delayed,        \* steps with a delay or a schedule
  Conditional,    \* steps with a run_if condition
  Outcomes,       \* of each step: how an attempt of its executor can end
  MaxAttempts,    \* the retry policy
  Removed         \* no state in the store

Outcome == {"success", "skip", "fatal", "retryable"}

Dependencies(s) == DependsOn[s] \cup DependsOnAny[s]

(* validate: no step depends on itself through others.                     *)
IsDag ==
  \A set \in SUBSET Step : set # {} => \E s \in set : Dependencies(s) \cap set = {}

ASSUME WorkflowAssumption ==
  /\ IsFiniteSet(Step) /\ Step # {}
  /\ DependsOn \in [Step -> SUBSET Step]
  /\ DependsOnAny \in [Step -> SUBSET Step]
  /\ OnFailure \in [Step -> {"fail", "continue", "retry"}]
  /\ Delayed \subseteq Step /\ Conditional \subseteq Step
  /\ Outcomes \in [Step -> SUBSET Outcome]
  /\ MaxAttempts \in Nat \ {0}
  /\ IsDag

VARIABLES
  pc,         \* where the instance's own task is
  active,     \* active_workflows
  closing,    \* shutdown was called
  drained,    \* wait_for_shutdown has returned true
  completed, failed, skipped, running, waiting,   \* the step tracker
  ripe,       \* waiting steps whose time has come
  inbox,      \* completions in the channel
  pending,    \* pending_check
  launched,   \* the last scan launched a step
  store,      \* the instance's state
  cancels,    \* cancel_workflow was called
  task,       \* where each step's task is
  attempt,
  copy,       \* the context a step's executor works on
  result      \* what a step's task has to report

caller  == <<active, closing, drained, cancels>>
tracker == <<completed, failed, skipped, running, waiting, ripe>>
channel == <<inbox, pending, launched>>
tasks   == <<task, attempt, copy, result>>
vars    == <<pc, caller, tracker, channel, store, tasks>>

Terminal == {"Completed", "Failed", "Cancelled"}

(* A context is the set of steps whose changes it has.                     *)
State ==
  [status : Terminal \cup {"Running"},
   steps : [Step -> {"Pending", "Running", "Succeeded", "Failed", "Retrying", "Skipped"}],
   context : SUBSET Step]

(* The signal, and the step status still owed to the store, if any.        *)
Result == [signal : {"success", "skip", "failure"}, owed : {"none", "Failed", "Skipped"}]

TypeOK ==
  /\ pc \in {"new", "counted", "loop", "drain", "scan", "redrain", "blocked", "await",
             "recv", "finish", "refused", "done"}
  /\ active \in 0 .. 1
  /\ closing \in BOOLEAN /\ drained \in BOOLEAN /\ cancels \in BOOLEAN
  /\ completed \subseteq Step /\ failed \subseteq Step /\ skipped \subseteq Step
  /\ running \subseteq Step /\ waiting \subseteq Step /\ ripe \subseteq waiting
  /\ inbox \in Seq(Step) /\ Len(inbox) <= Cardinality(Step)
  /\ pending \subseteq Step
  /\ launched \in BOOLEAN
  /\ store \in State \cup {Removed}
  /\ task \in [Step -> {"none", "gate", "check", "begin", "run", "success", "fatal",
                        "retryable", "backoff", "settle", "record", "over"}]
  /\ attempt \in [Step -> 1 .. MaxAttempts]
  /\ copy \in [Step -> SUBSET Step]
  /\ result \in [Step -> Result]

Init ==
  /\ pc = "new"
  /\ active = 0
  /\ closing = FALSE /\ drained = FALSE /\ cancels = FALSE
  /\ completed = {} /\ failed = {} /\ skipped = {} /\ running = {} /\ waiting = {}
  /\ ripe = {}
  /\ inbox = << >>
  /\ pending = {s \in Step : Dependencies(s) = {}}
  /\ launched = FALSE
  /\ store = Removed
  /\ task = [s \in Step |-> "none"]
  /\ attempt = [s \in Step |-> 1]
  /\ copy = [s \in Step |-> {}]
  /\ result = [s \in Step |-> [signal |-> "success", owed |-> "none"]]

-------------------------------------------------------------------------------
(* The callers.                                                            *)

(* start_workflow counts the instance (StartGuard), then asks whether the  *)
(* engine is shutting down.                                                *)
Enter ==
  /\ pc = "new"
  /\ active' = active + 1
  /\ pc' = "counted"
  /\ UNCHANGED <<closing, drained, cancels, tracker, channel, store, tasks>>

NewState == [status |-> "Running", steps |-> [s \in Step |-> "Pending"], context |-> {}]

(* Mutant: a start that does not ask.                                      *)
AdmitAlways ==
  /\ pc = "counted"
  /\ pc' = "loop"
  /\ store' = NewState
  /\ UNCHANGED <<caller, tracker, channel, tasks>>

Admit ==
  /\ pc = "counted"
  /\ IF closing
     THEN pc' = "refused" /\ active' = active - 1 /\ UNCHANGED store
     ELSE pc' = "loop" /\ store' = NewState /\ UNCHANGED active
  /\ UNCHANGED <<closing, drained, cancels, tracker, channel, tasks>>

Shutdown ==
  /\ ~closing
  /\ closing' = TRUE
  /\ UNCHANGED <<pc, active, drained, cancels, tracker, channel, store, tasks>>

WaitForShutdown ==
  /\ closing /\ ~drained
  /\ active = 0
  /\ drained' = TRUE
  /\ UNCHANGED <<pc, active, closing, cancels, tracker, channel, store, tasks>>

(* cancel_workflow, also from force_cancel_all: whatever the status is.    *)
Cancel ==
  /\ ~cancels
  /\ store # Removed
  /\ store' = [store EXCEPT !.status = "Cancelled"]
  /\ cancels' = TRUE
  /\ UNCHANGED <<pc, active, closing, drained, tracker, channel, tasks>>

(* cleanup_if_terminal by a caller of wait_for_completion, or the sweep.   *)
Cleanup ==
  /\ store # Removed
  /\ store.status \in Terminal
  /\ store' = Removed
  /\ UNCHANGED <<pc, caller, tracker, channel, tasks>>

-------------------------------------------------------------------------------
(* The scheduling loop.                                                    *)

(* execute_workflow returns and its guard is dropped.                      *)
Return == pc' = "done" /\ active' = active - 1

IsCancelled == store = Removed \/ store.status = "Cancelled"

CheckCancelled ==
  /\ pc = "loop"
  /\ IF IsCancelled THEN Return ELSE pc' = "drain" /\ UNCHANGED active
  /\ UNCHANGED <<closing, drained, cancels, tracker, channel, store, tasks>>

(* enqueue_dependents, of some completed steps.                            *)
Unblocked(set) == {s \in Step : Dependencies(s) \cap (set \ failed) # {}}

Received == {inbox[i] : i \in 1 .. Len(inbox)}

(* drain_completions.                                                      *)
Drain ==
  /\ pc = "drain"
  /\ pending' = pending \cup Unblocked(Received)
  /\ inbox' = << >>
  /\ pc' = "scan"
  /\ UNCHANGED <<caller, tracker, launched, store, tasks>>

Processed == completed \cup failed \cup skipped
Satisfied == completed \cup skipped

(* Mutant: a step that runs is not told from one that never did.           *)
IsProcessableAgain(s) == s \notin Processed \cup waiting

IsStepProcessable(s) == s \notin Processed \cup running \cup waiting

IsReady(s) ==
  /\ IsStepProcessable(s)
  /\ DependsOn[s] \subseteq Satisfied
  /\ DependsOnAny[s] # {} => DependsOnAny[s] \cap Satisfied # {}
  /\ DependsOn[s] \cap failed = {}
  /\ DependsOnAny[s] # {} => ~(DependsOnAny[s] \subseteq failed)

(* scan_ready, schedule_ready and what the loop makes of them.             *)
Scan ==
  LET depsReady == {s \in pending : IsReady(s)}
      toLaunch  == ripe \cup (depsReady \ Delayed)
      toWait    == depsReady \cap Delayed
  IN  /\ pc = "scan"
      /\ pending' = {}
      /\ waiting' = (waiting \ ripe) \cup toWait
      /\ ripe' = {}
      /\ \/ /\ Processed = Step
            /\ pc' = "finish"
            /\ UNCHANGED <<running, launched, tasks>>
         \/ /\ Processed # Step
            /\ toLaunch = {} /\ running = {} /\ waiting \cup toWait = {}
            /\ pc' = "redrain"
            /\ UNCHANGED <<running, launched, tasks>>
         \/ /\ Processed # Step
            /\ ~(toLaunch = {} /\ running = {} /\ waiting \cup toWait = {})
            /\ pc' = "await"
            /\ running' = running \cup toLaunch
            /\ launched' = (toLaunch # {})
            /\ task' = [s \in Step |-> IF s \in toLaunch THEN "gate" ELSE task[s]]
            /\ UNCHANGED <<attempt, copy, result>>
      /\ UNCHANGED <<caller, completed, failed, skipped, inbox, store>>

(* Mutant: no second look at the channel.                                  *)
BlockedAtOnce ==
  /\ pc = "redrain"
  /\ pc' = "blocked"
  /\ UNCHANGED <<caller, tracker, channel, store, tasks>>

(* Mutant: a workflow is never given up.                                   *)
RedrainForEver ==
  /\ pc = "redrain"
  /\ pending' = pending \cup Unblocked(Received)
  /\ inbox' = << >>
  /\ pc' = "loop"
  /\ UNCHANGED <<caller, tracker, launched, store, tasks>>

(* The deadlock-check drain.                                               *)
Redrain ==
  /\ pc = "redrain"
  /\ pending' = pending \cup Unblocked(Received)
  /\ inbox' = << >>
  /\ pc' = IF inbox # << >> THEN "loop" ELSE "blocked"
  /\ UNCHANGED <<caller, tracker, launched, store, tasks>>

SetStatus(status) ==
  store' = IF store = Removed THEN Removed ELSE [store EXCEPT !.status = status]

FailBlocked ==
  /\ pc = "blocked"
  /\ SetStatus("Failed")
  /\ Return
  /\ UNCHANGED <<closing, drained, cancels, tracker, channel, tasks>>

(* Wait for a completion if a step runs, else go round again, after a      *)
(* sleep if a step waits.                                                  *)
Await ==
  /\ pc = "await"
  /\ pc' = IF launched \/ running # {} THEN "recv" ELSE "loop"
  /\ UNCHANGED <<caller, tracker, channel, store, tasks>>

Recv ==
  /\ pc = "recv"
  /\ inbox # << >>
  /\ pending' = pending \cup Unblocked({Head(inbox)})
  /\ inbox' = Tail(inbox)
  /\ pc' = "loop"
  /\ UNCHANGED <<caller, tracker, launched, store, tasks>>

Finish ==
  /\ pc = "finish"
  /\ SetStatus(IF failed = {} THEN "Completed" ELSE "Failed")
  /\ Return
  /\ UNCHANGED <<closing, drained, cancels, tracker, channel, tasks>>

(* A waiting step's delay or schedule is over.                             *)
Ripen(s) ==
  /\ s \in waiting \ ripe
  /\ ripe' = ripe \cup {s}
  /\ UNCHANGED <<pc, caller, completed, failed, skipped, running, waiting, channel, store,
                 tasks>>

-------------------------------------------------------------------------------
(* The task of a launched step.                                            *)

Goto(s, place) == task' = [task EXCEPT ![s] = place]

(* The task is about to settle, with what Completion says.                 *)
Report(s, signal, owed) ==
  /\ Goto(s, "settle")
  /\ result' = [result EXCEPT ![s] = [signal |-> signal, owed |-> owed]]

(* Completion::of, of a failure or an error.                               *)
ReportFailure(s) ==
  IF OnFailure[s] = "continue" THEN Report(s, "skip", "Skipped")
                               ELSE Report(s, "failure", "none")

(* run_if_gate.                                                            *)
RunIfGate(s) ==
  /\ task[s] = "gate"
  /\ \/ /\ s \in Conditional => store # Removed
        /\ Goto(s, "check") /\ UNCHANGED result
     \/ /\ s \in Conditional
        /\ IF store = Removed THEN Report(s, "failure", "Failed")
                              ELSE Report(s, "skip", "Skipped")
  /\ UNCHANGED <<pc, caller, tracker, channel, store, attempt, copy>>

(* Mutant: the retry loop does not ask.                                    *)
NeverChecks(s) ==
  /\ task[s] = "check"
  /\ IF store = Removed THEN ReportFailure(s) ELSE Goto(s, "begin") /\ UNCHANGED result
  /\ UNCHANGED <<pc, caller, tracker, channel, store, attempt, copy>>

(* The head of the retry loop.                                             *)
CheckBeforeAttempt(s) ==
  /\ task[s] = "check"
  /\ IF IsCancelled THEN ReportFailure(s) ELSE Goto(s, "begin") /\ UNCHANGED result
  /\ UNCHANGED <<pc, caller, tracker, channel, store, attempt, copy>>

SetStep(s, status) == store' = [store EXCEPT !.steps[s] = status]

(* begin_attempt, and the copy of the context run_once takes.              *)
BeginAttempt(s) ==
  /\ task[s] = "begin"
  /\ IF store = Removed
     THEN ReportFailure(s) /\ UNCHANGED <<store, copy>>
     ELSE /\ SetStep(s, IF attempt[s] = 1 THEN "Running" ELSE "Retrying")
          /\ copy' = [copy EXCEPT ![s] = store.context]
          /\ Goto(s, "run")
          /\ UNCHANGED result
  /\ UNCHANGED <<pc, caller, tracker, channel, attempt>>

(* Mutant: a skip writes its copy back too.                                *)
WriteBackAlways(s, out, context) ==
  /\ IF store = Removed
     THEN ReportFailure(s) /\ UNCHANGED store
     ELSE /\ store' = [store EXCEPT !.context = context]
          /\ IF out = "skip" THEN Report(s, "skip", "none")
                             ELSE Goto(s, out) /\ UNCHANGED result

WriteBack(s, out, context) ==
  IF out = "skip"
  THEN Report(s, "skip", "none") /\ UNCHANGED store
  ELSE IF store = Removed
  THEN ReportFailure(s) /\ UNCHANGED store
  ELSE /\ store' = [store EXCEPT !.context = context]
       /\ Goto(s, out)
       /\ UNCHANGED result

(* run_once: the executor ends, or its time does.  What it changed of the  *)
(* context is written back with the rest of the copy, except for a skip.   *)
RunOnce(s) ==
  /\ task[s] = "run"
  /\ \E out \in Outcomes[s] :
       \E context \in IF out = "success" THEN {copy[s] \cup {s}}
                                         ELSE {copy[s], copy[s] \cup {s}} :
         WriteBack(s, out, context)
  /\ UNCHANGED <<pc, caller, tracker, channel, attempt, copy>>

Succeed(s) ==
  /\ task[s] = "success"
  /\ IF store = Removed THEN ReportFailure(s) /\ UNCHANGED store
                        ELSE Report(s, "success", "none") /\ SetStep(s, "Succeeded")
  /\ UNCHANGED <<pc, caller, tracker, channel, attempt, copy>>

WillRetry(s) ==
  task[s] = "retryable" /\ (OnFailure[s] = "retry" \/ attempt[s] < MaxAttempts)

RecordFailure(s) ==
  /\ task[s] \in {"fatal", "retryable"}
  /\ IF store = Removed
     THEN ReportFailure(s) /\ UNCHANGED store
     ELSE /\ SetStep(s, IF WillRetry(s) THEN "Retrying" ELSE "Failed")
          /\ IF WillRetry(s) THEN Goto(s, "backoff") /\ UNCHANGED result
                             ELSE ReportFailure(s)
  /\ UNCHANGED <<pc, caller, tracker, channel, attempt, copy>>

(* wait_before_retry.  A step that retries for ever is not counted past    *)
(* its policy.                                                             *)
WaitBeforeRetry(s) ==
  /\ task[s] = "backoff"
  /\ attempt' = [attempt EXCEPT ![s] =
                   IF OnFailure[s] = "retry" /\ @ = MaxAttempts THEN @ ELSE @ + 1]
  /\ Goto(s, "check")
  /\ UNCHANGED <<pc, caller, tracker, channel, store, copy, result>>

(* settle, under the tracker's lock.  The channel is closed once the loop  *)
(* has returned.                                                           *)
Settle(s) ==
  /\ task[s] = "settle"
  /\ running' = running \ {s}
  /\ completed' = completed \cup (IF result[s].signal = "success" THEN {s} ELSE {})
  /\ skipped' = skipped \cup (IF result[s].signal = "skip" THEN {s} ELSE {})
  /\ failed' = failed \cup (IF result[s].signal = "failure" THEN {s} ELSE {})
  /\ inbox' = IF pc = "done" THEN inbox ELSE Append(inbox, s)
  /\ Goto(s, IF result[s].owed = "none" THEN "over" ELSE "record")
  /\ UNCHANGED <<pc, caller, waiting, ripe, pending, launched, store, attempt, copy, result>>

(* record_step_status.                                                     *)
RecordStepStatus(s) ==
  /\ task[s] = "record"
  /\ IF store = Removed THEN UNCHANGED store ELSE SetStep(s, result[s].owed)
  /\ Goto(s, "over")
  /\ UNCHANGED <<pc, caller, tracker, channel, attempt, copy, result>>

-------------------------------------------------------------------------------

ExecuteWorkflow ==
  CheckCancelled \/ Drain \/ Scan \/ Redrain \/ FailBlocked \/ Await \/ Recv \/ Finish

RunStep(s) ==
  \/ RunIfGate(s)
  \/ CheckBeforeAttempt(s)
  \/ BeginAttempt(s)
  \/ RunOnce(s)
  \/ Succeed(s)
  \/ RecordFailure(s)
  \/ WaitBeforeRetry(s)
  \/ Settle(s)
  \/ RecordStepStatus(s)

(* Both ends reached, nothing is left to do.                               *)
Terminated ==
  /\ pc \in {"done", "refused"} /\ drained
  /\ \A s \in Step : task[s] \in {"none", "over"}
  /\ UNCHANGED vars

Next ==
  \/ Enter \/ Admit \/ Shutdown \/ WaitForShutdown \/ Cancel \/ Cleanup
  \/ ExecuteWorkflow
  \/ \E s \in Step : Ripen(s) \/ RunStep(s)
  \/ Terminated

Spec == Init /\ [][Next]_vars

(* Spawned tasks are polled, executors end by their step's timeout, and    *)
(* delays pass.  Nobody need cancel, collect or shut down.                 *)
FairSpec ==
  /\ Spec
  /\ WF_vars(Admit)
  /\ WF_vars(ExecuteWorkflow)
  /\ \A s \in Step : WF_vars(Ripen(s)) /\ WF_vars(RunStep(s))

-------------------------------------------------------------------------------

(* A step is launched at most once, and only when the steps it depends on  *)
(* have ended well, however the completions of several dependencies fall   *)
(* between the scans: is_step_processable and the checks of scan_ready.    *)
LaunchedOnceAndInOrder ==
  [][\A s \in Step :
       task'[s] = "gate" /\ task[s] # "gate" =>
         /\ task[s] = "none"
         /\ DependsOn[s] \subseteq Satisfied
         /\ DependsOnAny[s] # {} => DependsOnAny[s] \cap Satisfied # {}]_vars

(* The verdict is about the steps: a workflow fails only if a step has     *)
(* failed, never as deadlocked by a completion the loop had not read       *)
(* (fail_blocked), and completes only if every step ended well.            *)
VerdictMatchesSteps ==
  store # Removed =>
    /\ store.status = "Failed" => failed # {}
    /\ store.status = "Completed" => Satisfied = Step

(* What a completed step has put into the context is still there, where    *)
(* the steps beside it skip: a branch not taken does not bring back the    *)
(* context as it was (run_once).                                           *)
UpdatesSurvive ==
  store # Removed => completed \subseteq store.context

(* When wait_for_shutdown has returned true no workflow is under way, and  *)
(* none begins: the order in which start_workflow counts and asks.         *)
ShutdownIsComplete ==
  drained => pc \in {"new", "counted", "refused", "done"}

(* A workflow that has been admitted ends, unless a step fails and retries *)
(* for ever: the loop never waits for a completion that does not come.     *)
WorkflowEnds ==
  \/ pc = "loop" ~> pc = "done"
  \/ []<>(\E s \in Step : OnFailure[s] = "retry" /\ task[s] = "backoff")

(* A cancelled workflow ends, also from under a step that fails and        *)
(* retries for ever while the loop waits for it.                           *)
CancelEnds == cancels ~> pc = "done"
===============================================================================
