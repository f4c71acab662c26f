------------------------------ MODULE MCWorkflow ------------------------------
(* An instance of Workflow in the shape of worker_registration: a branch   *)
(* of two steps beside one that is not taken, a step after both branches   *)
(* and a late one after either.                                            *)
EXTENDS Workflow, TLC

CONSTANTS detect, create, external, register, submit

MCDependsOn ==
  [s \in Step |-> CASE s = create -> {detect}
                    [] s = register -> {create, external}
                    [] OTHER -> {}]

MCDependsOnAny == [s \in Step |-> IF s = submit THEN {create, external} ELSE {}]

MCOnFailure ==
  [s \in Step |-> CASE s \in {register, submit} -> "continue"
                    [] s = create -> "retry"
                    [] OTHER -> "fail"]

MCOutcomes ==
  [s \in Step |-> CASE s = detect -> {"success"}
                    [] s = create -> {"success", "retryable", "fatal"}
                    [] s = register -> {"success", "retryable"}
                    [] OTHER -> {"skip"}]
===============================================================================
