-------------------------- MODULE WorkflowLifecycle --------------------------
(***************************************************************************)
(* What one WorkflowRun and its WorkflowStepRuns promise to a reader of    *)
(* the database, whoever writes them: the orchestrator's advance, the      *)
(* resolution of an Agent challenge, or the resumption of an approved      *)
(* mutation.  A step is                                                    *)
(*   PENDING until every step it depends on is COMPLETED, then READY,      *)
(*   RUNNING once claimed (possibly WAITING_FOR_APPROVAL for a while), and *)
(*   finally COMPLETED, FAILED or CANCELLED;                               *)
(* a run goes CREATED, RUNNING and then to the terminal status its steps   *)
(* justify.  The actions below are the transitions of                      *)
(* workflows/service.py seen as committed states; the concurrent sessions  *)
(* that take them are in Orchestrator.tla and MutationResume.tla, which    *)
(* are shown to implement this specification.                              *)
(***************************************************************************)
EXTENDS Naturals

CONSTANTS
    Steps,      \* the WorkflowStepRun rows of one WorkflowRun
    DependsOn   \* WorkflowStepDependency: the steps each step depends on

VARIABLES
    run,    \* WorkflowRun.status
    step    \* WorkflowStepRun.status of each step

vars == <<run, step>>

RunStatus  == {"CREATED", "RUNNING", "COMPLETED", "FAILED", "CANCELLED"}
StepStatus == {"PENDING", "READY", "RUNNING", "WAITING_FOR_APPROVAL",
               "COMPLETED", "FAILED", "CANCELLED"}
RunTerminal  == {"COMPLETED", "FAILED", "CANCELLED"}
StepTerminal == {"COMPLETED", "FAILED", "CANCELLED"}

\* incomplete_dependency_count(d) = 0 once the steps in done are COMPLETED.
Satisfied(d, done) == DependsOn[d] \subseteq done

Completed == {s \in Steps : step[s] = "COMPLETED"}

-----------------------------------------------------------------------------

\* create_run: a step that appears on the left of a dependency is PENDING,
\* every other step is READY at once.
InitialStep == [s \in Steps |-> IF DependsOn[s] = {} THEN "READY" ELSE "PENDING"]

Init ==
    /\ run = "CREATED"
    /\ step = InitialStep

Start ==
    /\ run = "CREATED"
    /\ run' = "RUNNING"
    /\ UNCHANGED step

\* The pairs transition_step allows that do not complete the step.
Moves == { <<"READY", "RUNNING">>,
           <<"RUNNING", "WAITING_FOR_APPROVAL">>,
           <<"WAITING_FOR_APPROVAL", "RUNNING">>,
           <<"WAITING_FOR_APPROVAL", "FAILED">>,
           <<"RUNNING", "FAILED">> }
         \cup ({"PENDING", "READY", "RUNNING", "WAITING_FOR_APPROVAL"} \X {"CANCELLED"})

Move(s) ==
    /\ run # "CREATED"
    /\ \E m \in Moves : step[s] = m[1] /\ step' = [step EXCEPT ![s] = m[2]]
    /\ UNCHANGED run

\* A completion makes READY only dependents whose dependencies are all
\* COMPLETED.  It may leave such a dependent PENDING (see Orchestrator.tla).
Publish(s, unlocked) ==
    /\ step[s] = "RUNNING"
    /\ \A d \in unlocked : step[d] = "PENDING" /\ Satisfied(d, Completed \cup {s})
    /\ step' = [x \in Steps |-> IF x = s THEN "COMPLETED"
                                ELSE IF x \in unlocked THEN "READY"
                                ELSE step[x]]

Complete(s) ==
    /\ run # "CREATED"
    /\ \E unlocked \in SUBSET Steps : Publish(s, unlocked)
    /\ UNCHANGED run

\* A terminal run status needs the steps that justify it.
Justified(status, steps) ==
    \/ status = "COMPLETED" /\ \A s \in Steps : steps[s] = "COMPLETED"
    \/ status = "FAILED"    /\ \E s \in Steps : steps[s] = "FAILED"
    \/ status = "CANCELLED" /\ \E s \in Steps : steps[s] = "CANCELLED"

End ==
    /\ run = "RUNNING"
    /\ \E status \in RunTerminal : Justified(status, step) /\ run' = status
    /\ UNCHANGED step

\* Challenge resolution ends the step and the run in one transaction.
FailTogether(s) ==
    /\ run = "RUNNING"
    /\ step[s] = "RUNNING"
    /\ step' = [step EXCEPT ![s] = "FAILED"]
    /\ run' = "FAILED"

CompleteTogether(s) ==
    /\ run = "RUNNING"
    /\ Publish(s, {})
    /\ Justified("COMPLETED", step')
    /\ run' = "COMPLETED"

Next ==
    \/ Start
    \/ End
    \/ \E s \in Steps :
          Move(s) \/ Complete(s) \/ FailTogether(s) \/ CompleteTogether(s)

Spec == Init /\ [][Next]_vars

-----------------------------------------------------------------------------
TypeOK ==
    /\ run \in RunStatus
    /\ step \in [Steps -> StepStatus]

\* A step that is not cancelled leaves PENDING only after every step it
\* depends on is COMPLETED, however completions interleave
\* (workflows/service.py transition_step).
DependencyOrder ==
    \A s \in Steps :
        step[s] \notin {"PENDING", "CANCELLED"} => Satisfied(s, Completed)

\* A run's terminal status is justified by its steps: COMPLETED means every
\* step is, FAILED and CANCELLED mean some step is.
OutcomeJustified == run \in RunTerminal => Justified(run, step)

\* Terminal statuses are final: no committed transition leaves one, for the
\* run or for any step.
TerminalIsFinal ==
    [][ /\ run \in RunTerminal => run' = run
        /\ \A s \in Steps : step[s] \in StepTerminal => step'[s] = step[s] ]_vars
=============================================================================
