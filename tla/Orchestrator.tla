----------------------------- MODULE Orchestrator -----------------------------
(***************************************************************************)
(* orchestrator/service.py (advance) and orchestrator/challenge_service.py *)
(* (resolve) driving one WorkflowRun through workflows/service.py.         *)
(*                                                                         *)
(* Every HTTP request owns one database session.  A session is a program   *)
(* counter plus the values the handler keeps between two commits, and each *)
(* action is the code between two points where another session may be      *)
(* scheduled: a commit, an await on the provider, or the gap between two   *)
(* SELECTs of one READ COMMITTED transaction.  The UPDATE ... WHERE status *)
(* = expected of the repositories is a guard on the committed status; the  *)
(* writes of an open transaction are invisible until its commit.           *)
(*                                                                         *)
(* A request may die at any point (Crash): its open transaction is rolled  *)
(* back, what it committed stays.                                          *)
(***************************************************************************)
EXTENDS Naturals, FiniteSets, Sequences

CONSTANTS
    Steps,       \* the WorkflowStepRun rows of the run
    DependsOn,   \* [Steps -> SUBSET Steps]
    Position,    \* [Steps -> Nat]: WorkflowStep.position, the plan order
    StepType,    \* [Steps -> StepTypes]
    Role,        \* [Steps -> Roles]: the trusted role dispatch finds
    Advancers,   \* sessions that serve POST .../advance
    Humans,      \* sessions that serve POST .../challenge-resolution
    NoStep,      \* a model value: no step selected
    MaxCrashes   \* bound on the number of requests that die

\* WorkflowStep.step_type: AGENT_TASK, or UNASSIGNED for one with no agent
\* definition, or MANUAL for MANUAL_REVIEW and SYSTEM.
StepTypes == {"AGENT_TASK", "UNASSIGNED", "MANUAL"}
Roles == {"generic", "developer_manager", "developer_worker", "qa_worker"}
Sessions == Advancers \cup Humans

\* A plan has at least one step (create_run) and is a graph validate_graph
\* accepts; positions are unique in a plan (uq_workflow_steps_plan_position).
ASSUME PlanAssumption ==
    /\ Steps # {}
    /\ DependsOn \in [Steps -> SUBSET Steps]
    /\ \A s \in Steps : s \notin DependsOn[s]
    /\ Position \in [Steps -> Nat]
    /\ \A s, t \in Steps : Position[s] = Position[t] => s = t
    /\ StepType \in [Steps -> StepTypes]
    /\ Role \in [Steps -> Roles]
    /\ NoStep \notin Steps
    /\ Advancers \cap Humans = {}
    /\ MaxCrashes \in Nat

VARIABLES
    \* --- committed database rows
    run,        \* WorkflowRun.status
    step,       \* WorkflowStepRun.status
    agent,      \* status of the AgentRun linked by agent_run_id, or "NONE"
    challenge,  \* AgentChallengeResolution of each step
    handoff,    \* steps that are the destination of a WorkflowStepHandoff
    events,     \* runtime events appended with source "orchestrator"
    \* --- one entry per session
    pc,         \* where the handler is between two commits
    sel,        \* the step it works on
    out,        \* what agent execution returned
    ready,      \* dependents its open transaction has moved to READY
    emit,       \* events it still has to append, in order
    \* --- history
    executed,   \* how many times an agent was executed for each step
    crashes

rows    == <<run, step, agent, challenge, handoff, events>>
locals  == <<pc, sel, out, ready, emit>>
history == <<executed, crashes>>
vars    == <<run, step, agent, challenge, handoff, events,
             pc, sel, out, ready, emit, executed, crashes>>

-----------------------------------------------------------------------------
(* Vocabulary                                                              *)

RunStatus  == {"CREATED", "RUNNING", "COMPLETED", "FAILED", "CANCELLED"}
StepStatus == {"PENDING", "READY", "RUNNING", "WAITING_FOR_APPROVAL",
               "COMPLETED", "FAILED", "CANCELLED"}
RunTerminal == {"COMPLETED", "FAILED", "CANCELLED"}

\* A result is accepted for the step's role (ok) or not: COMPLETED for a
\* manager or developer, COMPLETED with a passing verdict for QA, always for
\* a generic agent.  fit: persist_next_handoff can turn it into a handoff.
Levels == {"NONE", "HUMAN_REVIEW_RECOMMENDED", "BLOCK_RECOMMENDED"}
Meaningful == Levels \ {"NONE"}
Kinds == {"none", "error", "cancelled", "waiting", "failed", "succeeded"}
Outcome == [kind : Kinds, level : Levels, ok : BOOLEAN, fit : BOOLEAN]
Just(kind) == [kind |-> kind, level |-> "NONE", ok |-> FALSE, fit |-> FALSE]
NoOutcome == Just("none")

Decisions == {"NONE", "PENDING", "ACCEPT_RESULT", "REJECT_RESULT"}
Challenge == [decision : Decisions, level : Levels, ok : BOOLEAN]
NoChallenge == [decision |-> "NONE", level |-> "NONE", ok |-> FALSE]

EventTypes == {"run.started", "run.completed", "run.failed",
               "run.waiting_for_human", "step.started", "step.completed",
               "step.failed", "step.waiting_for_approval", "challenge.resolved"}
Event == EventTypes \X (Steps \cup {NoStep})

Completed == {s \in Steps : step[s] = "COMPLETED"}
InStatus(status) == {s \in Steps : step[s] = status}

\* persist_next_handoff: the step that follows in plan order, if any.
HandoffRoles == {"developer_manager", "developer_worker"}
NextInPlan(s) == {t \in Steps : Position[t] = Position[s] + 1}
HandoffOf(s) == IF Role[s] \in HandoffRoles THEN NextInPlan(s) ELSE {}

\* The plans create_development_workflow makes: a developer or QA step
\* depends on the step before it, which hands over to it.
FixedGraph ==
    \A s \in Steps : Role[s] \in {"developer_worker", "qa_worker"} =>
        \E p \in DependsOn[s] : Role[p] \in HandoffRoles /\ Position[s] = Position[p] + 1

\* Mutant: a dependent is unlocked by any of its dependencies.
UnlockableByAny(s) == {d \in InStatus("PENDING") : s \in DependsOn[d]}

\* The dependents a transaction that completes s finds unlocked: PENDING,
\* and with no dependency that is neither committed COMPLETED nor s itself.
Unlockable(s) ==
    {d \in InStatus("PENDING") : s \in DependsOn[d] /\ DependsOn[d] \subseteq Completed \cup {s}}

\* The rows after the completion of s is published.
CompletedWith(s, unlocked) ==
    [x \in Steps |-> IF x = s THEN "COMPLETED"
                     ELSE IF x \in unlocked THEN "READY"
                     ELSE step[x]]

-----------------------------------------------------------------------------
(* Session control                                                         *)

At(a, label) == pc[a] = label /\ emit[a] = <<>>
Goto(a, label) == pc' = [pc EXCEPT ![a] = label]

\* The handler returns or raises: its locals are gone.
Return(a) ==
    /\ pc' = [pc EXCEPT ![a] = "idle"]
    /\ sel' = [sel EXCEPT ![a] = NoStep]
    /\ out' = [out EXCEPT ![a] = NoOutcome]
    /\ ready' = [ready EXCEPT ![a] = {}]
    /\ emit' = [emit EXCEPT ![a] = <<>>]

Emit(a, queue) == emit' = [emit EXCEPT ![a] = queue]

\* _event: append_event in a transaction of its own.  "return" is a handler
\* with nothing left to do but these events.
AppendEvent(a) ==
    /\ emit[a] # <<>>
    /\ events' = events \cup {Head(emit[a])}
    /\ IF pc[a] = "return" /\ Len(emit[a]) = 1
       THEN Return(a)
       ELSE Emit(a, Tail(emit[a])) /\ UNCHANGED <<pc, sel, out, ready>>
    /\ UNCHANGED <<run, step, agent, challenge, handoff, history>>

Crash(a) ==
    /\ pc[a] # "idle"
    /\ crashes < MaxCrashes
    /\ crashes' = crashes + 1
    /\ Return(a)
    /\ UNCHANGED <<rows, executed>>

-----------------------------------------------------------------------------
(* Mutants: plausible bugs of the actions below, used to show that each    *)
(* checked property can fail.  No action of Next refers to them.           *)

\* The claim is a plain UPDATE.
ClaimUnguarded(a) ==
    /\ At(a, "claim")
    /\ step' = [step EXCEPT ![sel[a]] = "RUNNING"]
    /\ Goto(a, "execute")
    /\ Emit(a, << <<"step.started", sel[a]>> >>)
    /\ UNCHANGED <<run, agent, challenge, handoff, events, sel, out, ready, history>>

\* A refused dispatch raises, and leaves the claimed step as it is.
DispatchRaises(a) ==
    /\ At(a, "execute")
    /\ Role[sel[a]] # "generic"
    /\ Return(a)
    /\ UNCHANGED <<rows, history>>

\* A suspended step is handed back to the queue.
SuspendReleases(a) ==
    /\ At(a, "suspend")
    /\ step[sel[a]] = "RUNNING"
    /\ step' = [step EXCEPT ![sel[a]] = "READY"]
    /\ Goto(a, "return")
    /\ Emit(a, << <<"step.waiting_for_approval", sel[a]>> >>)
    /\ UNCHANGED <<run, agent, challenge, handoff, events, sel, out, ready, history>>

\* Both failure events are appended before fail_run commits.
FailStepReportsRun(a) ==
    /\ At(a, "failStep")
    /\ step[sel[a]] = "RUNNING"
    /\ step' = [step EXCEPT ![sel[a]] = "FAILED"]
    /\ Goto(a, "failRun")
    /\ Emit(a, << <<"step.failed", sel[a]>>, <<"run.failed", sel[a]>> >>)
    /\ UNCHANGED <<run, agent, challenge, handoff, events, sel, out, ready, history>>

\* The completion is committed before persist_next_handoff.
CommitStepWithoutHandoff(a) ==
    /\ At(a, "commit")
    /\ step' = CompletedWith(sel[a], ready[a])
    /\ ready' = [ready EXCEPT ![a] = {}]
    /\ Goto(a, "count")
    /\ Emit(a, << <<"step.completed", sel[a]>> >>)
    /\ UNCHANGED <<run, agent, challenge, handoff, events, sel, out, history>>

\* A BLOCK_RECOMMENDED result can be accepted.
ResolveAny(a, s, decision) ==
    /\ At(a, "idle")
    /\ challenge[s].decision = "PENDING"
    /\ run = "RUNNING"
    /\ agent[s] = "SUCCEEDED"
    /\ InStatus("RUNNING") = {s}
    /\ sel' = [sel EXCEPT ![a] = s]
    /\ Goto(a, IF decision = "REJECT_RESULT" THEN "reject"
               ELSE IF challenge[s].ok THEN "accept" ELSE "failBoth")
    /\ UNCHANGED <<rows, out, ready, emit, history>>

\* resolve waits until nothing is RUNNING, the challenged step included.
ResolveWhenQuiet(a, s, decision) ==
    /\ At(a, "idle")
    /\ challenge[s].decision = "PENDING"
    /\ InStatus("RUNNING") = {}
    /\ sel' = [sel EXCEPT ![a] = s]
    /\ Goto(a, "reject")
    /\ UNCHANGED <<rows, out, ready, emit, history>>

\* The decision fails the step and leaves the run to another transaction.
CommitFailedStepOnly(a) ==
    /\ At(a, "reject") \/ At(a, "failBoth")
    /\ step[sel[a]] = "RUNNING" /\ run = "RUNNING"
    /\ step' = [step EXCEPT ![sel[a]] = "FAILED"]
    /\ challenge' = [challenge EXCEPT ![sel[a]].decision = "REJECT_RESULT"]
    /\ events' = events \cup {<<"challenge.resolved", sel[a]>>, <<"step.failed", sel[a]>>}
    /\ Return(a)
    /\ UNCHANGED <<run, agent, handoff, history>>

-----------------------------------------------------------------------------
(* advance: choose a step                                                  *)

\* A run already terminal is reported and nothing is written.
ReportTerminal(a) ==
    /\ At(a, "idle")
    /\ run \in RunTerminal
    /\ UNCHANGED vars

\* The first SELECT of advance reads run.status; the ORM keeps that value
\* for the rest of the request.
ReadRun(a) ==
    /\ At(a, "idle")
    /\ run \notin RunTerminal
    /\ Goto(a, IF run = "CREATED" THEN "selectCreated" ELSE "select")
    /\ UNCHANGED <<rows, sel, out, ready, emit, history>>

Selecting(a) == At(a, "select") \/ At(a, "selectCreated")

\* Every step COMPLETED: an earlier request died before complete_run.
FindAllCompleted(a) ==
    /\ Selecting(a)
    /\ Completed = Steps
    /\ Goto(a, "completeRun")
    /\ UNCHANGED <<rows, sel, out, ready, emit, history>>

\* No READY step: WAITING_FOR_HUMAN or NO_RUNNABLE_STEP, nothing written.
FindNoneReady(a) ==
    /\ Selecting(a)
    /\ Completed # Steps
    /\ InStatus("READY") = {}
    /\ Return(a)
    /\ UNCHANGED <<rows, history>>

\* Only an agent task with a definition is claimed; the others wait for a
\* human, who is told of the manual ones.
Proceed(s) == CASE StepType[s] = "AGENT_TASK" -> "claim"
                [] StepType[s] = "MANUAL"     -> "park"
                [] OTHER                      -> "leave"

\* The first READY step in plan order.
SelectReady(a) ==
    /\ Selecting(a)
    /\ \E s \in InStatus("READY") :
          /\ \A t \in InStatus("READY") : Position[s] <= Position[t]
          /\ sel' = [sel EXCEPT ![a] = s]
          /\ Goto(a, IF pc[a] = "selectCreated" THEN "start" ELSE Proceed(s))
    /\ UNCHANGED <<rows, out, ready, emit, history>>

\* _ensure_running: CREATED -> RUNNING, or another request already did it.
StartRun(a) ==
    /\ At(a, "start")
    /\ run = "CREATED"
    /\ run' = "RUNNING"
    /\ Goto(a, Proceed(sel[a]))
    /\ Emit(a, << <<"run.started", NoStep>> >>)
    /\ UNCHANGED <<step, agent, challenge, handoff, events, sel, out, ready, history>>

StartConflict(a) ==
    /\ At(a, "start")
    /\ run # "CREATED"
    /\ Return(a)
    /\ UNCHANGED <<rows, history>>

Park(a) ==
    /\ At(a, "park")
    /\ events' = events \cup {<<"run.waiting_for_human", sel[a]>>}
    /\ Return(a)
    /\ UNCHANGED <<run, step, agent, challenge, handoff, history>>

LeaveUnassigned(a) ==
    /\ At(a, "leave")
    /\ Return(a)
    /\ UNCHANGED <<rows, history>>

-----------------------------------------------------------------------------
(* advance: claim the step and execute its agent                           *)

\* transition_step READY -> RUNNING.  The run's status is not part of the
\* guard: it was read before the claim.
Claim(a) ==
    /\ At(a, "claim")
    /\ step[sel[a]] = "READY"
    /\ step' = [step EXCEPT ![sel[a]] = "RUNNING"]
    /\ Goto(a, "execute")
    /\ Emit(a, << <<"step.started", sel[a]>> >>)
    /\ UNCHANGED <<run, agent, challenge, handoff, events, sel, out, ready, history>>

ClaimConflict(a) ==
    /\ At(a, "claim")
    /\ step[sel[a]] # "READY"
    /\ Return(a)
    /\ UNCHANGED <<rows, history>>

\* What agent execution can return for a step: an ApplicationError, a
\* cancellation, an AgentRun left waiting for an approval (the developer is
\* the only role with tools), a failed AgentRun, or a validated result.
Results(s) ==
    {o \in [kind : {"succeeded"}, level : Levels, ok : BOOLEAN, fit : BOOLEAN] :
        /\ Role[s] = "generic" => o.ok
        /\ Role[s] # "developer_manager" => o.fit}
Outcomes(s) ==
    {Just("error"), Just("cancelled"), Just("failed")}
    \cup (IF Role[s] = "developer_worker" THEN {Just("waiting")} ELSE {})
    \cup Results(s)

\* dispatch refuses a fixed-graph step whose input handoff is missing, or
\* whose agent definition is no longer the trusted one, before any agent is
\* executed.
DispatchRefused(a) ==
    /\ At(a, "execute")
    /\ Role[sel[a]] # "generic"
    /\ Goto(a, "failStep")
    /\ UNCHANGED <<rows, sel, out, ready, emit, history>>

Execute(a) ==
    /\ At(a, "execute")
    /\ Role[sel[a]] = "generic" \/ sel[a] \in handoff
    /\ \E o \in Outcomes(sel[a]) :
          /\ out' = [out EXCEPT ![a] = o]
          /\ Goto(a, CASE o.kind = "error"     -> "failStep"
                       [] o.kind = "cancelled" -> "cancelStep"
                       [] OTHER                -> "link")
    /\ executed' = [executed EXCEPT ![sel[a]] = @ + 1]
    /\ UNCHANGED <<rows, sel, ready, emit, crashes>>

AgentStatusOf(kind) ==
    CASE kind = "waiting" -> "WAITING_FOR_APPROVAL"
      [] kind = "failed"  -> "FAILED"
      [] OTHER            -> "SUCCEEDED"

\* The branches between link_agent_run and the next write: an unfit manager
\* result fails before its challenge is recorded, a result the role does not
\* accept fails only when it is not challenged.
AfterLink(s, o) ==
    CASE o.kind = "waiting" -> "suspend"
      [] o.kind = "failed"  -> "failStep"
      [] Role[s] = "developer_manager" /\ o.ok /\ ~o.fit -> "failStep"
      [] o.level \in Meaningful -> "challenge"
      [] ~o.ok -> "failStep"
      [] OTHER -> "finish"

\* link_agent_run: agent_run_id is set only where it is NULL.
LinkAgentRun(a) ==
    /\ At(a, "link")
    /\ agent[sel[a]] = "NONE"
    /\ agent' = [agent EXCEPT ![sel[a]] = AgentStatusOf(out[a].kind)]
    /\ Goto(a, AfterLink(sel[a], out[a]))
    /\ UNCHANGED <<run, step, challenge, handoff, events, sel, out, ready, emit, history>>

-----------------------------------------------------------------------------
(* advance: settle the step                                                *)

\* transition_step RUNNING -> WAITING_FOR_APPROVAL.
Suspend(a) ==
    /\ At(a, "suspend")
    /\ step[sel[a]] = "RUNNING"
    /\ step' = [step EXCEPT ![sel[a]] = "WAITING_FOR_APPROVAL"]
    /\ Goto(a, "return")
    /\ Emit(a, << <<"step.waiting_for_approval", sel[a]>> >>)
    /\ UNCHANGED <<run, agent, challenge, handoff, events, sel, out, ready, history>>

\* The handoff, the pending challenge and its event share one commit; the
\* step stays RUNNING.
RecordChallenge(a) ==
    LET s == sel[a] IN
    /\ At(a, "challenge")
    /\ challenge' = [challenge EXCEPT ![s] =
          [decision |-> "PENDING", level |-> out[a].level, ok |-> out[a].ok]]
    /\ handoff' = handoff \cup (IF out[a].ok THEN HandoffOf(s) ELSE {})
    /\ events' = events \cup {<<"run.waiting_for_human", s>>}
    /\ Return(a)
    /\ UNCHANGED <<run, step, agent, history>>

\* _fail: the step and the run fail in two transactions.
FailStep(a) ==
    /\ At(a, "failStep")
    /\ step[sel[a]] = "RUNNING"
    /\ step' = [step EXCEPT ![sel[a]] = "FAILED"]
    /\ Goto(a, "failRun")
    /\ UNCHANGED <<run, agent, challenge, handoff, events, sel, out, ready, emit, history>>

FailRun(a) ==
    /\ At(a, "failRun")
    /\ run = "RUNNING"
    /\ run' = "FAILED"
    /\ Goto(a, "return")
    /\ Emit(a, << <<"step.failed", sel[a]>>, <<"run.failed", sel[a]>> >>)
    /\ UNCHANGED <<step, agent, challenge, handoff, events, sel, out, ready, history>>

\* Provider or request cancellation: the step, then the run.
CancelStep(a) ==
    /\ At(a, "cancelStep")
    /\ step[sel[a]] = "RUNNING"
    /\ step' = [step EXCEPT ![sel[a]] = "CANCELLED"]
    /\ Goto(a, "cancelRun")
    /\ UNCHANGED <<run, agent, challenge, handoff, events, sel, out, ready, emit, history>>

CancelRun(a) ==
    /\ At(a, "cancelRun")
    /\ run = "RUNNING"
    /\ run' = "CANCELLED"
    /\ Return(a)
    /\ UNCHANGED <<step, agent, challenge, handoff, events, history>>

\* transition_step RUNNING -> COMPLETED: the UPDATE, then the reads that
\* unlock dependents, in a transaction not yet committed.  Other open
\* completions are invisible to those reads.
CompleteStep(a) ==
    /\ At(a, "finish")
    /\ step[sel[a]] = "RUNNING"
    /\ ready' = [ready EXCEPT ![a] = Unlockable(sel[a])]
    /\ Goto(a, "commit")
    /\ UNCHANGED <<rows, sel, out, emit, history>>

\* The commit publishes the completion, the unlocked dependents and the
\* handoff persist_next_handoff flushed in the same transaction.
CommitStep(a) ==
    /\ At(a, "commit")
    /\ step' = CompletedWith(sel[a], ready[a])
    /\ handoff' = handoff \cup HandoffOf(sel[a])
    /\ ready' = [ready EXCEPT ![a] = {}]
    /\ Goto(a, "count")
    /\ Emit(a, << <<"step.completed", sel[a]>> >>)
    /\ UNCHANGED <<run, agent, challenge, events, sel, out, history>>

\* count_step_states decides between STEP_COMPLETED and complete_run.
CountSteps(a) ==
    /\ At(a, "count")
    /\ IF Completed = Steps
       THEN Goto(a, "completeRun") /\ UNCHANGED <<sel, out, ready, emit>>
       ELSE Return(a)
    /\ UNCHANGED <<rows, history>>

CompleteRun(a) ==
    /\ At(a, "completeRun")
    /\ run = "RUNNING"
    /\ run' = "COMPLETED"
    /\ Goto(a, "return")
    /\ Emit(a, << <<"run.completed", sel[a]>> >>)
    /\ UNCHANGED <<step, agent, challenge, handoff, events, sel, out, ready, history>>

\* fail_run, complete_run or cancel_run finds another status: 409, and the
\* request ends without the events that follow.
RunConflict(a) ==
    /\ At(a, "failRun") \/ At(a, "completeRun") \/ At(a, "cancelRun")
    /\ run # "RUNNING"
    /\ Return(a)
    /\ UNCHANGED <<rows, history>>

-----------------------------------------------------------------------------
(* resolve: a human decides one pending challenge                          *)

Resolving(a) == pc[a] \in {"accept", "acceptCommit", "acceptLast", "failBoth", "reject"}

\* The resolution row is locked FOR UPDATE, and every check of resolve is
\* made on what the session reads now.
Resolve(a, s, decision) ==
    /\ At(a, "idle")
    /\ challenge[s].decision = "PENDING"
    /\ \A b \in Sessions : ~(Resolving(b) /\ sel[b] = s)
    /\ ~(challenge[s].level = "BLOCK_RECOMMENDED" /\ decision = "ACCEPT_RESULT")
    /\ run = "RUNNING"
    /\ agent[s] = "SUCCEEDED"
    /\ InStatus("RUNNING") = {s}
    /\ sel' = [sel EXCEPT ![a] = s]
    /\ Goto(a, IF decision = "REJECT_RESULT" THEN "reject"
               ELSE IF challenge[s].ok THEN "accept" ELSE "failBoth")
    /\ UNCHANGED <<rows, out, ready, emit, history>>

Decide(s, decision) == challenge' = [challenge EXCEPT ![s].decision = decision]

\* _transition_failed: both rows move in the transaction of the decision.
CommitFailed(a) ==
    LET s == sel[a] IN
    /\ At(a, "reject") \/ At(a, "failBoth")
    /\ step[s] = "RUNNING" /\ run = "RUNNING"
    /\ step' = [step EXCEPT ![s] = "FAILED"]
    /\ run' = "FAILED"
    /\ Decide(s, IF pc[a] = "reject" THEN "REJECT_RESULT" ELSE "ACCEPT_RESULT")
    /\ events' = events \cup {<<"challenge.resolved", s>>, <<"step.failed", s>>, <<"run.failed", s>>}
    /\ Return(a)
    /\ UNCHANGED <<agent, handoff, history>>

\* _transition_accepted: the UPDATE of the step, the unlocking reads and the
\* count, before the commit.
ApplyAccepted(a) ==
    LET s == sel[a] IN
    /\ At(a, "accept")
    /\ step[s] = "RUNNING"
    /\ ready' = [ready EXCEPT ![a] = Unlockable(s)]
    /\ Goto(a, IF Completed \cup {s} = Steps THEN "acceptLast" ELSE "acceptCommit")
    /\ UNCHANGED <<rows, sel, out, emit, history>>

\* With steps left, the run row is not part of the transaction.
CommitAccepted(a) ==
    LET s == sel[a] IN
    /\ At(a, "acceptCommit")
    /\ step' = CompletedWith(s, ready[a])
    /\ Decide(s, "ACCEPT_RESULT")
    /\ events' = events \cup {<<"challenge.resolved", s>>, <<"step.completed", s>>}
    /\ Return(a)
    /\ UNCHANGED <<run, agent, handoff, history>>

CommitAcceptedLast(a) ==
    LET s == sel[a] IN
    /\ At(a, "acceptLast")
    /\ run = "RUNNING"
    /\ run' = "COMPLETED"
    /\ step' = CompletedWith(s, ready[a])
    /\ Decide(s, "ACCEPT_RESULT")
    /\ events' = events \cup
          {<<"challenge.resolved", s>>, <<"step.completed", s>>, <<"run.completed", s>>}
    /\ Return(a)
    /\ UNCHANGED <<agent, handoff, history>>

\* "Workflow state changed during challenge resolution": everything is
\* rolled back, the challenge stays pending.
ResolveConflict(a) ==
    /\ At(a, "reject") \/ At(a, "failBoth") \/ At(a, "acceptLast")
    /\ run # "RUNNING"
    /\ Return(a)
    /\ UNCHANGED <<rows, history>>

-----------------------------------------------------------------------------
(* create_development_workflow commits the run before the request handoff  *)
(* of its first step, so the run can be advanced, or its creator die, in   *)
(* between.                                                                *)
CommitRequestHandoff ==
    \E s \in Steps :
        /\ Role[s] = "developer_manager"
        /\ s \notin handoff
        /\ handoff' = handoff \cup {s}
        /\ UNCHANGED <<run, step, agent, challenge, events, locals, history>>

Init ==
    /\ run = "CREATED"
    /\ step = [s \in Steps |-> IF DependsOn[s] = {} THEN "READY" ELSE "PENDING"]
    /\ agent = [s \in Steps |-> "NONE"]
    /\ challenge = [s \in Steps |-> NoChallenge]
    /\ handoff = {}
    /\ events = {}
    /\ pc = [a \in Sessions |-> "idle"]
    /\ sel = [a \in Sessions |-> NoStep]
    /\ out = [a \in Sessions |-> NoOutcome]
    /\ ready = [a \in Sessions |-> {}]
    /\ emit = [a \in Sessions |-> <<>>]
    /\ executed = [s \in Steps |-> 0]
    /\ crashes = 0

Advance(a) ==
    \/ FindAllCompleted(a) \/ FindNoneReady(a) \/ SelectReady(a)
    \/ StartRun(a) \/ StartConflict(a) \/ Park(a) \/ LeaveUnassigned(a)
    \/ Claim(a) \/ ClaimConflict(a) \/ DispatchRefused(a) \/ Execute(a)
    \/ LinkAgentRun(a) \/ Suspend(a) \/ RecordChallenge(a)
    \/ FailStep(a) \/ FailRun(a) \/ CancelStep(a) \/ CancelRun(a)
    \/ CompleteStep(a) \/ CommitStep(a) \/ CountSteps(a) \/ CompleteRun(a)
    \/ RunConflict(a)

Resolution(a) ==
    \/ CommitFailed(a) \/ ApplyAccepted(a) \/ CommitAccepted(a)
    \/ CommitAcceptedLast(a) \/ ResolveConflict(a)

Next ==
    \/ \E a \in Advancers : ReportTerminal(a) \/ ReadRun(a) \/ Advance(a)
    \/ \E a \in Humans :
          \/ \E s \in Steps, d \in {"ACCEPT_RESULT", "REJECT_RESULT"} : Resolve(a, s, d)
          \/ Resolution(a)
    \/ \E a \in Sessions : AppendEvent(a) \/ Crash(a)
    \/ CommitRequestHandoff

Spec == Init /\ [][Next]_vars

\* A handler that has started runs on (every provider call has a timeout),
\* the client keeps posting advance, the creator commits its handoff, and a
\* human keeps answering the challenges it is shown.
Fairness ==
    /\ \A a \in Advancers : WF_vars(ReadRun(a)) /\ WF_vars(Advance(a) \/ AppendEvent(a))
    /\ \A a \in Humans : WF_vars(Resolution(a))
    /\ \A s \in Steps : WF_vars(\E a \in Humans : Resolve(a, s, "REJECT_RESULT")
                                                  \/ Resolve(a, s, "ACCEPT_RESULT"))
    /\ WF_vars(CommitRequestHandoff)

FairSpec == Spec /\ Fairness

-----------------------------------------------------------------------------
(* Properties                                                              *)

Labels == {"idle", "select", "selectCreated", "start", "park", "leave", "claim", "execute",
           "link", "suspend", "challenge", "failStep", "failRun", "cancelStep",
           "cancelRun", "finish", "commit", "count", "completeRun", "return",
           "accept", "acceptCommit", "acceptLast", "failBoth", "reject"}

TypeOK ==
    /\ run \in RunStatus
    /\ step \in [Steps -> StepStatus]
    /\ agent \in [Steps -> {"NONE", "SUCCEEDED", "FAILED", "WAITING_FOR_APPROVAL"}]
    /\ challenge \in [Steps -> Challenge]
    /\ handoff \in SUBSET Steps
    /\ events \in SUBSET Event
    /\ pc \in [Sessions -> Labels]
    /\ sel \in [Sessions -> Steps \cup {NoStep}]
    /\ out \in [Sessions -> Outcome]
    /\ ready \in [Sessions -> SUBSET Steps]
    /\ emit \in [Sessions -> Seq(Event)]
    /\ executed \in [Steps -> Nat]
    /\ crashes \in Nat

\* An advance that has claimed its step and not yet settled it.
Working(a) == pc[a] \in {"execute", "link", "suspend", "challenge", "failStep",
                         "cancelStep", "finish", "commit"}

\* The abstract specification of the run and its steps.
Lifecycle == INSTANCE WorkflowLifecycle WITH run <- run, step <- step

\* advance and resolve, with any interleaving of their commits and any
\* request dying, only ever make the lifecycle's transitions: a completion
\* unlocks no step too early, a run ends only as its steps justify, and a
\* terminal status never changes.
ImplementsLifecycle == Lifecycle!Spec

\* A step is READY, claimed or settled only when all it depends on is
\* COMPLETED, whichever sessions complete its dependencies (transition_step).
DependencyOrder == Lifecycle!DependencyOrder

\* COMPLETED, FAILED or CANCELLED runs have the steps that justify it
\* (complete_run, fail_run, cancel_run against concurrent step commits).
OutcomeJustified == Lifecycle!OutcomeJustified

\* Concurrent advances, and an advance after a crash, never execute the
\* agent of one step twice (test_simultaneous_advance_cannot_duplicate_...).
ExecutedOnce == \A s \in Steps : executed[s] <= 1

\* A BLOCK_RECOMMENDED result never completes its step.
BlockNeverAccepted ==
    \A s \in Steps : challenge[s].level = "BLOCK_RECOMMENDED" => step[s] # "COMPLETED"

\* The decision, the step and, where it must end, the run move in one
\* transaction: no crash leaves a decision half applied.
ResolutionIsAtomic ==
    \A s \in Steps :
        LET c == challenge[s] IN
        /\ c.decision = "REJECT_RESULT" => step[s] = "FAILED" /\ run = "FAILED"
        /\ c.decision = "ACCEPT_RESULT" /\ ~c.ok => step[s] = "FAILED" /\ run = "FAILED"
        /\ c.decision = "ACCEPT_RESULT" /\ c.ok => step[s] = "COMPLETED"

\* In the fixed graph a step is not unlocked before the handoff it consumes
\* is committed (persist_next_handoff against the commit of transition_step).
HandoffBeforeUnlock ==
    \A s \in Steps : Role[s] \in {"developer_worker", "qa_worker"} =>
        step[s] = "PENDING" \/ s \in handoff

\* Events are appended after the transitions they report, in transactions of
\* their own: none is ever ahead of, or contradicted by, the rows.
EventsAreTrue ==
    \A e \in events :
        /\ e[1] = "run.completed" => run = "COMPLETED"
        /\ e[1] = "run.failed" => run = "FAILED"
        /\ e[1] = "step.completed" => step[e[2]] = "COMPLETED"
        /\ e[1] = "step.failed" => step[e[2]] = "FAILED"

\* Every dependency of a PENDING step COMPLETED and nobody working: the step
\* should have been unlocked (tests/test_workflows.py
\* test_run_readiness_and_all_dependency_unlock).
NoLostUnlock ==
    (\A a \in Sessions : pc[a] = "idle") =>
        \A s \in Steps : step[s] = "PENDING" => ~(DependsOn[s] \subseteq Completed)

\* An advanced run is eventually over, waiting for a tool approval, or
\* waiting at a step only a human can do: it never just stops.
Settled ==
    \/ run \in RunTerminal
    \/ InStatus("WAITING_FOR_APPROVAL") # {}
    \/ \E s \in InStatus("READY") : StepType[s] # "AGENT_TASK"

\* What a request that dies can leave behind: a step that is RUNNING for
\* nobody, or a step that ended its run and a run that does not know it.
Abandoned ==
    /\ crashes > 0
    /\ \E s \in Steps :
        /\ \A a \in Sessions : sel[a] # s
        /\ \/ step[s] = "RUNNING" /\ challenge[s].decision # "PENDING"
           \/ step[s] \in {"FAILED", "CANCELLED"} /\ run = "RUNNING"

\* Whatever the agents answer and wherever one request dies, an advanced run
\* settles, unless the dead request left its claimed step RUNNING or its
\* ended step unreported (advance commits each of its transitions by itself).
SettlesUnlessAbandoned == <>(Settled \/ Abandoned)

\* A pending challenge is eventually decided, or its run is over, as its
\* human keeps answering.
ChallengeIsDecided ==
    \A s \in Steps : challenge[s].decision = "PENDING"
                        ~> (challenge[s].decision # "PENDING" \/ run \in RunTerminal)
=============================================================================
