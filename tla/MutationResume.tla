---------------------------- MODULE MutationResume ----------------------------
(***************************************************************************)
(* One prepared workspace mutation of the fixed development workflow, from *)
(* the Developer's proposal to the end of its step: tools/service.py       *)
(* (execute_proposal, resume_prepared_mutation, reject_prepared_mutation), *)
(* approvals/service.py (_decide, is_approval_satisfied) and               *)
(* approvals/mutation_resume.py, with the file in the workspace, which no  *)
(* transaction covers.                                                     *)
(*                                                                         *)
(* The advance that executes the Developer (author) and the requests that  *)
(* approve or reject run concurrently.  An action is the code between two  *)
(* commits, or between two points where the file or the row can be changed *)
(* by somebody else.  policy_service.evaluate commits its audit record,    *)
(* and with it releases the locks its caller took.                         *)
(***************************************************************************)
EXTENDS Naturals, FiniteSets

CONSTANTS
    Approvers,      \* requests that serve POST .../approve
    Rejecters,      \* requests that serve POST .../reject
    EarlyDecisions, \* a human may decide while the advance is still running
    MaxCrashes,     \* bound on the requests that die
    MaxEdits,       \* bound on what others write to the file
    MaxRules        \* bound on the policy rules added meanwhile

Sessions == Approvers \cup Rejecters

ASSUME ResumeAssumption ==
    /\ Approvers \cap Rejecters = {}
    /\ EarlyDecisions \in BOOLEAN
    /\ {MaxCrashes, MaxEdits, MaxRules} \subseteq Nat

VARIABLES
    \* --- committed database rows
    approval,   \* ApprovalRequest.status, or "NONE"
    tool,       \* ToolCall.status, or "NONE"
    agent,      \* AgentRun.status of the Developer
    linked,     \* WorkflowStepRun.agent_run_id is set
    run,        \* WorkflowRun.status
    step,       \* WorkflowStepRun.status of the developer and the qa step
    handoff,    \* the WORKER_EVIDENCE handoff to the qa step
    rules,      \* effects of the policy rules that match the mutation
    \* --- outside the database
    file,       \* the file against the prepared mutation
    \* --- the requests
    author,     \* where the advance that executes the Developer is
    pc,         \* where each deciding request is
    seen,       \* the ToolCall status its session holds
    \* --- history
    result,     \* the continuation's result the step was completed with
    applied,    \* how often the mutation replaced the file
    continued,  \* how often the Developer was continued
    crashes, edits

rows == <<approval, tool, agent, linked, run, step, handoff, rules>>
history == <<result, applied, continued, crashes, edits>>
vars == <<approval, tool, agent, linked, run, step, handoff, rules, file,
          author, pc, seen, result, applied, continued, crashes, edits>>

-----------------------------------------------------------------------------
(* Vocabulary                                                              *)

Steps == {"developer", "qa"}
DependsOn == [s \in Steps |-> IF s = "qa" THEN {"developer"} ELSE {}]

Effects == {"ALLOW_WITH_LOG", "REQUIRE_CONFIRMATION", "BLOCK"}

\* evaluate_rules: no match asks for confirmation, else the most
\* restrictive effect wins (an ALLOW differs from ALLOW_WITH_LOG only in
\* that it is not audited).
Effect ==
    CASE "BLOCK" \in rules -> "BLOCK"
      [] "REQUIRE_CONFIRMATION" \in rules \/ rules = {} -> "REQUIRE_CONFIRMATION"
      [] OTHER -> "ALLOW_WITH_LOG"

Results == {"none", "sound", "partial", "challenged"}

Goto(a, label) == pc' = [pc EXCEPT ![a] = label]
Return(a) == Goto(a, "idle") /\ seen' = [seen EXCEPT ![a] = "NONE"]

\* The ToolCall row is locked by an UPDATE that is not committed yet.
Applying(a) == pc[a] \in {"check", "replace", "record"}
RowFree == \A a \in Sessions : ~Applying(a)

-----------------------------------------------------------------------------
(* Mutants: plausible bugs of the actions below.  No action uses them.     *)

\* A retry takes up a Developer it finds RUNNING.
RetryContinues(a) ==
    /\ pc[a] = "lock" /\ a \in Approvers /\ RowFree
    /\ seen[a] = "SUCCEEDED"
    /\ Goto(a, IF agent = "RUNNING" THEN "continue" ELSE "resume")
    /\ UNCHANGED <<rows, file, author, seen, history>>

\* A stale file is not noticed, and the mutation reported as applied.
AcceptStaleFile(a) ==
    /\ pc[a] = "check"
    /\ Goto(a, IF file = "preimage" THEN "replace" ELSE "record")
    /\ seen' = [seen EXCEPT ![a] = "SUCCEEDED"]
    /\ UNCHANGED <<rows, file, author, history>>

\* The failure of the AgentRun is not carried to the step.
FailAgentOnly(a) ==
    /\ pc[a] = "failAgent"
    /\ agent' = IF agent = "WAITING_FOR_APPROVAL" THEN "FAILED" ELSE agent
    /\ Return(a)
    /\ UNCHANGED <<approval, tool, linked, run, step, handoff, rules, file, author, history>>

-----------------------------------------------------------------------------
(* The advance: execute_proposal, then suspension in three commits         *)

Author(from, to) == author = from /\ author' = to

\* The row of the call, with the preimage, candidate and fingerprint
\* prepare computed; the file is still the preimage.
Propose ==
    /\ Author("propose", "evaluate")
    /\ tool' = "PROPOSED"
    /\ UNCHANGED <<approval, agent, linked, run, step, handoff, rules, file, pc, seen, history>>

Evaluate ==
    /\ Effect = "REQUIRE_CONFIRMATION"
    /\ Author("evaluate", "create")
    /\ UNCHANGED <<rows, file, pc, seen, history>>

\* _deny: a mutation is never executed without confirmation.
DenyProposal ==
    /\ Effect # "REQUIRE_CONFIRMATION"
    /\ Author("evaluate", "failed")
    /\ tool' = "BLOCKED"
    /\ UNCHANGED <<approval, agent, linked, run, step, handoff, rules, file, pc, seen, history>>

\* create_approval evaluates once more and commits the request.
CreateApproval ==
    /\ Effect = "REQUIRE_CONFIRMATION"
    /\ Author("create", "bind")
    /\ approval' = "PENDING"
    /\ UNCHANGED <<tool, agent, linked, run, step, handoff, rules, file, pc, seen, history>>

CreateRefused ==
    /\ Effect # "REQUIRE_CONFIRMATION"
    /\ Author("create", "failed")
    /\ UNCHANGED <<rows, file, pc, seen, history>>

Bind ==
    /\ Author("bind", "suspend")
    /\ tool' = "PENDING_APPROVAL"
    /\ UNCHANGED <<approval, agent, linked, run, step, handoff, rules, file, pc, seen, history>>

SuspendAgent ==
    /\ Author("suspend", "link")
    /\ agent' = "WAITING_FOR_APPROVAL"
    /\ UNCHANGED <<approval, tool, linked, run, step, handoff, rules, file, pc, seen, history>>

LinkAgentRun ==
    /\ Author("link", "wait")
    /\ linked' = TRUE
    /\ UNCHANGED <<approval, tool, agent, run, step, handoff, rules, file, pc, seen, history>>

SuspendStep ==
    /\ Author("wait", "done")
    /\ step' = [step EXCEPT !["developer"] = "WAITING_FOR_APPROVAL"]
    /\ UNCHANGED <<approval, tool, agent, linked, run, handoff, rules, file, pc, seen, history>>

AuthorStep ==
    \/ Propose \/ Evaluate \/ DenyProposal \/ CreateApproval \/ CreateRefused
    \/ Bind \/ SuspendAgent \/ LinkAgentRun \/ SuspendStep

-----------------------------------------------------------------------------
(* Both decisions: _decide, then _linked_state                             *)

Target(a) == IF a \in Approvers THEN "APPROVED" ELSE "REJECTED"

\* Idempotent for the same decision, a conflict for the other.
Decide(a, target) ==
    /\ pc[a] = "idle"
    /\ EarlyDecisions \/ author = "done"
    /\ approval \in {"PENDING", target}
    /\ approval' = target
    /\ Goto(a, "read")
    /\ UNCHANGED <<tool, agent, linked, run, step, handoff, rules, file, author, seen, history>>

\* The session keeps the ToolCall it reads here: the FOR UPDATE that follows
\* waits for the row but does not refresh the object.
HasApproval == tool \notin {"NONE", "PROPOSED"}
Nothing(a) == step["developer"] = IF a \in Approvers THEN "COMPLETED" ELSE "FAILED"

ReadLinked(a) ==
    /\ pc[a] = "read"
    /\ HasApproval /\ linked /\ ~Nothing(a)
    /\ Goto(a, "lock")
    /\ seen' = [seen EXCEPT ![a] = tool]
    /\ UNCHANGED <<rows, file, author, history>>

\* No linked call (404), no linked step (409), or nothing left to do.
NothingLinked(a) ==
    /\ pc[a] = "read"
    /\ ~(HasApproval /\ linked) \/ Nothing(a)
    /\ Return(a)
    /\ UNCHANGED <<rows, file, author, history>>

-----------------------------------------------------------------------------
(* resume_prepared_mutation                                                *)

\* The call succeeded in an earlier request: straight to resume_run, under
\* the locks.
ResumeSucceeded(a) ==
    /\ pc[a] = "lock" /\ a \in Approvers /\ RowFree
    /\ seen[a] = "SUCCEEDED"
    /\ IF agent = "WAITING_FOR_APPROVAL"
       THEN agent' = "RUNNING" /\ Goto(a, "startStep") /\ UNCHANGED seen
       ELSE Return(a) /\ UNCHANGED agent
    /\ UNCHANGED <<approval, tool, linked, run, step, handoff, rules, file, author, history>>

\* approval_resume_invalid_state; an AgentRun that still waits is failed
\* under the locks.
InvalidState(a) ==
    /\ pc[a] = "lock" /\ a \in Approvers /\ RowFree
    /\ seen[a] # "SUCCEEDED"
    /\ seen[a] # "PENDING_APPROVAL" \/ agent # "WAITING_FOR_APPROVAL"
    /\ IF agent = "WAITING_FOR_APPROVAL"
       THEN agent' = "FAILED" /\ Goto(a, "failStep") /\ UNCHANGED seen
       ELSE Return(a) /\ UNCHANGED agent
    /\ UNCHANGED <<approval, tool, linked, run, step, handoff, rules, file, author, history>>

\* The checks under the locks, up to the policy evaluation that releases
\* them.
CheckPending(a) ==
    /\ pc[a] = "lock" /\ a \in Approvers /\ RowFree
    /\ seen[a] = "PENDING_APPROVAL" /\ agent = "WAITING_FOR_APPROVAL"
    /\ Goto(a, IF Effect = "REQUIRE_CONFIRMATION" THEN "satisfied" ELSE "deny")
    /\ UNCHANGED <<rows, file, author, seen, history>>

\* is_approval_satisfied: exact scope, APPROVED, and no BLOCK since.
CheckSatisfied(a) ==
    /\ pc[a] = "satisfied"
    /\ Goto(a, IF approval = "APPROVED" /\ Effect # "BLOCK" THEN "begin" ELSE "deny")
    /\ UNCHANGED <<rows, file, author, seen, history>>

\* set_state BLOCKED, whatever the status is by now.
Deny(a) ==
    /\ pc[a] = "deny" /\ RowFree
    /\ tool' = "BLOCKED"
    /\ Goto(a, "failAgent")
    /\ UNCHANGED <<approval, agent, linked, run, step, handoff, rules, file, author, seen, history>>

\* set_state RUNNING is by id only too, but a row with completed_at cannot
\* become RUNNING (ck_tool_calls_lifecycle_shape): the UPDATE then raises.
\* Its commit is the one of Record.
BeginApply(a) ==
    /\ pc[a] = "begin" /\ RowFree
    /\ IF tool = "PENDING_APPROVAL" THEN Goto(a, "check") /\ UNCHANGED seen ELSE Return(a)
    /\ UNCHANGED <<rows, file, author, history>>

\* ReplaceTextExecutor.apply hashes the file ...
CheckFile(a) ==
    /\ pc[a] = "check"
    /\ Goto(a, IF file = "preimage" THEN "replace" ELSE "record")
    /\ seen' = [seen EXCEPT ![a] = IF file = "other" THEN "FAILED" ELSE "SUCCEEDED"]
    /\ UNCHANGED <<rows, file, author, history>>

\* ... and replaces it with the candidate.
ReplaceFile(a) ==
    /\ pc[a] = "replace"
    /\ file' = "candidate"
    /\ applied' = applied + 1
    /\ Goto(a, "record")
    /\ UNCHANGED <<rows, author, seen, result, continued, crashes, edits>>

Record(a) ==
    /\ pc[a] = "record"
    /\ tool' = seen[a]
    /\ Goto(a, IF seen[a] = "SUCCEEDED" THEN "resume" ELSE "failAgent")
    /\ UNCHANGED <<approval, agent, linked, run, step, handoff, rules, file, author, seen, history>>

-----------------------------------------------------------------------------
(* approve_and_resume: continue the Developer                              *)

\* resume_run; the loser of two identical approvals returns.
ResumeAgent(a) ==
    /\ pc[a] = "resume"
    /\ IF agent = "WAITING_FOR_APPROVAL"
       THEN agent' = "RUNNING" /\ Goto(a, "startStep") /\ UNCHANGED seen
       ELSE Return(a) /\ UNCHANGED agent
    /\ UNCHANGED <<approval, tool, linked, run, step, handoff, rules, file, author, history>>

StartStep(a) ==
    /\ pc[a] = "startStep"
    /\ IF step["developer"] = "WAITING_FOR_APPROVAL"
       THEN /\ step' = [step EXCEPT !["developer"] = "RUNNING"]
            /\ Goto(a, "continue") /\ UNCHANGED seen
       ELSE Return(a) /\ UNCHANGED step
    /\ UNCHANGED <<approval, tool, agent, linked, run, handoff, rules, file, author, history>>

\* continue_with_tool_evidence.  COMPLETED and PARTIAL succeed; the level of
\* the challenge and the status of the result are not looked at here.
Continue(a) ==
    /\ pc[a] = "continue"
    /\ continued' = continued + 1
    /\ \/ agent' = "SUCCEEDED" /\ result' \in Results \ {"none"} /\ Goto(a, "finish")
       \/ agent' = "FAILED" /\ Goto(a, "failRunning") /\ UNCHANGED result
    /\ UNCHANGED <<approval, tool, linked, run, step, handoff, rules, file, author, seen,
                   applied, crashes, edits>>

\* persist_next_handoff and the completion, in one transaction.
FinishStep(a) ==
    /\ pc[a] = "finish"
    /\ step["developer"] = "RUNNING"
    /\ step' = [step EXCEPT !["developer"] = "COMPLETED", !["qa"] = "READY"]
    /\ handoff' = TRUE
    /\ Return(a)
    /\ UNCHANGED <<approval, tool, agent, linked, run, rules, file, author, history>>

FailRunningStep(a) ==
    /\ pc[a] = "failRunning"
    /\ step["developer"] = "RUNNING"
    /\ step' = [step EXCEPT !["developer"] = "FAILED"]
    /\ Goto(a, "failRun")
    /\ UNCHANGED <<approval, tool, agent, linked, run, handoff, rules, file, author, seen, history>>

-----------------------------------------------------------------------------
(* reject_prepared_mutation and _fail_waiting                              *)

\* The denial commits under the lock; then the AgentRun, if it waited.
RejectPending(a) ==
    /\ pc[a] = "lock" /\ a \in Rejecters /\ RowFree
    /\ seen[a] = "PENDING_APPROVAL"
    /\ tool' = "BLOCKED"
    /\ IF agent = "WAITING_FOR_APPROVAL" THEN Goto(a, "failAgent") /\ UNCHANGED seen
                                         ELSE Return(a)
    /\ UNCHANGED <<approval, agent, linked, run, step, handoff, rules, file, author, history>>

\* An earlier request has denied the call.
RejectBlocked(a) ==
    /\ pc[a] = "lock" /\ a \in Rejecters /\ RowFree
    /\ seen[a] = "BLOCKED"
    /\ IF agent = "WAITING_FOR_APPROVAL"
       THEN agent' = "FAILED" /\ Goto(a, "failStep") /\ UNCHANGED seen
       ELSE Return(a) /\ UNCHANGED agent
    /\ UNCHANGED <<approval, tool, linked, run, step, handoff, rules, file, author, history>>

FailAgent(a) ==
    /\ pc[a] = "failAgent"
    /\ IF agent = "WAITING_FOR_APPROVAL"
       THEN agent' = "FAILED" /\ Goto(a, "failStep") /\ UNCHANGED seen
       ELSE Return(a) /\ UNCHANGED agent
    /\ UNCHANGED <<approval, tool, linked, run, step, handoff, rules, file, author, history>>

FailStep(a) ==
    /\ pc[a] = "failStep"
    /\ IF step["developer"] = "WAITING_FOR_APPROVAL"
       THEN /\ step' = [step EXCEPT !["developer"] = "FAILED"]
            /\ Goto(a, "failRun") /\ UNCHANGED seen
       ELSE Return(a) /\ UNCHANGED step
    /\ UNCHANGED <<approval, tool, agent, linked, run, handoff, rules, file, author, history>>

FailRun(a) ==
    /\ pc[a] = "failRun"
    /\ run = "RUNNING"
    /\ run' = "FAILED"
    /\ Return(a)
    /\ UNCHANGED <<approval, tool, agent, linked, step, handoff, rules, file, author, history>>

-----------------------------------------------------------------------------
(* The environment                                                         *)

Crash(a) ==
    /\ pc[a] # "idle"
    /\ crashes < MaxCrashes
    /\ crashes' = crashes + 1
    /\ Return(a)
    /\ UNCHANGED <<rows, file, author, result, applied, continued, edits>>

AuthorCrash ==
    /\ author \notin {"done", "failed"}
    /\ crashes < MaxCrashes
    /\ crashes' = crashes + 1
    /\ author' = "failed"
    /\ UNCHANGED <<rows, file, pc, seen, result, applied, continued, edits>>

\* People and other tools write to the workspace.
EditFile ==
    /\ edits < MaxEdits
    /\ edits' = edits + 1
    /\ file' \in {"preimage", "other"} \ {file}
    /\ UNCHANGED <<rows, author, pc, seen, result, applied, continued, crashes>>

\* create_rule: rules are added, never changed or removed.
AddRule(effect) ==
    /\ effect \notin rules
    /\ Cardinality(rules) < MaxRules
    /\ rules' = rules \cup {effect}
    /\ UNCHANGED <<approval, tool, agent, linked, run, step, handoff, file, author, pc, seen, history>>

Init ==
    /\ approval = "NONE" /\ tool = "NONE"
    /\ agent = "RUNNING" /\ linked = FALSE
    /\ run = "RUNNING"
    /\ step = [s \in Steps |-> IF s = "developer" THEN "RUNNING" ELSE "PENDING"]
    /\ handoff = FALSE
    /\ rules = {}
    /\ file = "preimage"
    /\ author = "propose"
    /\ pc = [a \in Sessions |-> "idle"]
    /\ seen = [a \in Sessions |-> "NONE"]
    /\ result = "none" /\ applied = 0 /\ continued = 0
    /\ crashes = 0 /\ edits = 0

Handle(a) ==
    \/ ReadLinked(a) \/ NothingLinked(a)
    \/ ResumeSucceeded(a) \/ InvalidState(a) \/ CheckPending(a) \/ CheckSatisfied(a)
    \/ Deny(a) \/ BeginApply(a) \/ CheckFile(a) \/ ReplaceFile(a) \/ Record(a)
    \/ ResumeAgent(a) \/ StartStep(a) \/ Continue(a) \/ FinishStep(a) \/ FailRunningStep(a)
    \/ RejectPending(a) \/ RejectBlocked(a)
    \/ FailAgent(a) \/ FailStep(a) \/ FailRun(a)

Next ==
    \/ AuthorStep \/ AuthorCrash \/ EditFile
    \/ \E effect \in Effects : AddRule(effect)
    \/ \E a \in Sessions : Decide(a, Target(a)) \/ Handle(a) \/ Crash(a)

Spec == Init /\ [][Next]_vars

\* Handlers run on, and a client repeats a decision its human has made.
Fairness ==
    /\ WF_vars(AuthorStep)
    /\ \A a \in Sessions : WF_vars(Decide(a, Target(a))) /\ WF_vars(Handle(a))

FairSpec == Spec /\ Fairness

-----------------------------------------------------------------------------
(* Properties                                                              *)

ToolStatus == {"NONE", "PROPOSED", "PENDING_APPROVAL", "SUCCEEDED", "FAILED", "BLOCKED"}

TypeOK ==
    /\ approval \in {"NONE", "PENDING", "APPROVED", "REJECTED"}
    /\ tool \in ToolStatus
    /\ agent \in {"RUNNING", "WAITING_FOR_APPROVAL", "SUCCEEDED", "FAILED"}
    /\ linked \in BOOLEAN /\ handoff \in BOOLEAN
    /\ run \in {"RUNNING", "FAILED"}
    /\ step \in [Steps -> {"PENDING", "READY", "RUNNING", "WAITING_FOR_APPROVAL",
                           "COMPLETED", "FAILED"}]
    /\ rules \in SUBSET Effects
    /\ file \in {"preimage", "candidate", "other"}
    /\ author \in {"propose", "evaluate", "create", "bind", "suspend", "link", "wait",
                   "done", "failed"}
    /\ pc \in [Sessions -> {"idle", "read", "lock", "satisfied", "deny", "begin", "check",
                            "replace", "record", "resume", "startStep", "continue", "finish",
                            "failRunning", "failAgent", "failStep", "failRun"}]
    /\ seen \in [Sessions -> ToolStatus]
    /\ result \in Results
    /\ {applied, continued, crashes, edits} \subseteq Nat

Lifecycle == INSTANCE WorkflowLifecycle WITH run <- run, step <- step

\* Every commit on the run or its steps, by whichever of the concurrent
\* decisions, is a transition workflows/service.py allows.
FollowsLifecycle == [][Lifecycle!Next]_<<run, step>>

\* However often and concurrently the same approval is posted, with crashes
\* in between, the Developer is continued once (resume_run).
ContinuedOnce == continued <= 1

\* A step completed by a resumption had its mutation really applied and its
\* Developer succeed, although the file, the tool row and the agent row are
\* written in different transactions or in none; and nothing is applied
\* against a concurrent rejection (resume, _decide).
CompletedIsApplied ==
    /\ step["developer"] = "COMPLETED" => applied > 0 /\ agent = "SUCCEEDED" /\ handoff
    /\ applied > 0 \/ tool = "SUCCEEDED" => approval = "APPROVED"

\* A decided mutation whose step and AgentRun both wait ends its step, one
\* way or the other, under concurrent equal and opposite decisions, edits of
\* the file and new rules, unless a request died and the AgentRun has moved
\* on without its step (resume_run and the step have commits of their own).
Decided == approval \in {"APPROVED", "REJECTED"}
Waiting == step["developer"] = "WAITING_FOR_APPROVAL" /\ agent = "WAITING_FOR_APPROVAL"
Settled == step["developer"] = "COMPLETED" \/ (step["developer"] = "FAILED" /\ run = "FAILED")
DecisionSettles ==
    Decided /\ Waiting ~> Settled \/ (crashes > 0 /\ agent # "WAITING_FOR_APPROVAL")

\* A decided mutation ends its step (docs: a decision resumes or terminates
\* the waiting workflow).
DecisionAlwaysSettles == Decided ~> Settled

=============================================================================
