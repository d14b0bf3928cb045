--------------------------- MODULE AgentExecution ---------------------------
(***************************************************************************)
(* One request to agents/execution.py: execute, with the single tool round *)
(* of continue_with_tool_evidence.  The handler is one coroutine, but each *)
(* status it writes is a commit of its own (agents/service.py for the      *)
(* AgentRun, model_usage/service.py for the ModelRuns, tools/service.py    *)
(* for the ToolCall), so what a reader of the database sees is every state *)
(* below, and whatever interrupts the request leaves the last of them      *)
(* behind: nothing reconciles an AgentRun or a ModelRun later.             *)
(*                                                                         *)
(* An answer of the provider is abstracted to what the handler tells apart.*)
(* The concurrency of approvals with a WAITING_FOR_APPROVAL run is in      *)
(* MutationResume.tla, which starts where this handler suspends the run.   *)
(***************************************************************************)
EXTENDS Naturals, FiniteSets

VARIABLES
    request,    \* what the caller asked for (constant through the request)
    pc,         \* the point of execute the coroutine has reached
    run,        \* AgentRun.status, "NONE" before the row exists
    linked,     \* AgentRun.model_run_id is set
    model,      \* ModelRun.status of each attempt, "NONE" without a row
    tool,       \* ToolCall.status of the proposal, "NONE" without a row
    generation, \* the local variable generation: an accounted answer
    extra,      \* the local variable extra_attempt_used
    verdict,    \* the status about to be written to the AgentRun, and its code
    cancelled,  \* an attempt whose provider call was cancelled, or "none"
    lost        \* why the coroutine will never write again, or "no"

vars == <<request, pc, run, linked, model, tool, generation, extra, verdict,
          cancelled, lost>>

rows == <<run, linked, model, tool>>

Attempt == {"INITIAL", "TRUNCATION", "CONTRACT_REPAIR", "TOOL_CONTINUATION"}

RunStatus   == {"NONE", "CREATED", "RUNNING", "WAITING_FOR_APPROVAL",
                "SUCCEEDED", "FAILED", "CANCELLED"}
ModelStatus == {"NONE", "RUNNING", "SUCCEEDED", "FAILED", "CANCELLED"}
ToolStatus  == {"NONE", "PROPOSED", "PENDING_APPROVAL", "RUNNING", "BLOCKED",
                "FAILED", "SUCCEEDED"}

\* permitted_tools is empty, is granted and rooted in a workspace, or is refused.
Request == [tools : {"none", "granted", "refused"}, memory : BOOLEAN]

\* AgentResultStatus, grouped by the run status map_result_status gives it.
ResultStatus == {"COMPLETED", "BLOCKED", "CANCELLED"}

\* What json.loads, the strict contract, the shape constraints and
\* tool_proposals distinguish in the text of an answer.
Content == {"NOT_JSON", "INVALID", "ONE_PROPOSAL", "MANY_PROPOSALS"} \union ResultStatus

\* classify_truncation: only an explicit token-limit finish_reason truncates.
Answer == [by : Attempt, truncated : BOOLEAN, content : Content]

NoAnswer == [by |-> "none", truncated |-> FALSE, content |-> "NOT_JSON"]

\* _RESULT_TO_RUN: COMPLETED and PARTIAL succeed, CANCELLED cancels, BLOCKED,
\* NEEDS_INPUT and FAILED fail.
map_result_status(status) ==
    CASE status = "COMPLETED" -> "SUCCEEDED"
      [] status = "CANCELLED" -> "CANCELLED"
      [] OTHER                -> "FAILED"

Verdict(status, code) == [status |-> status, code |-> code]
NoVerdict == Verdict("NONE", "none")

-----------------------------------------------------------------------------
(* The rows.  usage_service refuses to move a ModelRun that is not RUNNING, *)
(* agents/service._transition an AgentRun that has not the expected status. *)

start_model_run(a) == model' = [model EXCEPT ![a] = "RUNNING"]

transition_running(a, status) ==
    /\ model[a] = "RUNNING"
    /\ model' = [model EXCEPT ![a] = status]

transition_run(expected, target) ==
    /\ run = expected
    /\ run' = target

\* The AgentRun is about to be settled with this status and code.
Decide(status, code) ==
    /\ verdict' = Verdict(status, code)
    /\ pc' = "settle"

Init ==
    /\ request \in Request
    /\ pc = "start"
    /\ run = "NONE"
    /\ linked = FALSE
    /\ model = [a \in Attempt |-> "NONE"]
    /\ tool = "NONE"
    /\ generation = NoAnswer
    /\ extra = FALSE
    /\ verdict = NoVerdict
    /\ cancelled = "none"
    /\ lost = "no"

-----------------------------------------------------------------------------
(* Before the provider: the AgentRun, the checks, the first ModelRun.       *)

CreateRun ==
    /\ pc = "start"
    /\ run' = "CREATED"
    /\ pc' = "created"
    /\ UNCHANGED <<request, linked, model, tool, generation, extra, verdict, cancelled, lost>>

StartRun ==
    /\ pc = "created"
    /\ transition_run("CREATED", "RUNNING")
    /\ pc' = "prepare"
    /\ UNCHANGED <<request, linked, model, tool, generation, extra, verdict, cancelled, lost>>

\* The refusals that end the request before any call to the provider.
PreparationFailures ==
    IF request.tools = "refused"
    THEN {"tool_permission_denied", "unknown_tool_denied", "workspace_root_unavailable"}
    ELSE {"no_suitable_model", "contract_enforcement_unsatisfied"}
         \union (IF request.memory THEN {"memory_context_unavailable"} ELSE {})

Refuse ==
    /\ pc = "prepare"
    /\ \E code \in PreparationFailures : Decide("FAILED", code)
    /\ UNCHANGED <<request, rows, generation, extra, cancelled, lost>>

\* A model is routed and its ModelRun committed.
OpenInitial ==
    /\ pc = "prepare"
    /\ request.tools # "refused"
    /\ start_model_run("INITIAL")
    /\ pc' = "link"
    /\ UNCHANGED <<request, run, linked, tool, generation, extra, verdict, cancelled, lost>>

\* link_model_run: only this request writes the row, so the refusal of a run
\* that is not RUNNING or is linked already (lines 961-982) cannot happen here.
LinkModelRun ==
    /\ pc = "link"
    /\ run = "RUNNING" /\ ~linked
    /\ linked' = TRUE
    /\ pc' = "call"
    /\ UNCHANGED <<request, run, model, tool, generation, extra, verdict, cancelled, lost>>

-----------------------------------------------------------------------------
(* The provider calls.                                                     *)

\* The attempt whose call is under way at each point.
Calling == [call |-> "INITIAL", recover |-> "TRUNCATION", repair |-> "CONTRACT_REPAIR",
            continuing |-> "TOOL_CONTINUATION"]

\* ProviderCancellationError (the adapter turns every CancelledError of the
\* call into one): the ModelRun is cancelled, then the AgentRun, then the
\* exception goes on.  The same in the four places.
CallIsCancelled ==
    /\ pc \in DOMAIN Calling
    /\ transition_running(Calling[pc], "CANCELLED")
    /\ cancelled' = Calling[pc]
    /\ Decide("CANCELLED", "none")
    /\ UNCHANGED <<request, run, linked, tool, generation, extra, lost>>

\* An answer of another model or upstream, a provider error, an answer whose
\* usage mark_succeeded refuses, or no strategy that satisfies the request.
InitialFailures == {"provider_error", "provider_identity_mismatch",
                    "provider_upstream_identity_mismatch", "invalid_provider_usage",
                    "native_structured_output_required"}

InitialFails ==
    /\ pc = "call"
    /\ transition_running("INITIAL", "FAILED")
    /\ \E code \in InitialFailures : Decide("FAILED", code)
    /\ UNCHANGED <<request, run, linked, tool, generation, extra, cancelled, lost>>

\* mark_succeeded: the answer is accounted for and becomes the generation.
Answered(a, next) ==
    /\ transition_running(a, "SUCCEEDED")
    /\ \E answer \in Answer : answer.by = a /\ generation' = answer
    /\ pc' = next

InitialAnswers ==
    /\ pc = "call"
    /\ Answered("INITIAL", "judge")
    /\ UNCHANGED <<request, run, linked, tool, extra, verdict, cancelled, lost>>

-----------------------------------------------------------------------------
(* The first answer is judged: truncated, not JSON, invalid or accepted.    *)

Truncated == generation.truncated
Valid     == generation.content \notin {"NOT_JSON", "INVALID"}

\* Mutant: a second extra attempt recovers what the first one returned.
TruncationIsRecoverableAgain == Truncated

TruncationIsRecoverable == Truncated /\ ~extra

OpenRecovery ==
    /\ pc = "judge"
    /\ TruncationIsRecoverable
    /\ extra' = TRUE
    /\ start_model_run("TRUNCATION")
    /\ pc' = "recover"
    /\ UNCHANGED <<request, run, linked, tool, generation, verdict, cancelled, lost>>

\* A provider error, an answer of another model, a refused usage: the attempt
\* is closed (CANCELLED when the error is a cancellation) and the truncated
\* answer stands.
RecoveryFails ==
    /\ pc = "recover"
    /\ \E status \in {"FAILED", "CANCELLED"} : transition_running("TRUNCATION", status)
    /\ pc' = "judge"
    /\ UNCHANGED <<request, run, linked, tool, generation, extra, verdict, cancelled, lost>>

RecoveryAnswers ==
    /\ pc = "recover"
    /\ Answered("TRUNCATION", "judge")
    /\ UNCHANGED <<request, run, linked, tool, extra, verdict, cancelled, lost>>

\* What refuses the answer once no recovery is possible.
Rejected ==
    /\ ~TruncationIsRecoverable
    /\ Truncated \/ ~Valid

RepairIsAllowed == request.tools = "none" /\ ~extra

RejectionCode ==
    CASE Truncated -> "provider_output_truncated"
      [] ~Truncated /\ generation.content = "NOT_JSON" -> "invalid_provider_json"
      [] OTHER -> "invalid_agent_result"

RejectAnswer ==
    /\ pc = "judge"
    /\ Rejected
    /\ ~(RejectionCode = "invalid_agent_result" /\ RepairIsAllowed)
    /\ Decide("FAILED", RejectionCode)
    /\ UNCHANGED <<request, rows, generation, extra, cancelled, lost>>

OpenRepair ==
    /\ pc = "judge"
    /\ Rejected
    /\ RejectionCode = "invalid_agent_result"
    /\ RepairIsAllowed
    /\ extra' = TRUE
    /\ start_model_run("CONTRACT_REPAIR")
    /\ pc' = "repair"
    /\ UNCHANGED <<request, run, linked, tool, generation, verdict, cancelled, lost>>

\* Every failure of the repair (its usage refused included) is the end.
RepairFails ==
    /\ pc = "repair"
    /\ \E status \in {"FAILED", "CANCELLED"} : transition_running("CONTRACT_REPAIR", status)
    /\ Decide("FAILED", "invalid_agent_result")
    /\ UNCHANGED <<request, run, linked, tool, generation, extra, cancelled, lost>>

\* The repaired answer is validated, but its finish_reason is not looked at.
RepairAnswers ==
    /\ pc = "repair"
    /\ Answered("CONTRACT_REPAIR", "repaired")
    /\ UNCHANGED <<request, run, linked, tool, extra, verdict, cancelled, lost>>

RejectRepair ==
    /\ pc = "repaired"
    /\ ~Valid
    /\ Decide("FAILED", "invalid_agent_result")
    /\ UNCHANGED <<request, rows, generation, extra, cancelled, lost>>

\* The points at which a validated result is acted upon.
Accepted == \/ pc = "judge" /\ ~Truncated /\ Valid
            \/ pc = "repaired" /\ Valid

\* map_result_status of a result without proposals.
AcceptResult ==
    /\ Accepted
    /\ generation.content \in ResultStatus
    /\ Decide(map_result_status(generation.content), "none")
    /\ UNCHANGED <<request, rows, generation, extra, cancelled, lost>>

-----------------------------------------------------------------------------
(* The tool round: tools/service.execute_proposal.                          *)

\* Mutant: the handler trusts any single proposal.
ProposalIsAcceptableUnpermitted == generation.content = "ONE_PROPOSAL"

ProposalIsAcceptable == generation.content = "ONE_PROPOSAL" /\ request.tools = "granted"

RejectProposal ==
    /\ Accepted
    /\ generation.content \in {"ONE_PROPOSAL", "MANY_PROPOSALS"}
    /\ ~ProposalIsAcceptable
    /\ Decide("FAILED", "invalid_tool_proposal")
    /\ UNCHANGED <<request, rows, generation, extra, cancelled, lost>>

ProposeTool ==
    /\ Accepted
    /\ ProposalIsAcceptable
    /\ tool' = "PROPOSED"
    /\ pc' = "gateway"
    /\ UNCHANGED <<request, run, linked, model, generation, extra, verdict, cancelled, lost>>

\* _deny: unknown tool, invalid input, a permission the definition lacks, or
\* the Policy.
DenyTool ==
    /\ pc = "gateway"
    /\ tool' = "BLOCKED"
    /\ Decide("FAILED", "tool_denied")
    /\ UNCHANGED <<request, run, linked, model, generation, extra, cancelled, lost>>

\* REQUIRE_CONFIRMATION: the approval is created and the call held.
HoldTool ==
    /\ pc = "gateway"
    /\ tool' = "PENDING_APPROVAL"
    /\ Decide("WAITING_FOR_APPROVAL", "tool_approval_required")
    /\ UNCHANGED <<request, run, linked, model, generation, extra, cancelled, lost>>

StartTool ==
    /\ pc = "gateway"
    /\ tool' = "RUNNING"
    /\ pc' = "tool"
    /\ UNCHANGED <<request, run, linked, model, generation, extra, verdict, cancelled, lost>>

ToolFails ==
    /\ pc = "tool"
    /\ tool' = "FAILED"
    /\ Decide("FAILED", "tool_execution_failed")
    /\ UNCHANGED <<request, run, linked, model, generation, extra, cancelled, lost>>

ToolSucceeds ==
    /\ pc = "tool"
    /\ tool' = "SUCCEEDED"
    /\ pc' = "evidence"
    /\ UNCHANGED <<request, run, linked, model, generation, extra, verdict, cancelled, lost>>

-----------------------------------------------------------------------------
(* The continuation: continue_with_tool_evidence.                           *)

\* The provider left the registry since the first call, or the contract of the
\* first call cannot be compiled to the same fingerprint again.
ContinuationUnavailable ==
    /\ pc = "evidence"
    /\ \E code \in {"tool_continuation_provider_unavailable",
                   "tool_continuation_contract_mismatch"} : Decide("FAILED", code)
    /\ UNCHANGED <<request, rows, generation, extra, cancelled, lost>>

OpenContinuation ==
    /\ pc = "evidence"
    /\ start_model_run("TOOL_CONTINUATION")
    /\ pc' = "continuing"
    /\ UNCHANGED <<request, run, linked, tool, generation, extra, verdict, cancelled, lost>>

\* A provider error, an answer of another model, or a truncated answer.
ContinuationFails ==
    /\ pc = "continuing"
    /\ \E status \in {"FAILED", "CANCELLED"} : transition_running("TOOL_CONTINUATION", status)
    /\ Decide("FAILED", "tool_continuation_failed")
    /\ UNCHANGED <<request, run, linked, tool, generation, extra, cancelled, lost>>

ContinuationAnswers ==
    /\ pc = "continuing"
    /\ Answered("TOOL_CONTINUATION", "continued")
    /\ ~generation'.truncated
    /\ UNCHANGED <<request, run, linked, tool, extra, verdict, cancelled, lost>>

\* Mutant: whatever comes after the tool round is the final result.
ContinuationVerdictLenient ==
    Verdict(IF generation.content = "INVALID" THEN "SUCCEEDED"
            ELSE map_result_status(generation.content), "none")

\* Another proposal is classified before the contract is checked.
ContinuationVerdict ==
    CASE generation.content \in {"ONE_PROPOSAL", "MANY_PROPOSALS"} ->
            Verdict("FAILED", "tool_round_limit_exceeded")
      [] ~Valid -> Verdict("FAILED", "invalid_agent_result")
      [] OTHER  -> Verdict(map_result_status(generation.content), "none")

ConcludeContinuation ==
    /\ pc = "continued"
    /\ Decide(ContinuationVerdict.status, ContinuationVerdict.code)
    /\ UNCHANGED <<request, rows, generation, extra, cancelled, lost>>

\* mark_succeeded refuses the usage: the handlers of the continuation do not
\* catch its ApplicationError, which ends the request with both rows RUNNING.
ContinuationUsageRefused ==
    /\ pc = "continuing"
    /\ lost' = "unhandled"
    /\ pc' = "done"
    /\ UNCHANGED <<request, rows, generation, extra, verdict, cancelled>>

-----------------------------------------------------------------------------
\* Mutant: the transition of the resumption (fail_waiting_run) is used here.
SettleWaiting(status) == transition_run("WAITING_FOR_APPROVAL", status)

\* succeed_run, fail_run, cancel_run and suspend_run all expect RUNNING.
settle_run(status) == transition_run("RUNNING", status)

Settle ==
    /\ pc = "settle"
    /\ settle_run(verdict.status)
    /\ pc' = "done"
    /\ UNCHANGED <<request, linked, model, tool, generation, extra, verdict, cancelled, lost>>

\* The process dies, the task is cancelled while it waits for the database, or
\* a commit fails: no handler covers these awaits.
Interrupt ==
    /\ pc \notin {"start", "done"}
    /\ lost' = "interrupted"
    /\ pc' = "done"
    /\ UNCHANGED <<request, rows, generation, extra, verdict, cancelled>>

Step ==
    \/ CreateRun \/ StartRun \/ Refuse \/ OpenInitial \/ LinkModelRun
    \/ CallIsCancelled \/ InitialFails \/ InitialAnswers
    \/ OpenRecovery \/ RecoveryFails \/ RecoveryAnswers
    \/ RejectAnswer \/ OpenRepair \/ RepairFails \/ RepairAnswers \/ RejectRepair
    \/ AcceptResult
    \/ RejectProposal \/ ProposeTool \/ DenyTool \/ HoldTool \/ StartTool
    \/ ToolFails \/ ToolSucceeds
    \/ ContinuationUnavailable \/ OpenContinuation \/ ContinuationFails
    \/ ContinuationAnswers \/ ConcludeContinuation \/ ContinuationUsageRefused
    \/ Settle

Finished == pc = "done" /\ UNCHANGED vars

Next == Step \/ Interrupt \/ Finished

\* The coroutine goes on while it is not interrupted: the provider call and
\* the tool have timeouts of their own, so each await ends.
Spec == Init /\ [][Next]_vars /\ WF_vars(Step)
-----------------------------------------------------------------------------
(* Properties.                                                              *)

\* Every variable stays in its range (the columns of agents/models.py,
\* model_usage/models.py and tools/models.py, and the locals of execute).
TypeOK ==
    /\ request \in Request
    /\ pc \in {"start", "created", "prepare", "link", "call", "judge", "recover", "repair",
               "repaired", "gateway", "tool", "evidence", "continuing", "continued",
               "settle", "done"}
    /\ run \in RunStatus
    /\ linked \in BOOLEAN
    /\ model \in [Attempt -> ModelStatus]
    /\ tool \in ToolStatus
    /\ generation \in Answer \union {NoAnswer}
    /\ extra \in BOOLEAN
    /\ verdict.status \in RunStatus
    /\ cancelled \in Attempt \union {"none"}
    /\ lost \in {"no", "interrupted", "unhandled"}

Made(a) == model[a] # "NONE"

\* The answer the handler goes by is the one of the last attempt it made.
GenerationIsLast ==
    /\ generation.by # "none"
    /\ model[generation.by] = "SUCCEEDED"
    /\ Made("TOOL_CONTINUATION") => generation.by = "TOOL_CONTINUATION"
    /\ ~Made("TOOL_CONTINUATION") =>
          \A a \in {"TRUNCATION", "CONTRACT_REPAIR"} : Made(a) => generation.by = a

\* The status an execution leaves on its AgentRun is the one its last accounted
\* answer justifies: success only for a complete answer that satisfies the
\* contract and proposes nothing more, suspension only for a proposal the
\* gateway holds, cancellation only when a call was cancelled or the agent said
\* so, and a cancelled call is never turned into another outcome.
OutcomeIsTrue ==
    /\ run = "SUCCEEDED" =>
          /\ GenerationIsLast
          /\ generation.content = "COMPLETED"
          /\ generation.truncated => generation.by = "CONTRACT_REPAIR"
    /\ run = "WAITING_FOR_APPROVAL" =>
          /\ tool = "PENDING_APPROVAL"
          /\ GenerationIsLast /\ generation.content = "ONE_PROPOSAL"
    /\ run = "CANCELLED" =>
          \/ cancelled # "none"
          \/ GenerationIsLast /\ generation.content = "CANCELLED"
    /\ cancelled # "none" =>
          /\ run \in {"RUNNING", "CANCELLED"}
          /\ model[cancelled] = "CANCELLED"

\* A tool is only ever called for a caller who was granted it, the continuation
\* only ever follows a call that succeeded, and an AgentRun that left RUNNING
\* leaves no call of its own in flight (execute_proposal commits each status
\* before the handler settles the run).
ToolRoundIsClosed ==
    /\ tool # "NONE" => request.tools = "granted"
    /\ Made("TOOL_CONTINUATION") => tool = "SUCCEEDED"
    /\ run \in {"SUCCEEDED", "FAILED", "CANCELLED"} =>
          tool \notin {"PROPOSED", "RUNNING", "PENDING_APPROVAL"}
    /\ run = "SUCCEEDED" /\ tool # "NONE" => model["TOOL_CONTINUATION"] = "SUCCEEDED"

\* The rows of an execution are those of the ledger: one call at a time, each
\* accounted for before the run ends, at most one extra attempt and one
\* continuation.
Ledger == INSTANCE ModelRunLedger
    WITH run   <- run,
         open  <- {a \in Attempt : model[a] = "RUNNING"},
         spent <- {a \in Attempt : model[a] # "NONE"}

ImplementsLedger == Ledger!Spec

\* An execution that is neither interrupted nor ended by the unhandled refusal
\* of a continuation's usage takes its AgentRun out of RUNNING.
EndsUnlessLost == run = "RUNNING" ~> (run # "RUNNING" \/ lost # "no")
=============================================================================
