------------------------- MODULE AgentExecutionProofs -------------------------
(***************************************************************************)
(* One request to an agent, for every answer the provider can give and     *)
(* wherever the request is interrupted: the status it leaves on its        *)
(* AgentRun is the one its last accounted answer justifies, its tool round *)
(* is closed, and its rows follow the ledger.  Of a request that is still  *)
(* going on, the point it has reached says which rows there are (RowsFit), *)
(* what has become of the tool (ToolFits) and what the answer at hand is   *)
(* (AnswerFits); when it is about to write the outcome, or has written it, *)
(* the verdict is justified (VerdictFits).  An interrupted request only    *)
(* leaves an AgentRun that is not settled, and whatever rows it had.       *)
(***************************************************************************)
EXTENDS AgentExecution, TLAPS

Settled  == {"SUCCEEDED", "FAILED", "CANCELLED", "WAITING_FOR_APPROVAL"}

Started   == pc \notin {"start", "created"}
Unopened  == pc \in {"start", "created", "prepare"}
InCall    == pc \in {"link", "call", "recover", "repair", "continuing"}
Judging   == pc \in {"judge", "repaired", "gateway", "tool", "evidence", "continued"}
Concluded == pc = "settle" \/ (pc = "done" /\ lost = "no")

\* The attempt whose row is RUNNING while its call is prepared or under way.
Under == CASE pc = "recover"    -> "TRUNCATION"
           [] pc = "repair"     -> "CONTRACT_REPAIR"
           [] pc = "continuing" -> "TOOL_CONTINUATION"
           [] OTHER             -> "INITIAL"

\* The AgentRun at each point of the coroutine.
RunFits ==
    /\ pc = "start" => run = "NONE"
    /\ pc = "created" => run = "CREATED"
    /\ Started /\ pc # "done" => run = "RUNNING"
    /\ pc # "done" => lost = "no"
    /\ pc = "done" /\ lost = "no" => run = verdict.status
    /\ lost # "no" => run \in {"CREATED", "RUNNING"}

\* The ModelRuns: none before the routing, one RUNNING during a call, none
\* RUNNING between calls and at the end.
RowsFit ==
    /\ Unopened => \A a \in Attempt : model[a] = "NONE"
    /\ InCall => \A a \in Attempt : model[a] = "RUNNING" <=> a = Under
    /\ Judging \/ Concluded => \A a \in Attempt : model[a] # "RUNNING"
    /\ Judging => model["INITIAL"] # "NONE"
    /\ \A a \in Attempt : model[a] # "NONE" => model["INITIAL"] # "NONE"
    /\ model["TRUNCATION"] = "NONE" \/ model["CONTRACT_REPAIR"] = "NONE"
    /\ extra <=> (model["TRUNCATION"] # "NONE" \/ model["CONTRACT_REPAIR"] # "NONE")
    /\ pc \in {"link", "call"} => ~extra
    /\ pc \in {"judge", "recover"} => model["CONTRACT_REPAIR"] = "NONE"
    /\ pc \in {"start", "created", "prepare", "link", "call", "judge", "recover", "repair",
               "repaired", "gateway", "tool", "evidence"} => model["TOOL_CONTINUATION"] = "NONE"
    /\ model["TOOL_CONTINUATION"] # "NONE" => tool = "SUCCEEDED"

\* The tool call: only for a caller who was granted it, and as far as the
\* coroutine has taken it.
ToolFits ==
    /\ tool # "NONE" => request.tools = "granted"
    /\ pc \in {"start", "created", "prepare", "link", "call", "judge", "recover", "repair",
               "repaired"} => tool = "NONE"
    /\ pc = "gateway" => tool = "PROPOSED"
    /\ pc = "tool" => tool = "RUNNING"
    /\ pc \in {"evidence", "continuing", "continued"} => tool = "SUCCEEDED"
    /\ Concluded => tool \in {"NONE", "BLOCKED", "FAILED", "SUCCEEDED", "PENDING_APPROVAL"}
    /\ Concluded /\ tool = "PENDING_APPROVAL" => verdict.status = "WAITING_FOR_APPROVAL"

\* The answer at hand is accounted for, and is that of the last attempt; a
\* failed recovery leaves the truncated answer it could not replace.
AnswerFits ==
    /\ Judging => generation.by \in Attempt /\ model[generation.by] = "SUCCEEDED"
    /\ pc = "judge" => generation.by \in {"INITIAL", "TRUNCATION"}
    /\ pc = "recover" =>
          generation.by = "INITIAL" /\ generation.truncated /\ model["INITIAL"] = "SUCCEEDED"
    /\ pc = "judge" /\ Made("TRUNCATION") => generation.by = "TRUNCATION" \/ generation.truncated
    /\ pc = "repaired" => generation.by = "CONTRACT_REPAIR"
    /\ pc \in {"gateway", "tool", "evidence"} => generation.content = "ONE_PROPOSAL"
    /\ pc \in {"repaired", "gateway", "tool", "evidence", "continued"} => GenerationIsLast
    /\ pc = "continued" => generation.by = "TOOL_CONTINUATION" /\ ~generation.truncated

\* The outcome about to be written, or written.
VerdictFits ==
    /\ Concluded =>
          /\ verdict.status \in Settled
          /\ verdict.status = "SUCCEEDED" =>
                /\ GenerationIsLast /\ generation.content = "COMPLETED"
                /\ generation.truncated => generation.by = "CONTRACT_REPAIR"
                /\ tool # "NONE" => model["TOOL_CONTINUATION"] = "SUCCEEDED"
          /\ verdict.status = "WAITING_FOR_APPROVAL" =>
                /\ tool = "PENDING_APPROVAL"
                /\ GenerationIsLast /\ generation.content = "ONE_PROPOSAL"
          /\ verdict.status = "CANCELLED" =>
                cancelled # "none" \/ (GenerationIsLast /\ generation.content = "CANCELLED")
    /\ cancelled # "none" =>
          /\ pc \in {"settle", "done"}
          /\ verdict.status = "CANCELLED"
          /\ cancelled \in Attempt /\ model[cancelled] = "CANCELLED"
          /\ run \in {"RUNNING", "CANCELLED"}

Inv == TypeOK /\ RunFits /\ RowsFit /\ ToolFits /\ AnswerFits /\ VerdictFits

-----------------------------------------------------------------------------
USE DEF rows, vars, Attempt, Started, Unopened, InCall, Judging, Concluded, Under,
        Settled, Decide, Verdict, NoVerdict, start_model_run, transition_running, transition_run,
        Answered

\* The attempt that a cancelled call cancels is the one under way.
LEMMA CallingIsUnder ==
    /\ pc \in DOMAIN Calling <=> pc \in {"call", "recover", "repair", "continuing"}
    /\ pc \in DOMAIN Calling => Calling[pc] = Under
BY DEF Calling

\* Which results end the AgentRun how.
LEMMA ResultMapping ==
    ASSUME NEW status
    PROVE  /\ map_result_status(status) \in {"SUCCEEDED", "FAILED", "CANCELLED"}
           /\ map_result_status(status) = "SUCCEEDED" => status = "COMPLETED"
           /\ map_result_status(status) = "CANCELLED" => status = "CANCELLED"
BY DEF map_result_status

\* How the answer after the tool round is concluded.
LEMMA ContinuationMapping ==
    /\ ContinuationVerdict.status \in {"SUCCEEDED", "FAILED", "CANCELLED"}
    /\ ContinuationVerdict.status = "SUCCEEDED" => generation.content = "COMPLETED"
    /\ ContinuationVerdict.status = "CANCELLED" => generation.content = "CANCELLED"
BY ResultMapping DEF ContinuationVerdict

LEMMA InitInv == Init => Inv
<1> SUFFICES ASSUME Init PROVE Inv
  OBVIOUS
<1>1. TypeOK
  BY DEF Init, TypeOK, RunStatus, ModelStatus, ToolStatus
<1>2. RunFits /\ RowsFit /\ ToolFits
  BY DEF Init, RunFits, RowsFit, ToolFits
<1>3. AnswerFits /\ VerdictFits
  BY DEF Init, AnswerFits, VerdictFits
<1> QED BY <1>1, <1>2, <1>3 DEF Inv

LEMMA TypeStep == TypeOK /\ [Next]_vars => TypeOK'
<1> SUFFICES ASSUME TypeOK, [Next]_vars PROVE TypeOK'
  OBVIOUS
<1> USE DEF TypeOK, RunStatus, ModelStatus, ToolStatus
<1>1. CASE CreateRun
  BY <1>1 DEF CreateRun
<1>2. CASE StartRun
  BY <1>2 DEF StartRun
<1>3. CASE Refuse
  BY <1>3 DEF Refuse
<1>4. CASE OpenInitial
  BY <1>4 DEF OpenInitial
<1>5. CASE LinkModelRun
  BY <1>5 DEF LinkModelRun
<1>6. CASE CallIsCancelled
  BY <1>6, CallingIsUnder DEF CallIsCancelled
<1>7. CASE InitialFails
  BY <1>7 DEF InitialFails
<1>8. CASE InitialAnswers
  BY <1>8 DEF InitialAnswers
<1>9. CASE OpenRecovery
  BY <1>9 DEF OpenRecovery
<1>10. CASE RecoveryFails
  BY <1>10 DEF RecoveryFails
<1>11. CASE RecoveryAnswers
  BY <1>11 DEF RecoveryAnswers
<1>12. CASE RejectAnswer
  BY <1>12 DEF RejectAnswer
<1>13. CASE OpenRepair
  BY <1>13 DEF OpenRepair
<1>14. CASE RepairFails
  BY <1>14 DEF RepairFails
<1>15. CASE RepairAnswers
  BY <1>15 DEF RepairAnswers
<1>16. CASE RejectRepair
  BY <1>16 DEF RejectRepair
<1>17. CASE AcceptResult
  BY <1>17, ResultMapping DEF AcceptResult
<1>18. CASE RejectProposal
  BY <1>18 DEF RejectProposal
<1>19. CASE ProposeTool
  BY <1>19 DEF ProposeTool
<1>20. CASE DenyTool
  BY <1>20 DEF DenyTool
<1>21. CASE HoldTool
  BY <1>21 DEF HoldTool
<1>22. CASE StartTool
  BY <1>22 DEF StartTool
<1>23. CASE ToolFails
  BY <1>23 DEF ToolFails
<1>24. CASE ToolSucceeds
  BY <1>24 DEF ToolSucceeds
<1>25. CASE ContinuationUnavailable
  BY <1>25 DEF ContinuationUnavailable
<1>26. CASE OpenContinuation
  BY <1>26 DEF OpenContinuation
<1>27. CASE ContinuationFails
  BY <1>27 DEF ContinuationFails
<1>28. CASE ContinuationAnswers
  BY <1>28 DEF ContinuationAnswers
<1>29. CASE ConcludeContinuation
  BY <1>29, ContinuationMapping DEF ConcludeContinuation
<1>30. CASE ContinuationUsageRefused
  BY <1>30 DEF ContinuationUsageRefused
<1>31. CASE Settle
  BY <1>31 DEF Settle, settle_run
<1>32. CASE Interrupt
  BY <1>32 DEF Interrupt
<1>33. CASE Finished \/ UNCHANGED vars
  BY <1>33 DEF Finished
<1> QED
  BY <1>1, <1>2, <1>3, <1>4, <1>5, <1>6, <1>7, <1>8, <1>9, <1>10, <1>11, <1>12, <1>13, <1>14,
     <1>15, <1>16, <1>17, <1>18, <1>19, <1>20, <1>21, <1>22, <1>23, <1>24, <1>25, <1>26, <1>27,
     <1>28, <1>29, <1>30, <1>31, <1>32, <1>33 DEF Next, Step

LEMMA InvStep == Inv /\ [Next]_vars => Inv'
<1> SUFFICES ASSUME Inv, [Next]_vars PROVE Inv'
  OBVIOUS
<1>0. TypeOK'
  BY TypeStep DEF Inv
<1> USE <1>0 DEF Inv, RunFits, RowsFit, ToolFits, AnswerFits, VerdictFits, TypeOK, Made, GenerationIsLast
<1>1. CASE CreateRun
  BY <1>1 DEF CreateRun
<1>2. CASE StartRun
  BY <1>2 DEF StartRun
<1>3. CASE Refuse
  BY <1>3 DEF Refuse
<1>4. CASE OpenInitial
  BY <1>4 DEF OpenInitial
<1>5. CASE LinkModelRun
  BY <1>5 DEF LinkModelRun
<1>6. CASE CallIsCancelled
  BY <1>6, CallingIsUnder DEF CallIsCancelled
<1>7. CASE InitialFails
  BY <1>7 DEF InitialFails
<1>8. CASE InitialAnswers
  BY <1>8 DEF InitialAnswers
<1>9. CASE OpenRecovery
  BY <1>9 DEF OpenRecovery, TruncationIsRecoverable, Truncated
<1>10. CASE RecoveryFails
  BY <1>10 DEF RecoveryFails
<1>11. CASE RecoveryAnswers
  BY <1>11 DEF RecoveryAnswers
<1>12. CASE RejectAnswer
  BY <1>12 DEF RejectAnswer
<1>13. CASE OpenRepair
  BY <1>13 DEF OpenRepair, Rejected, RepairIsAllowed
<1>14. CASE RepairFails
  BY <1>14 DEF RepairFails
<1>15. CASE RepairAnswers
  BY <1>15 DEF RepairAnswers
<1>16. CASE RejectRepair
  BY <1>16 DEF RejectRepair
<1>17. CASE AcceptResult
  BY <1>17, ResultMapping DEF AcceptResult, Accepted, Truncated, Valid, ResultStatus
<1>18. CASE RejectProposal
  BY <1>18 DEF RejectProposal, Accepted
<1>19. CASE ProposeTool
  BY <1>19 DEF ProposeTool, Accepted, ProposalIsAcceptable, Truncated
<1>20. CASE DenyTool
  BY <1>20 DEF DenyTool
<1>21. CASE HoldTool
  BY <1>21 DEF HoldTool
<1>22. CASE StartTool
  BY <1>22 DEF StartTool
<1>23. CASE ToolFails
  BY <1>23 DEF ToolFails
<1>24. CASE ToolSucceeds
  BY <1>24 DEF ToolSucceeds
<1>25. CASE ContinuationUnavailable
  BY <1>25 DEF ContinuationUnavailable
<1>26. CASE OpenContinuation
  BY <1>26 DEF OpenContinuation
<1>27. CASE ContinuationFails
  BY <1>27 DEF ContinuationFails
<1>28. CASE ContinuationAnswers
  BY <1>28 DEF ContinuationAnswers
<1>29. CASE ConcludeContinuation
  BY <1>29, ContinuationMapping DEF ConcludeContinuation
<1>30. CASE ContinuationUsageRefused
  BY <1>30 DEF ContinuationUsageRefused
<1>31. CASE Settle
  BY <1>31 DEF Settle, settle_run
<1>32. CASE Interrupt
  BY <1>32 DEF Interrupt
<1>33. CASE Finished \/ UNCHANGED vars
  BY <1>33 DEF Finished
<1> QED
  BY <1>1, <1>2, <1>3, <1>4, <1>5, <1>6, <1>7, <1>8, <1>9, <1>10, <1>11, <1>12, <1>13, <1>14,
     <1>15, <1>16, <1>17, <1>18, <1>19, <1>20, <1>21, <1>22, <1>23, <1>24, <1>25, <1>26, <1>27,
     <1>28, <1>29, <1>30, <1>31, <1>32, <1>33 DEF Next, Step

\* Whatever the request has come to, the invariant says what it left behind.
LEMMA AgentInvariant == Spec => []Inv
BY InitInv, InvStep, PTL DEF Spec

\* Every variable stays in its range, for every interleaving of answers,
\* failures, cancellations and interruptions.
THEOREM AgentTypeOK == Spec => []TypeOK
<1>1. Inv => TypeOK
  BY DEF Inv
<1> QED BY <1>1, AgentInvariant, PTL

\* An AgentRun that has left RUNNING was settled by this request, with its
\* verdict.
LEMMA SettledIsConcluded == Inv /\ run \in Settled => Concluded /\ verdict.status = run
BY DEF Inv, RunFits

\* The outcome of an AgentRun is the one its last accounted answer justifies,
\* and a cancelled call is never turned into another outcome (execute, fail_run,
\* succeed_run, suspend_run, cancel_run).
THEOREM AgentOutcomeIsTrue == Spec => []OutcomeIsTrue
<1>1. Inv => OutcomeIsTrue
  BY SettledIsConcluded DEF Inv, VerdictFits, OutcomeIsTrue
<1> QED BY <1>1, AgentInvariant, PTL

\* A tool is called only for a caller who was granted it, a continuation only
\* follows a call that succeeded, and no settled AgentRun leaves its call in
\* flight (execute_proposal, continue_with_tool_evidence).
THEOREM AgentToolRoundIsClosed == Spec => []ToolRoundIsClosed
<1>1. Inv => ToolRoundIsClosed
  BY SettledIsConcluded DEF Inv, RowsFit, ToolFits, VerdictFits, ToolRoundIsClosed, Made
<1> QED BY <1>1, AgentInvariant, PTL

-----------------------------------------------------------------------------
(* The refinement: a call is the ledger's Open or Close, the AgentRun's    *)
(* three writes are Create, Start and Settle, and all else is a stutter.   *)

OpenRows  == {a \in Attempt : model[a] = "RUNNING"}
SpentRows == {a \in Attempt : model[a] # "NONE"}

Entry == [Ledger!Next]_(Ledger!vars)

\* A row is opened while the AgentRun is RUNNING and no other row is open.
LEMMA OpeningIsEntry ==
    ASSUME Inv, NEW a \in Attempt, run = "RUNNING", run' = run, start_model_run(a),
           \A b \in Attempt : model[b] # "RUNNING",
           CASE a = "INITIAL" -> SpentRows = {}
             [] a \in Ledger!Extra -> SpentRows = {"INITIAL"}
             [] a = "TOOL_CONTINUATION" -> "INITIAL" \in SpentRows /\ a \notin SpentRows
    PROVE  Entry
<1>1. OpenRows = {} /\ OpenRows' = {a} /\ SpentRows' = SpentRows \union {a}
  BY DEF Inv, TypeOK, OpenRows,
           SpentRows
<1>2. Ledger!MayFollow(a)
  BY DEF Ledger!MayFollow, Ledger!Extra, SpentRows
<1> QED BY <1>1, <1>2 DEF Entry, Ledger!Next, Ledger!Open, Ledger!Attempt, Ledger!Extra, OpenRows,
           SpentRows

\* The row of the call under way is closed, and no other was open.
LEMMA ClosingIsEntry ==
    ASSUME Inv, InCall, UNCHANGED run,
           NEW status \in {"SUCCEEDED", "FAILED", "CANCELLED"}, transition_running(Under, status)
    PROVE  Entry
<1>1. OpenRows # {} /\ OpenRows' = {} /\ SpentRows' = SpentRows
  BY DEF Inv, TypeOK, RowsFit, OpenRows,
           SpentRows
<1> QED BY <1>1 DEF Entry, Ledger!Next, Ledger!Close, OpenRows,
           SpentRows

LEMMA StepIsEntry == Inv /\ [Next]_vars => Entry
<1> SUFFICES ASSUME Inv, [Next]_vars PROVE Entry
  OBVIOUS
<1>1. CASE UNCHANGED rows
  BY <1>1 DEF Entry, Ledger!vars
<1>2. CASE CreateRun
  BY <1>2 DEF CreateRun, Inv, RunFits, Entry, Ledger!Next, Ledger!Create
<1>3. CASE StartRun
  BY <1>3 DEF StartRun, Entry, Ledger!Next, Ledger!Start
<1>4. CASE OpenInitial \/ OpenRecovery \/ OpenRepair \/ OpenContinuation
  <2>1. \A b \in Attempt : model[b] # "RUNNING"
    BY <1>4 DEF OpenInitial, OpenRecovery, OpenRepair, OpenContinuation, Inv, RowsFit
  <2>2. run = "RUNNING" /\ run' = run
    BY <1>4 DEF OpenInitial, OpenRecovery, OpenRepair, OpenContinuation, Inv, RunFits
  <2>3. CASE OpenInitial
    <3>1. SpentRows = {}
      BY <2>3 DEF OpenInitial, Inv, RowsFit, SpentRows
    <3> QED BY <2>1, <2>2, <2>3, <3>1, OpeningIsEntry DEF OpenInitial, Ledger!Extra
  <2>4. ASSUME NEW a \in {"TRUNCATION", "CONTRACT_REPAIR"}, pc = "judge", ~extra, start_model_run(a)
        PROVE  Entry
    <3>1. SpentRows = {"INITIAL"}
      BY <2>4 DEF Inv, RowsFit, SpentRows
    <3> QED BY <2>1, <2>2, <2>4, <3>1, OpeningIsEntry DEF Ledger!Extra
  <2>5. CASE OpenContinuation
    <3>1. "INITIAL" \in SpentRows /\ "TOOL_CONTINUATION" \notin SpentRows
      BY <2>5 DEF OpenContinuation, Inv, RowsFit, SpentRows
    <3> QED BY <2>1, <2>2, <2>5, <3>1, OpeningIsEntry DEF OpenContinuation, Ledger!Extra
  <2> QED BY <1>4, <2>3, <2>4, <2>5
             DEF OpenRecovery, OpenRepair, TruncationIsRecoverable, RepairIsAllowed
<1>5. CASE \/ CallIsCancelled \/ InitialFails \/ InitialAnswers \/ RecoveryFails \/ RecoveryAnswers
           \/ RepairFails \/ RepairAnswers \/ ContinuationFails \/ ContinuationAnswers
  <2>1. InCall /\ UNCHANGED run
    BY <1>5, CallingIsUnder
       DEF CallIsCancelled, InitialFails, InitialAnswers, RecoveryFails, RecoveryAnswers, RepairFails,
           RepairAnswers, ContinuationFails, ContinuationAnswers
  <2>2. \E status \in {"SUCCEEDED", "FAILED", "CANCELLED"} : transition_running(Under, status)
    BY <1>5, CallingIsUnder
       DEF CallIsCancelled, InitialFails, InitialAnswers, RecoveryFails, RecoveryAnswers, RepairFails,
           RepairAnswers, ContinuationFails, ContinuationAnswers
  <2> QED BY <2>1, <2>2, ClosingIsEntry
<1>6. CASE Settle
  <2>1. run = "RUNNING" /\ verdict.status \in Settled /\ \A a \in Attempt : model[a] # "RUNNING"
    BY <1>6 DEF Settle, settle_run, Inv, VerdictFits, RowsFit
  <2> QED BY <1>6, <2>1 DEF Settle, settle_run, Entry, Ledger!Next, Ledger!Settle, Ledger!Settled
<1>7. CASE UNCHANGED <<run, model>>
  BY <1>7 DEF Entry, Ledger!vars
<1> QED
  BY <1>1, <1>2, <1>3, <1>4, <1>5, <1>6, <1>7
     DEF Next, Step, Finished, Refuse, LinkModelRun, RejectAnswer, RejectRepair, AcceptResult,
         RejectProposal, ProposeTool, DenyTool, HoldTool, StartTool, ToolFails, ToolSucceeds,
         ContinuationUnavailable, ConcludeContinuation, ContinuationUsageRefused, Interrupt

\* The rows of an execution are those of the ledger, whatever the provider
\* answers and wherever the request is interrupted.
THEOREM AgentImplementsLedger == Spec => ImplementsLedger
<1>1. Init => Ledger!Init
  BY DEF Init, Ledger!Init
<1>2. Inv /\ [Next]_vars => Entry
  BY StepIsEntry
<1> QED BY <1>1, <1>2, AgentInvariant, PTL DEF Spec, ImplementsLedger, Ledger!Spec, Entry
=============================================================================
