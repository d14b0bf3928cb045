------------------------ MODULE MutationResumeProofs ------------------------
(***************************************************************************)
(* Proofs about MutationResume.tla, for any number of approvals and        *)
(* rejections, crashes, edits of the file and new rules.                   *)
(*                                                                         *)
(* The argument: no request gets past its reads before the advance has     *)
(* linked the AgentRun (Linked).  From the check of the approval on, a     *)
(* request works under a decision that is final (Approved), and whatever   *)
(* says that the mutation succeeded, a row, a stale object, the file or    *)
(* the place a request has reached, says so after it was applied           *)
(* (Applied).  Whoever continues the Developer holds the one AgentRun that *)
(* was WAITING_FOR_APPROVAL as RUNNING, and nobody makes it wait again     *)
(* (Token).                                                                *)
(***************************************************************************)
EXTENDS MutationResume, TLAPS

Ahead == {"propose", "evaluate", "create", "bind", "suspend", "link"}

\* Before the AgentRun is linked nothing has happened but decisions.
Linked ==
    /\ author \in Ahead => ~linked
    /\ ~linked => applied = 0 /\ continued = 0 /\ \A a \in Sessions : pc[a] \in {"idle", "read"}

\* The step is the advance's until it has suspended it, and a continuing
\* request's from then on.
Owned ==
    /\ author \in Ahead \cup {"wait"} => step["developer"] = "RUNNING"
    /\ \A a \in Sessions :
          pc[a] \in {"continue", "finish", "failRunning"} => author \in {"done", "failed"}
    /\ step["developer"] # "COMPLETED" => step["qa"] = "PENDING"
    /\ \A a \in Sessions : pc[a] = "failRun" => step["developer"] = "FAILED"

Approved ==
    /\ applied > 0 => approval = "APPROVED"
    /\ \A a \in Sessions :
          pc[a] \in {"begin", "check", "replace", "record"} => approval = "APPROVED"

Applied ==
    /\ tool = "SUCCEEDED" \/ file = "candidate" => applied > 0
    /\ \A a \in Sessions :
          /\ pc[a] \in {"lock", "record"} /\ seen[a] = "SUCCEEDED" => applied > 0
          /\ pc[a] \in {"resume", "startStep", "continue", "finish"} => applied > 0

Continuing(a) == pc[a] \in {"startStep", "continue"}

Token ==
    /\ continued # 0 => continued = 1 /\ agent \in {"SUCCEEDED", "FAILED"}
    /\ \A a \in Sessions : Continuing(a) =>
          agent = "RUNNING" /\ \A b \in Sessions : Continuing(b) => a = b
    /\ \A a \in Sessions : pc[a] = "finish" => agent = "SUCCEEDED"
    /\ step["developer"] = "COMPLETED" => agent = "SUCCEEDED" /\ handoff /\ applied > 0

IInv == TypeOK /\ Linked /\ Owned /\ Approved /\ Applied /\ Token

-----------------------------------------------------------------------------
(* Types                                                                   *)

LEMMA TypePreserved == ASSUME TypeOK, [Next]_vars PROVE TypeOK'
<1> USE DEF Steps, ToolStatus, rows, history
<1>1. CASE AuthorStep
  <2>1. CASE SuspendStep
    BY <2>1 DEF Author, SuspendStep, TypeOK
  <2>2. CASE LinkAgentRun \/ SuspendAgent \/ Bind \/ CreateRefused
    BY <2>2, ZenonT(40) DEF Author, LinkAgentRun, SuspendAgent, Bind, CreateRefused, TypeOK
  <2>3. CASE Propose \/ Evaluate \/ DenyProposal \/ CreateApproval
    BY <2>3 DEF Author, Propose, Evaluate, DenyProposal, CreateApproval, TypeOK
  <2> QED
    BY <1>1, <2>1, <2>2, <2>3 DEF AuthorStep
<1>2. CASE AuthorCrash \/ EditFile
  BY <1>2 DEF AuthorCrash, EditFile, TypeOK
<1>3. ASSUME NEW effect \in Effects, AddRule(effect) PROVE TypeOK'
  BY <1>3 DEF AddRule, TypeOK
<1>4. ASSUME NEW a \in Sessions, Decide(a, Target(a)) PROVE TypeOK'
  BY <1>4 DEF Decide, Target, Goto, TypeOK
<1>5. ASSUME NEW a \in Sessions, ReadLinked(a) PROVE TypeOK'
  BY <1>5 DEF ReadLinked, Goto, Return, TypeOK
<1>6. ASSUME NEW a \in Sessions, NothingLinked(a) PROVE TypeOK'
  BY <1>6 DEF NothingLinked, Goto, Return, TypeOK
<1>7. ASSUME NEW a \in Sessions, ResumeSucceeded(a) PROVE TypeOK'
  BY <1>7 DEF ResumeSucceeded, Goto, Return, TypeOK
<1>8. ASSUME NEW a \in Sessions, InvalidState(a) PROVE TypeOK'
  BY <1>8 DEF InvalidState, Goto, Return, TypeOK
<1>9. ASSUME NEW a \in Sessions, CheckPending(a) PROVE TypeOK'
  BY <1>9 DEF CheckPending, Goto, Return, TypeOK
<1>10. ASSUME NEW a \in Sessions, CheckSatisfied(a) PROVE TypeOK'
  BY <1>10 DEF CheckSatisfied, Goto, Return, TypeOK
<1>11. ASSUME NEW a \in Sessions, Deny(a) PROVE TypeOK'
  BY <1>11 DEF Deny, Goto, Return, TypeOK
<1>12. ASSUME NEW a \in Sessions, BeginApply(a) PROVE TypeOK'
  BY <1>12 DEF BeginApply, Goto, Return, TypeOK
<1>13. ASSUME NEW a \in Sessions, CheckFile(a) PROVE TypeOK'
  BY <1>13 DEF CheckFile, Goto, Return, TypeOK
<1>14. ASSUME NEW a \in Sessions, ReplaceFile(a) PROVE TypeOK'
  BY <1>14 DEF ReplaceFile, Goto, Return, TypeOK
<1>15. ASSUME NEW a \in Sessions, Record(a) PROVE TypeOK'
  BY <1>15 DEF Record, Goto, Return, TypeOK
<1>16. ASSUME NEW a \in Sessions, ResumeAgent(a) PROVE TypeOK'
  BY <1>16 DEF ResumeAgent, Goto, Return, TypeOK
<1>17. ASSUME NEW a \in Sessions, StartStep(a) PROVE TypeOK'
  BY <1>17 DEF StartStep, Goto, Return, TypeOK
<1>18. ASSUME NEW a \in Sessions, Continue(a) PROVE TypeOK'
  BY <1>18 DEF Continue, Goto, Return, TypeOK, Results
<1>19. ASSUME NEW a \in Sessions, FinishStep(a) PROVE TypeOK'
  BY <1>19 DEF FinishStep, Goto, Return, TypeOK
<1>20. ASSUME NEW a \in Sessions, FailRunningStep(a) PROVE TypeOK'
  BY <1>20 DEF FailRunningStep, Goto, Return, TypeOK
<1>21. ASSUME NEW a \in Sessions, RejectPending(a) PROVE TypeOK'
  BY <1>21 DEF RejectPending, Goto, Return, TypeOK
<1>22. ASSUME NEW a \in Sessions, RejectBlocked(a) PROVE TypeOK'
  BY <1>22 DEF RejectBlocked, Goto, Return, TypeOK
<1>23. ASSUME NEW a \in Sessions, FailAgent(a) PROVE TypeOK'
  BY <1>23 DEF FailAgent, Goto, Return, TypeOK
<1>24. ASSUME NEW a \in Sessions, FailStep(a) PROVE TypeOK'
  BY <1>24 DEF FailStep, Goto, Return, TypeOK
<1>25. ASSUME NEW a \in Sessions, FailRun(a) PROVE TypeOK'
  BY <1>25 DEF FailRun, Goto, Return, TypeOK
<1>26. ASSUME NEW a \in Sessions, Crash(a) PROVE TypeOK'
  BY <1>26 DEF Crash, Goto, Return, TypeOK
<1>27. CASE UNCHANGED vars
  BY <1>27 DEF vars, TypeOK
<1> QED
  BY <1>1, <1>2, <1>3, <1>4, <1>5, <1>6, <1>7, <1>8, <1>9, <1>10, <1>11, <1>12, <1>13, <1>14,
     <1>15, <1>16, <1>17, <1>18, <1>19, <1>20, <1>21, <1>22, <1>23, <1>24, <1>25, <1>26, <1>27 DEF
     Next, Handle

-----------------------------------------------------------------------------
(* The invariant                                                           *)

LEMMA InvInit == Init => IInv
<1> USE DEF Steps, ToolStatus, Ahead, Continuing
<1> SUFFICES ASSUME Init PROVE IInv
  OBVIOUS
<1>1. rules \in SUBSET Effects /\ result \in Results
  BY DEF Init, Results
<1>2. TypeOK
  <2>1. step \in [Steps -> {"PENDING", "READY", "RUNNING", "WAITING_FOR_APPROVAL",
                          "COMPLETED", "FAILED"}]
    BY DEF Init
  <2>2. seen \in [Sessions -> ToolStatus]
    BY DEF Init
  <2>3. pc \in [Sessions -> {"idle", "read", "lock", "satisfied", "deny", "begin", "check",
                            "replace", "record", "resume", "startStep", "continue", "finish",
                            "failRunning", "failAgent", "failStep", "failRun"}]
    BY DEF Init
  <2>4. {applied, continued, crashes, edits} \subseteq Nat
    BY DEF Init
  <2> QED
    BY <1>1, <2>1, <2>2, <2>3, <2>4 DEF Init, TypeOK
<1>3. Linked /\ Owned
  BY DEF Init, Linked, Owned
<1>4. Approved /\ Applied /\ Token
  BY DEF Init, Approved, Applied, Token
<1> QED
  BY <1>2, <1>3, <1>4 DEF IInv

LEMMA InvPreserved == ASSUME IInv, [Next]_vars PROVE IInv'
<1> USE DEF Steps, ToolStatus, rows, history, Ahead, Continuing
<1>0. TypeOK'
  BY TypePreserved DEF IInv
<1>1. CASE Propose
  BY <1>0, <1>1 DEF Propose, Author, IInv, TypeOK, Linked, Owned, Approved, Applied, Token
<1>2. CASE Evaluate
  BY <1>0, <1>2 DEF Evaluate, Author, IInv, TypeOK, Linked, Owned, Approved, Applied, Token
<1>3. CASE DenyProposal
  BY <1>0, <1>3 DEF DenyProposal, Author, IInv, TypeOK, Linked, Owned, Approved, Applied, Token
<1>4. CASE CreateApproval
  BY <1>0, <1>4 DEF CreateApproval, Author, IInv, TypeOK, Linked, Owned, Approved, Applied, Token
<1>5. CASE CreateRefused
  BY <1>0, <1>5 DEF CreateRefused, Author, IInv, TypeOK, Linked, Owned, Approved, Applied, Token
<1>6. CASE Bind
  BY <1>0, <1>6 DEF Bind, Author, IInv, TypeOK, Linked, Owned, Approved, Applied, Token
<1>7. CASE SuspendAgent
  BY <1>0, <1>7 DEF SuspendAgent, Author, IInv, TypeOK, Linked, Owned, Approved, Applied, Token
<1>8. CASE LinkAgentRun
  BY <1>0, <1>8 DEF LinkAgentRun, Author, IInv, TypeOK, Linked, Owned, Approved, Applied, Token
<1>9. CASE SuspendStep
  BY <1>0, <1>9 DEF SuspendStep, Author, IInv, TypeOK, Linked, Owned, Approved, Applied, Token
<1>10. CASE AuthorCrash
  BY <1>0, <1>10 DEF AuthorCrash, IInv, TypeOK, Linked, Owned, Approved, Applied, Token
<1>11. CASE EditFile
  BY <1>0, <1>11 DEF EditFile, IInv, TypeOK, Linked, Owned, Approved, Applied, Token
<1>12. ASSUME NEW effect \in Effects, AddRule(effect) PROVE IInv'
  BY <1>0, <1>12 DEF AddRule, IInv, TypeOK, Linked, Owned, Approved, Applied, Token
<1>13. ASSUME NEW a \in Sessions, Decide(a, Target(a)) PROVE IInv'
  BY <1>0, <1>13 DEF Decide, Target, Goto, IInv, TypeOK, Linked, Owned, Approved, Applied, Token
<1>14. ASSUME NEW a \in Sessions, ReadLinked(a) PROVE IInv'
  BY <1>0, <1>14 DEF ReadLinked, Goto, Return, HasApproval, Nothing, IInv, TypeOK, Linked, Owned,
     Approved, Applied, Token
<1>15. ASSUME NEW a \in Sessions, NothingLinked(a) PROVE IInv'
  BY <1>0, <1>15 DEF NothingLinked, Goto, Return, HasApproval, Nothing, IInv, TypeOK, Linked,
     Owned, Approved, Applied, Token
<1>16. ASSUME NEW a \in Sessions, ResumeSucceeded(a) PROVE IInv'
  BY <1>0, <1>16 DEF ResumeSucceeded, Goto, Return, IInv, TypeOK, Linked, Owned, Approved,
     Applied, Token
<1>17. ASSUME NEW a \in Sessions, InvalidState(a) PROVE IInv'
  BY <1>0, <1>17 DEF InvalidState, Goto, Return, IInv, TypeOK, Linked, Owned, Approved, Applied,
     Token
<1>18. ASSUME NEW a \in Sessions, CheckPending(a) PROVE IInv'
  BY <1>0, <1>18 DEF CheckPending, Goto, Return, IInv, TypeOK, Linked, Owned, Approved, Applied,
     Token
<1>19. ASSUME NEW a \in Sessions, CheckSatisfied(a) PROVE IInv'
  BY <1>0, <1>19 DEF CheckSatisfied, Goto, Return, IInv, TypeOK, Linked, Owned, Approved, Applied,
     Token
<1>20. ASSUME NEW a \in Sessions, Deny(a) PROVE IInv'
  BY <1>0, <1>20 DEF Deny, Goto, Return, IInv, TypeOK, Linked, Owned, Approved, Applied, Token
<1>21. ASSUME NEW a \in Sessions, BeginApply(a) PROVE IInv'
  BY <1>0, <1>21 DEF BeginApply, Goto, Return, IInv, TypeOK, Linked, Owned, Approved, Applied, Token
<1>22. ASSUME NEW a \in Sessions, CheckFile(a) PROVE IInv'
  BY <1>0, <1>22 DEF CheckFile, Goto, Return, IInv, TypeOK, Linked, Owned, Approved, Applied, Token
<1>23. ASSUME NEW a \in Sessions, ReplaceFile(a) PROVE IInv'
  BY <1>0, <1>23 DEF ReplaceFile, Goto, Return, IInv, TypeOK, Linked, Owned, Approved, Applied,
     Token
<1>24. ASSUME NEW a \in Sessions, Record(a) PROVE IInv'
  BY <1>0, <1>24 DEF Record, Goto, Return, IInv, TypeOK, Linked, Owned, Approved, Applied, Token
<1>25. ASSUME NEW a \in Sessions, ResumeAgent(a) PROVE IInv'
  BY <1>0, <1>25 DEF ResumeAgent, Goto, Return, IInv, TypeOK, Linked, Owned, Approved, Applied,
     Token
<1>26. ASSUME NEW a \in Sessions, StartStep(a) PROVE IInv'
  BY <1>0, <1>26 DEF StartStep, Goto, Return, IInv, TypeOK, Linked, Owned, Approved, Applied, Token
<1>27. ASSUME NEW a \in Sessions, Continue(a) PROVE IInv'
  BY <1>0, <1>27 DEF Continue, Goto, Return, IInv, TypeOK, Linked, Owned, Approved, Applied, Token
<1>28. ASSUME NEW a \in Sessions, FinishStep(a) PROVE IInv'
  BY <1>0, <1>28 DEF FinishStep, Goto, Return, IInv, TypeOK, Linked, Owned, Approved, Applied, Token
<1>29. ASSUME NEW a \in Sessions, FailRunningStep(a) PROVE IInv'
  BY <1>0, <1>29 DEF FailRunningStep, Goto, Return, IInv, TypeOK, Linked, Owned, Approved,
     Applied, Token
<1>30. ASSUME NEW a \in Sessions, RejectPending(a) PROVE IInv'
  BY <1>0, <1>30 DEF RejectPending, Goto, Return, IInv, TypeOK, Linked, Owned, Approved, Applied,
     Token
<1>31. ASSUME NEW a \in Sessions, RejectBlocked(a) PROVE IInv'
  BY <1>0, <1>31 DEF RejectBlocked, Goto, Return, IInv, TypeOK, Linked, Owned, Approved, Applied,
     Token
<1>32. ASSUME NEW a \in Sessions, FailAgent(a) PROVE IInv'
  BY <1>0, <1>32 DEF FailAgent, Goto, Return, IInv, TypeOK, Linked, Owned, Approved, Applied, Token
<1>33. ASSUME NEW a \in Sessions, FailStep(a) PROVE IInv'
  BY <1>0, <1>33 DEF FailStep, Goto, Return, IInv, TypeOK, Linked, Owned, Approved, Applied, Token
<1>34. ASSUME NEW a \in Sessions, FailRun(a) PROVE IInv'
  BY <1>0, <1>34 DEF FailRun, Goto, Return, IInv, TypeOK, Linked, Owned, Approved, Applied, Token
<1>35. ASSUME NEW a \in Sessions, Crash(a) PROVE IInv'
  BY <1>0, <1>35 DEF Crash, Goto, Return, IInv, TypeOK, Linked, Owned, Approved, Applied, Token
<1>36. CASE UNCHANGED vars
  BY <1>36 DEF vars, IInv, TypeOK, Linked, Owned, Approved, Applied, Token
<1> QED
  BY <1>1, <1>2, <1>3, <1>4, <1>5, <1>6, <1>7, <1>8, <1>9, <1>10, <1>11, <1>12, <1>13, <1>14,
     <1>15, <1>16, <1>17, <1>18, <1>19, <1>20, <1>21, <1>22, <1>23, <1>24, <1>25, <1>26, <1>27,
     <1>28, <1>29, <1>30, <1>31, <1>32, <1>33, <1>34, <1>35, <1>36 DEF Next, AuthorStep, Handle

THEOREM Invariance == Spec => []IInv
<1>1. IInv /\ UNCHANGED vars => IInv'
  BY InvPreserved
<1> QED
  BY InvInit, InvPreserved, PTL DEF Spec

-----------------------------------------------------------------------------
(* The theorems                                                            *)

\* Every variable keeps its type.
THEOREM TypeCorrect == Spec => []TypeOK
<1>1. IInv => TypeOK
  BY DEF IInv
<1> QED
  BY Invariance, <1>1, PTL

\* The Developer is continued once, however many approvals are posted
\* (resume_run takes the AgentRun from WAITING_FOR_APPROVAL once).
THEOREM ContinuesOnce == Spec => []ContinuedOnce
<1>1. IInv => ContinuedOnce
  BY DEF IInv, TypeOK, Token, ContinuedOnce
<1> QED
  BY Invariance, <1>1, PTL

\* A completed step had its mutation applied, its Developer succeed and its
\* evidence handed on, and nothing is applied without a standing approval.
THEOREM CompletesApplied == Spec => []CompletedIsApplied
<1>1. IInv => CompletedIsApplied
  BY DEF IInv, TypeOK, Approved, Applied, Token, CompletedIsApplied
<1> QED
  BY Invariance, <1>1, PTL

\* Every commit of the advance and of the decisions on the run or its steps
\* is a transition workflows/service.py allows: MutationResume implements
\* WorkflowLifecycle from where the Developer runs on.
THEOREM ResumptionFollowsLifecycle == Spec => FollowsLifecycle
<1>1. ASSUME IInv, IInv', [Next]_vars PROVE [Lifecycle!Next]_<<run, step>>
  <2> USE DEF rows, history, Steps
  <2> DEFINE Moved(s, from, to) ==
               step[s] = from /\ step' = [step EXCEPT ![s] = to] /\ run' = run
  <2>0. ASSUME NEW s \in Steps, NEW from, NEW to, Moved(s, from, to), run = "RUNNING" \/ run = "FAILED",
               <<from, to>> \in Lifecycle!Moves
        PROVE  Lifecycle!Next
    BY <2>0 DEF Lifecycle!Next, Lifecycle!Move
  <2>1. /\ run \in {"RUNNING", "FAILED"}
        /\ step \in [Steps -> {"PENDING", "READY", "RUNNING", "WAITING_FOR_APPROVAL",
                              "COMPLETED", "FAILED"}]
    BY <1>1 DEF IInv, TypeOK
  <2>2. CASE SuspendStep
    <3>1. Moved("developer", "RUNNING", "WAITING_FOR_APPROVAL")
      BY <1>1, <2>2 DEF SuspendStep, Author, IInv, Owned
    <3> QED
      BY <3>1, <2>0, <2>1 DEF Lifecycle!Moves
  <2>3. ASSUME NEW a \in Sessions, StartStep(a), step' # step PROVE Lifecycle!Next
    <3>1. Moved("developer", "WAITING_FOR_APPROVAL", "RUNNING")
      BY <2>3 DEF StartStep
    <3> QED
      BY <3>1, <2>0, <2>1 DEF Lifecycle!Moves
  <2>4. ASSUME NEW a \in Sessions, FailStep(a), step' # step PROVE Lifecycle!Next
    <3>1. Moved("developer", "WAITING_FOR_APPROVAL", "FAILED")
      BY <2>4 DEF FailStep
    <3> QED
      BY <3>1, <2>0, <2>1 DEF Lifecycle!Moves
  <2>5. ASSUME NEW a \in Sessions, FailRunningStep(a) PROVE Lifecycle!Next
    <3>1. Moved("developer", "RUNNING", "FAILED")
      BY <2>5 DEF FailRunningStep
    <3> QED
      BY <3>1, <2>0, <2>1 DEF Lifecycle!Moves
  <2>6. ASSUME NEW a \in Sessions, FinishStep(a) PROVE Lifecycle!Next
    <3>1. /\ step["developer"] = "RUNNING" /\ step["qa"] = "PENDING"
          /\ step' = [step EXCEPT !["developer"] = "COMPLETED", !["qa"] = "READY"]
          /\ run' = run
      BY <1>1, <2>6 DEF FinishStep, IInv, Owned
    <3>2. step' = [x \in Steps |-> IF x = "developer" THEN "COMPLETED"
                                   ELSE IF x \in {"qa"} THEN "READY" ELSE step[x]]
      BY <3>1, <2>1
    <3>3. Lifecycle!Satisfied("qa", Lifecycle!Completed \cup {"developer"})
      BY DEF Lifecycle!Satisfied, DependsOn
    <3>4. Lifecycle!Publish("developer", {"qa"})
      BY <3>1, <3>2, <3>3 DEF Lifecycle!Publish
    <3>5. Lifecycle!Complete("developer")
      <4>1. {"qa"} \in SUBSET Steps
        OBVIOUS
      <4> QED
        BY <4>1, <3>1, <3>4, <2>1 DEF Lifecycle!Complete
    <3> QED
      BY <3>5 DEF Lifecycle!Next
  <2>7. ASSUME NEW a \in Sessions, FailRun(a) PROVE Lifecycle!Next
    <3>1. step["developer"] = "FAILED" /\ run = "RUNNING" /\ run' = "FAILED" /\ UNCHANGED step
      BY <1>1, <2>7 DEF FailRun, IInv, Owned
    <3>2. Lifecycle!Justified("FAILED", step)
      BY <3>1 DEF Lifecycle!Justified
    <3>3. Lifecycle!End
      BY <3>1, <3>2 DEF Lifecycle!End, Lifecycle!RunTerminal
    <3> QED
      BY <3>3 DEF Lifecycle!Next
  <2>8. CASE UNCHANGED <<run, step>>
    BY <2>8
  <2>9. CASE AuthorStep
    BY <2>2, <2>8, <2>9 DEF AuthorStep, Propose, Evaluate, DenyProposal, CreateApproval,
       CreateRefused,
       Bind, SuspendAgent, LinkAgentRun
  <2>10. CASE AuthorCrash \/ EditFile \/ \E effect \in Effects : AddRule(effect)
    BY <2>8, <2>10 DEF AuthorCrash, EditFile, AddRule
  <2>11. ASSUME NEW a \in Sessions, Decide(a, Target(a)) \/ Crash(a) \/ ReadLinked(a) \/ NothingLinked(a)
                 \/ ResumeSucceeded(a) \/ InvalidState(a) \/ CheckPending(a) \/ CheckSatisfied(a)
         PROVE UNCHANGED <<run, step>>
    BY <2>11 DEF Decide, Crash, ReadLinked, NothingLinked, ResumeSucceeded, InvalidState,
       CheckPending, CheckSatisfied
  <2>12. ASSUME NEW a \in Sessions, Deny(a) \/ BeginApply(a) \/ CheckFile(a) \/ ReplaceFile(a) \/ Record(a)
                 \/ ResumeAgent(a) \/ Continue(a) \/ RejectPending(a) \/ RejectBlocked(a) \/ FailAgent(a)
         PROVE UNCHANGED <<run, step>>
    BY <2>12 DEF Deny, BeginApply, CheckFile, ReplaceFile, Record, ResumeAgent, Continue,
       RejectPending, RejectBlocked, FailAgent
  <2>13. ASSUME NEW a \in Sessions, StartStep(a) \/ FailStep(a) PROVE run' = run
    BY <2>13 DEF StartStep, FailStep
  <2>14. ASSUME NEW a \in Sessions, Decide(a, Target(a)) \/ Handle(a) \/ Crash(a)
         PROVE  [Lifecycle!Next]_<<run, step>>
    BY <2>3, <2>4, <2>5, <2>6, <2>7, <2>8, <2>11, <2>12, <2>13, <2>14 DEF Handle
  <2>15. CASE UNCHANGED vars
    BY <2>15 DEF vars
  <2> QED
    BY <1>1, <2>9, <2>10, <2>14, <2>15 DEF Next
<1> QED
  BY Invariance, <1>1, PTL DEF Spec, FollowsLifecycle
=============================================================================
