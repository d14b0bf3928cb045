------------------------- MODULE OrchestratorProofs -------------------------
(***************************************************************************)
(* Proofs about Orchestrator.tla, for every plan, any number of sessions   *)
(* and any number of crashes.                                              *)
(*                                                                         *)
(* The argument is ownership.  The claim READY -> RUNNING is a compare-    *)
(* and-set, so at most one session works on a step at a time, the step     *)
(* stays RUNNING while it does, and a human takes a step over only through *)
(* the lock on a challenge no advance is working under (Exclusive).  Hence *)
(* two open completions never unlock the same dependent, and what an open  *)
(* transaction has read is still true when it commits (Reads).             *)
(*                                                                         *)
(* On this invariant rest, in the sections that follow it: the refinement  *)
(* of WorkflowLifecycle, the truth of the runtime events, the decisions on *)
(* challenges, and the handoffs of the fixed graph.                        *)
(***************************************************************************)
EXTENDS Orchestrator, SequenceTheorems, TLAPS

\* A session that works on the step it has selected: an advance after its
\* claim, or a resolution.
Owns(a) == Working(a) \/ Resolving(a)

\* Labels at which the selected step must exist.
Selected == {"start", "park", "claim", "failRun", "cancelRun", "count"}
SelectedExists == \A a \in Sessions : Owns(a) \/ pc[a] \in Selected => sel[a] \in Steps

\* Nothing has run before the run does, and only the first reads of advance
\* happen while it is CREATED.
NotBeforeStart ==
    /\ run = "CREATED" => \A s \in Steps : step[s] \in {"PENDING", "READY"}
    /\ \A a \in Sessions :
          pc[a] \notin {"idle", "select", "selectCreated", "start"} => run # "CREATED"
    /\ \A a \in Sessions : pc[a] = "select" => run # "CREATED"

\* An owned step is RUNNING, by one owner.
Exclusive ==
    /\ \A a \in Sessions : Owns(a) => step[sel[a]] = "RUNNING"
    /\ \A a, b \in Sessions : Owns(a) /\ Owns(b) /\ sel[a] = sel[b] => a = b

\* What a session read still holds.
Reads ==
    /\ \A a \in Sessions : pc[a] \in {"commit", "acceptCommit", "acceptLast"} =>
          \A d \in ready[a] :
              /\ step[d] = "PENDING"
              /\ sel[a] \in DependsOn[d]
              /\ DependsOn[d] \subseteq Completed \cup {sel[a]}
    /\ \A a \in Sessions : pc[a] = "acceptLast" => Completed \cup {sel[a]} = Steps
    /\ \A a \in Sessions : pc[a] = "completeRun" => Completed = Steps
    /\ \A a \in Sessions : pc[a] = "failRun" => step[sel[a]] = "FAILED"
    /\ \A a \in Sessions : pc[a] = "cancelRun" => step[sel[a]] = "CANCELLED"

\* A pending challenge is worked under by its resolution only.
Pending ==
    /\ \A s \in Steps : challenge[s].decision = "PENDING" => step[s] = "RUNNING"
    /\ \A a \in Sessions : Resolving(a) => challenge[sel[a]].decision = "PENDING"
    /\ \A a \in Sessions : Working(a) => challenge[sel[a]].decision # "PENDING"

\* The agent of a step is executed by the session that claimed it, once.
Once ==
    /\ \A s \in Steps : executed[s] <= 1
    /\ \A s \in Steps : step[s] \in {"PENDING", "READY"} => executed[s] = 0
    /\ \A a \in Sessions : pc[a] = "execute" => executed[sel[a]] = 0

Inv == TypeOK /\ SelectedExists /\ NotBeforeStart /\ Exclusive /\ Reads /\ Pending /\ Once

USE DEF Sessions, Owns, Working, Resolving, Selected, At, Goto, Return, Emit,
        rows, locals, history
-----------------------------------------------------------------------------
LEMMA InitInv == Init => Inv
BY PlanAssumption DEF Init, Inv, TypeOK, SelectedExists, NotBeforeStart, Exclusive, Reads,
   Pending, Once, RunStatus, StepStatus, Challenge, NoChallenge, Decisions, Levels, Outcome,
   NoOutcome, Just, Kinds, Labels, Event

-----------------------------------------------------------------------------
(* One lemma per action, one step per conjunct.                            *)

\* A handler that returns and writes nothing.
LEMMA ReturnInv ==
    ASSUME Inv, NEW a \in Sessions, Return(a), UNCHANGED <<rows, executed>>, crashes' \in Nat
    PROVE  Inv'
<1> USE DEF Inv
<1>1. TypeOK'
  BY DEF TypeOK, NoOutcome, Just, Outcome, Kinds, Levels, Labels
<1>2. SelectedExists'
  BY DEF SelectedExists, TypeOK
<1>3. NotBeforeStart'
  BY DEF NotBeforeStart, TypeOK
<1>4. Exclusive'
  BY DEF Exclusive, TypeOK
<1>5. Reads'
  BY DEF Reads, TypeOK, Completed
<1>6. Pending'
  BY DEF Pending, TypeOK
<1>7. Once'
  BY DEF Once, TypeOK
<1> QED BY <1>1, <1>2, <1>3, <1>4, <1>5, <1>6, <1>7

LEMMA ReadRunInv ==
    ASSUME Inv, NEW a \in Sessions, ReadRun(a)
    PROVE  Inv'
<1> USE DEF Inv, ReadRun
<1>1. TypeOK'
  BY DEF TypeOK, SelectedExists, Labels
<1>2. SelectedExists'
  BY DEF SelectedExists, TypeOK
<1>3. NotBeforeStart'
  BY PlanAssumption DEF NotBeforeStart, SelectedExists, TypeOK, Completed
<1>4. Exclusive'
  BY DEF Exclusive, Reads, SelectedExists, TypeOK
<1>5. Reads'
  BY DEF Reads, Exclusive, SelectedExists, TypeOK, Completed
<1>6. Pending'
  BY DEF Pending, Exclusive, Reads, SelectedExists, TypeOK, Challenge
<1>7. Once'
  BY DEF Once, SelectedExists, TypeOK
<1> QED BY <1>1, <1>2, <1>3, <1>4, <1>5, <1>6, <1>7

LEMMA FindAllCompletedInv ==
    ASSUME Inv, NEW a \in Sessions, FindAllCompleted(a)
    PROVE  Inv'
<1> USE DEF Inv, FindAllCompleted, Selecting
<1>1. TypeOK'
  BY DEF TypeOK, SelectedExists, Labels
<1>2. SelectedExists'
  BY DEF SelectedExists, TypeOK
<1>3. NotBeforeStart'
  BY PlanAssumption DEF NotBeforeStart, SelectedExists, TypeOK, Completed
<1>4. Exclusive'
  BY DEF Exclusive, Reads, SelectedExists, TypeOK
<1>5. Reads'
  BY DEF Reads, Exclusive, SelectedExists, TypeOK, Completed
<1>6. Pending'
  BY DEF Pending, Exclusive, Reads, SelectedExists, TypeOK, Challenge
<1>7. Once'
  BY DEF Once, SelectedExists, TypeOK
<1> QED BY <1>1, <1>2, <1>3, <1>4, <1>5, <1>6, <1>7

LEMMA SelectReadyInv ==
    ASSUME Inv, NEW a \in Sessions, SelectReady(a)
    PROVE  Inv'
<1> USE DEF Inv, SelectReady, Selecting, InStatus, Proceed
<1>1. TypeOK'
  BY DEF TypeOK, SelectedExists, Labels, Selecting, InStatus, Proceed
<1>2. SelectedExists'
  BY DEF SelectedExists, TypeOK
<1>3. NotBeforeStart'
  BY PlanAssumption DEF NotBeforeStart, SelectedExists, TypeOK, Completed
<1>4. Exclusive'
  BY DEF Exclusive, Reads, SelectedExists, TypeOK
<1>5. Reads'
  BY DEF Reads, Exclusive, SelectedExists, TypeOK, Completed
<1>6. Pending'
  BY DEF Pending, Exclusive, Reads, SelectedExists, TypeOK, Challenge
<1>7. Once'
  BY DEF Once, SelectedExists, TypeOK
<1> QED BY <1>1, <1>2, <1>3, <1>4, <1>5, <1>6, <1>7

LEMMA StartRunInv ==
    ASSUME Inv, NEW a \in Sessions, StartRun(a)
    PROVE  Inv'
<1> USE DEF Inv, StartRun, Proceed
<1>1. TypeOK'
  BY DEF TypeOK, SelectedExists, Labels, Proceed, RunStatus, Event, EventTypes
<1>2. SelectedExists'
  BY DEF SelectedExists, TypeOK
<1>3. NotBeforeStart'
  BY PlanAssumption DEF NotBeforeStart, SelectedExists, TypeOK, Completed
<1>4. Exclusive'
  BY DEF Exclusive, Reads, SelectedExists, TypeOK
<1>5. Reads'
  BY DEF Reads, Exclusive, SelectedExists, TypeOK, Completed
<1>6. Pending'
  BY DEF Pending, Exclusive, Reads, SelectedExists, TypeOK, Challenge
<1>7. Once'
  BY DEF Once, SelectedExists, TypeOK
<1> QED BY <1>1, <1>2, <1>3, <1>4, <1>5, <1>6, <1>7

LEMMA ParkInv ==
    ASSUME Inv, NEW a \in Sessions, Park(a)
    PROVE  Inv'
<1> USE DEF Inv, Park
<1>1. TypeOK'
  BY DEF TypeOK, SelectedExists, Labels, NoOutcome, Just, Outcome, Kinds, Levels, Event,
     EventTypes
<1>2. SelectedExists'
  BY DEF SelectedExists, TypeOK
<1>3. NotBeforeStart'
  BY PlanAssumption DEF NotBeforeStart, SelectedExists, TypeOK, Completed
<1>4. Exclusive'
  BY DEF Exclusive, Reads, SelectedExists, TypeOK
<1>5. Reads'
  BY DEF Reads, Exclusive, SelectedExists, TypeOK, Completed
<1>6. Pending'
  BY DEF Pending, Exclusive, Reads, SelectedExists, TypeOK, Challenge
<1>7. Once'
  BY DEF Once, SelectedExists, TypeOK
<1> QED BY <1>1, <1>2, <1>3, <1>4, <1>5, <1>6, <1>7

LEMMA ClaimInv ==
    ASSUME Inv, NEW a \in Sessions, Claim(a)
    PROVE  Inv'
<1> USE DEF Inv, Claim
<1>1. TypeOK'
  BY DEF TypeOK, SelectedExists, Labels, StepStatus, Event, EventTypes
<1>2. SelectedExists'
  BY DEF SelectedExists, TypeOK
<1>3. NotBeforeStart'
  BY PlanAssumption DEF NotBeforeStart, SelectedExists, TypeOK, Completed
<1>4. Exclusive'
  BY DEF Exclusive, Reads, SelectedExists, TypeOK
<1>5. Reads'
  BY DEF Reads, Exclusive, SelectedExists, TypeOK, Completed
<1>6. Pending'
  BY DEF Pending, Exclusive, Reads, SelectedExists, TypeOK, Challenge
<1>7. Once'
  BY DEF Once, SelectedExists, TypeOK
<1> QED BY <1>1, <1>2, <1>3, <1>4, <1>5, <1>6, <1>7

LEMMA DispatchRefusedInv ==
    ASSUME Inv, NEW a \in Sessions, DispatchRefused(a)
    PROVE  Inv'
<1> USE DEF Inv, DispatchRefused
<1>1. TypeOK'
  BY DEF TypeOK, SelectedExists, Labels
<1>2. SelectedExists'
  BY DEF SelectedExists, TypeOK
<1>3. NotBeforeStart'
  BY PlanAssumption DEF NotBeforeStart, SelectedExists, TypeOK, Completed
<1>4. Exclusive'
  BY DEF Exclusive, Reads, SelectedExists, TypeOK
<1>5. Reads'
  BY DEF Reads, Exclusive, SelectedExists, TypeOK, Completed
<1>6. Pending'
  BY DEF Pending, Exclusive, Reads, SelectedExists, TypeOK, Challenge
<1>7. Once'
  BY DEF Once, SelectedExists, TypeOK
<1> QED BY <1>1, <1>2, <1>3, <1>4, <1>5, <1>6, <1>7

LEMMA ExecuteInv ==
    ASSUME Inv, NEW a \in Sessions, Execute(a)
    PROVE  Inv'
<1> USE DEF Inv, Execute
<1>1. TypeOK'
  <2> PICK o \in Outcomes(sel[a]) :
         /\ out' = [out EXCEPT ![a] = o]
         /\ pc' = [pc EXCEPT ![a] = CASE o.kind = "error"     -> "failStep"
                                     [] o.kind = "cancelled" -> "cancelStep"
                                     [] OTHER                -> "link"]
    OBVIOUS
  <2>1. o \in Outcome
    <3>1. \A k \in Kinds : Just(k) \in Outcome
      BY DEF Just, Outcome, Kinds, Levels
    <3>2. Results(sel[a]) \subseteq Outcome
      <4> SUFFICES ASSUME NEW r \in Results(sel[a]) PROVE r \in Outcome
        OBVIOUS
      <4> QED BY DEF Results, Outcome, Kinds
    <3> QED BY <3>1, <3>2 DEF Outcomes, Kinds
  <2>2. pc' \in [Sessions -> Labels]
    BY DEF TypeOK, Labels
  <2>3. executed' \in [Steps -> Nat]
    <3>1. sel[a] \in Steps
      BY DEF SelectedExists
    <3> QED BY <3>1 DEF TypeOK
  <2> QED BY <2>1, <2>2, <2>3 DEF TypeOK
<1>2. SelectedExists'
  BY DEF SelectedExists, TypeOK
<1>3. NotBeforeStart'
  BY PlanAssumption DEF NotBeforeStart, SelectedExists, TypeOK, Completed
<1>4. Exclusive'
  BY DEF Exclusive, Reads, SelectedExists, TypeOK
<1>5. Reads'
  BY DEF Reads, Exclusive, SelectedExists, TypeOK, Completed
<1>6. Pending'
  BY DEF Pending, Exclusive, Reads, SelectedExists, TypeOK, Challenge
<1>7. Once'
  <2>1. executed' = [executed EXCEPT ![sel[a]] = @ + 1] /\ pc'[a] # "execute"
    BY DEF TypeOK
  <2>2. executed[sel[a]] = 0 /\ sel[a] \in Steps /\ step[sel[a]] = "RUNNING"
    BY DEF Once, SelectedExists, Exclusive
  <2>3. \A b \in Sessions : b # a => pc'[b] = pc[b] /\ sel'[b] = sel[b]
    BY DEF TypeOK
  <2>4. \A b \in Sessions : b # a /\ pc[b] = "execute" => sel[b] # sel[a]
    BY DEF Exclusive
  <2> QED BY <2>1, <2>2, <2>3, <2>4 DEF Once, TypeOK, SelectedExists
<1> QED BY <1>1, <1>2, <1>3, <1>4, <1>5, <1>6, <1>7

LEMMA LinkAgentRunInv ==
    ASSUME Inv, NEW a \in Sessions, LinkAgentRun(a)
    PROVE  Inv'
<1> USE DEF Inv, LinkAgentRun, AfterLink
<1>1. TypeOK'
  BY DEF TypeOK, SelectedExists, Labels, AgentStatusOf, AfterLink
<1>2. SelectedExists'
  BY DEF SelectedExists, TypeOK
<1>3. NotBeforeStart'
  BY PlanAssumption DEF NotBeforeStart, SelectedExists, TypeOK, Completed
<1>4. Exclusive'
  BY DEF Exclusive, Reads, SelectedExists, TypeOK
<1>5. Reads'
  BY DEF Reads, Exclusive, SelectedExists, TypeOK, Completed
<1>6. Pending'
  BY DEF Pending, Exclusive, Reads, SelectedExists, TypeOK, Challenge
<1>7. Once'
  BY DEF Once, SelectedExists, TypeOK
<1> QED BY <1>1, <1>2, <1>3, <1>4, <1>5, <1>6, <1>7

LEMMA SuspendInv ==
    ASSUME Inv, NEW a \in Sessions, Suspend(a)
    PROVE  Inv'
<1> USE DEF Inv, Suspend
<1>1. TypeOK'
  BY DEF TypeOK, SelectedExists, Labels, StepStatus, Event, EventTypes
<1>2. SelectedExists'
  BY DEF SelectedExists, TypeOK
<1>3. NotBeforeStart'
  BY PlanAssumption DEF NotBeforeStart, SelectedExists, TypeOK, Completed
<1>4. Exclusive'
  BY DEF Exclusive, Reads, SelectedExists, TypeOK
<1>5. Reads'
  BY DEF Reads, Exclusive, SelectedExists, TypeOK, Completed
<1>6. Pending'
  BY DEF Pending, Exclusive, Reads, SelectedExists, TypeOK, Challenge
<1>7. Once'
  BY DEF Once, SelectedExists, TypeOK
<1> QED BY <1>1, <1>2, <1>3, <1>4, <1>5, <1>6, <1>7

LEMMA RecordChallengeInv ==
    ASSUME Inv, NEW a \in Sessions, RecordChallenge(a)
    PROVE  Inv'
<1> USE DEF Inv, RecordChallenge
<1>1. TypeOK'
  BY DEF TypeOK, SelectedExists, Labels, NoOutcome, Just, Outcome, Kinds, Levels,
     Challenge, Decisions, HandoffOf, NextInPlan, Event, EventTypes
<1>2. SelectedExists'
  BY DEF SelectedExists, TypeOK
<1>3. NotBeforeStart'
  BY PlanAssumption DEF NotBeforeStart, SelectedExists, TypeOK, Completed
<1>4. Exclusive'
  BY DEF Exclusive, Reads, SelectedExists, TypeOK
<1>5. Reads'
  BY DEF Reads, Exclusive, SelectedExists, TypeOK, Completed
<1>6. Pending'
  BY DEF Pending, Exclusive, Reads, SelectedExists, TypeOK, Challenge
<1>7. Once'
  BY DEF Once, SelectedExists, TypeOK
<1> QED BY <1>1, <1>2, <1>3, <1>4, <1>5, <1>6, <1>7

LEMMA FailStepInv ==
    ASSUME Inv, NEW a \in Sessions, FailStep(a)
    PROVE  Inv'
<1> USE DEF Inv, FailStep
<1>1. TypeOK'
  BY DEF TypeOK, SelectedExists, Labels, StepStatus
<1>2. SelectedExists'
  BY DEF SelectedExists, TypeOK
<1>3. NotBeforeStart'
  BY PlanAssumption DEF NotBeforeStart, SelectedExists, TypeOK, Completed
<1>4. Exclusive'
  BY DEF Exclusive, Reads, SelectedExists, TypeOK
<1>5. Reads'
  BY DEF Reads, Exclusive, SelectedExists, TypeOK, Completed
<1>6. Pending'
  BY DEF Pending, Exclusive, Reads, SelectedExists, TypeOK, Challenge
<1>7. Once'
  BY DEF Once, SelectedExists, TypeOK
<1> QED BY <1>1, <1>2, <1>3, <1>4, <1>5, <1>6, <1>7

LEMMA FailRunInv ==
    ASSUME Inv, NEW a \in Sessions, FailRun(a)
    PROVE  Inv'
<1> USE DEF Inv, FailRun
<1>1. TypeOK'
  BY DEF TypeOK, SelectedExists, Labels, RunStatus, Event, EventTypes
<1>2. SelectedExists'
  BY DEF SelectedExists, TypeOK
<1>3. NotBeforeStart'
  BY PlanAssumption DEF NotBeforeStart, SelectedExists, TypeOK, Completed
<1>4. Exclusive'
  BY DEF Exclusive, Reads, SelectedExists, TypeOK
<1>5. Reads'
  BY DEF Reads, Exclusive, SelectedExists, TypeOK, Completed
<1>6. Pending'
  BY DEF Pending, Exclusive, Reads, SelectedExists, TypeOK, Challenge
<1>7. Once'
  BY DEF Once, SelectedExists, TypeOK
<1> QED BY <1>1, <1>2, <1>3, <1>4, <1>5, <1>6, <1>7

LEMMA CancelStepInv ==
    ASSUME Inv, NEW a \in Sessions, CancelStep(a)
    PROVE  Inv'
<1> USE DEF Inv, CancelStep
<1>1. TypeOK'
  BY DEF TypeOK, SelectedExists, Labels, StepStatus
<1>2. SelectedExists'
  BY DEF SelectedExists, TypeOK
<1>3. NotBeforeStart'
  BY PlanAssumption DEF NotBeforeStart, SelectedExists, TypeOK, Completed
<1>4. Exclusive'
  BY DEF Exclusive, Reads, SelectedExists, TypeOK
<1>5. Reads'
  BY DEF Reads, Exclusive, SelectedExists, TypeOK, Completed
<1>6. Pending'
  BY DEF Pending, Exclusive, Reads, SelectedExists, TypeOK, Challenge
<1>7. Once'
  BY DEF Once, SelectedExists, TypeOK
<1> QED BY <1>1, <1>2, <1>3, <1>4, <1>5, <1>6, <1>7

LEMMA CancelRunInv ==
    ASSUME Inv, NEW a \in Sessions, CancelRun(a)
    PROVE  Inv'
<1> USE DEF Inv, CancelRun
<1>1. TypeOK'
  BY DEF TypeOK, SelectedExists, Labels, RunStatus, NoOutcome, Just, Outcome, Kinds, Levels
<1>2. SelectedExists'
  BY DEF SelectedExists, TypeOK
<1>3. NotBeforeStart'
  BY PlanAssumption DEF NotBeforeStart, SelectedExists, TypeOK, Completed
<1>4. Exclusive'
  BY DEF Exclusive, Reads, SelectedExists, TypeOK
<1>5. Reads'
  BY DEF Reads, Exclusive, SelectedExists, TypeOK, Completed
<1>6. Pending'
  BY DEF Pending, Exclusive, Reads, SelectedExists, TypeOK, Challenge
<1>7. Once'
  BY DEF Once, SelectedExists, TypeOK
<1> QED BY <1>1, <1>2, <1>3, <1>4, <1>5, <1>6, <1>7

LEMMA CompleteStepInv ==
    ASSUME Inv, NEW a \in Sessions, CompleteStep(a)
    PROVE  Inv'
<1> USE DEF Inv, CompleteStep, Unlockable, InStatus
<1>1. TypeOK'
  BY DEF TypeOK, SelectedExists, Labels, Unlockable, InStatus
<1>2. SelectedExists'
  BY DEF SelectedExists, TypeOK
<1>3. NotBeforeStart'
  BY PlanAssumption DEF NotBeforeStart, SelectedExists, TypeOK, Completed
<1>4. Exclusive'
  BY DEF Exclusive, Reads, SelectedExists, TypeOK
<1>5. Reads'
  BY DEF Reads, Exclusive, SelectedExists, TypeOK, Completed
<1>6. Pending'
  BY DEF Pending, Exclusive, Reads, SelectedExists, TypeOK, Challenge
<1>7. Once'
  BY DEF Once, SelectedExists, TypeOK
<1> QED BY <1>1, <1>2, <1>3, <1>4, <1>5, <1>6, <1>7

LEMMA CommitStepInv ==
    ASSUME Inv, NEW a \in Sessions, CommitStep(a)
    PROVE  Inv'
<1> USE DEF Inv, CommitStep, CompletedWith
<1>1. TypeOK'
  BY DEF TypeOK, SelectedExists, Labels, StepStatus, CompletedWith, HandoffOf, NextInPlan,
     Event, EventTypes
<1>2. SelectedExists'
  BY DEF SelectedExists, TypeOK
<1>3. NotBeforeStart'
  BY PlanAssumption DEF NotBeforeStart, SelectedExists, TypeOK, Completed
<1>4. Exclusive'
  BY DEF Exclusive, Reads, SelectedExists, TypeOK
<1>5. Reads'
  BY DEF Reads, Exclusive, SelectedExists, TypeOK, Completed
<1>6. Pending'
  BY DEF Pending, Exclusive, Reads, SelectedExists, TypeOK, Challenge
<1>7. Once'
  BY DEF Once, Exclusive, Reads, SelectedExists, TypeOK
<1> QED BY <1>1, <1>2, <1>3, <1>4, <1>5, <1>6, <1>7

LEMMA CountStepsInv ==
    ASSUME Inv, NEW a \in Sessions, CountSteps(a)
    PROVE  Inv'
<1>1. CASE Completed # Steps
  BY <1>1, ReturnInv DEF CountSteps, Inv, TypeOK
<1>2. CASE Completed = Steps
  <2> USE DEF Inv
  <2>0. pc[a] = "count" /\ pc' = [pc EXCEPT ![a] = "completeRun"]
        /\ UNCHANGED <<rows, sel, out, ready, emit, history>>
    BY <1>2 DEF CountSteps
  <2> USE <2>0
  <2>1. TypeOK'
    BY DEF TypeOK, Labels
  <2>2. SelectedExists'
    BY DEF SelectedExists, TypeOK
  <2>3. NotBeforeStart'
    BY DEF NotBeforeStart, TypeOK
  <2>4. Exclusive'
    BY DEF Exclusive, SelectedExists, TypeOK
  <2>5. Reads'
    BY <1>2 DEF Reads, TypeOK, Completed
  <2>6. Pending'
    BY DEF Pending, TypeOK
  <2>7. Once'
    BY DEF Once, TypeOK
  <2> QED BY <2>1, <2>2, <2>3, <2>4, <2>5, <2>6, <2>7
<1> QED BY <1>1, <1>2

LEMMA CompleteRunInv ==
    ASSUME Inv, NEW a \in Sessions, CompleteRun(a)
    PROVE  Inv'
<1> USE DEF Inv, CompleteRun
<1>1. TypeOK'
  BY DEF TypeOK, SelectedExists, Labels, RunStatus, Event, EventTypes
<1>2. SelectedExists'
  BY DEF SelectedExists, TypeOK
<1>3. NotBeforeStart'
  BY PlanAssumption DEF NotBeforeStart, SelectedExists, TypeOK, Completed
<1>4. Exclusive'
  BY DEF Exclusive, Reads, SelectedExists, TypeOK
<1>5. Reads'
  BY DEF Reads, Exclusive, SelectedExists, TypeOK, Completed
<1>6. Pending'
  BY DEF Pending, Exclusive, Reads, SelectedExists, TypeOK, Challenge
<1>7. Once'
  BY DEF Once, SelectedExists, TypeOK
<1> QED BY <1>1, <1>2, <1>3, <1>4, <1>5, <1>6, <1>7

LEMMA ResolveInv ==
    ASSUME Inv, NEW a \in Sessions, NEW s \in Steps,
           NEW d \in {"ACCEPT_RESULT", "REJECT_RESULT"}, Resolve(a, s, d)
    PROVE  Inv'
<1> USE DEF Inv, Resolve, InStatus
<1>1. TypeOK'
  BY DEF TypeOK, Labels
<1>2. SelectedExists'
  BY DEF SelectedExists, TypeOK
<1>3. NotBeforeStart'
  BY PlanAssumption DEF NotBeforeStart, SelectedExists, TypeOK, Completed
<1>4. Exclusive'
  BY DEF Exclusive, Pending, SelectedExists, TypeOK
<1>5. Reads'
  BY DEF Reads, Exclusive, SelectedExists, TypeOK, Completed
<1>6. Pending'
  BY DEF Pending, Exclusive, Reads, SelectedExists, TypeOK, Challenge
<1>7. Once'
  BY DEF Once, SelectedExists, TypeOK
<1> QED BY <1>1, <1>2, <1>3, <1>4, <1>5, <1>6, <1>7

LEMMA CommitFailedInv ==
    ASSUME Inv, NEW a \in Sessions, CommitFailed(a)
    PROVE  Inv'
<1> USE DEF Inv, CommitFailed, Decide
<1>1. TypeOK'
  <2>1. sel[a] \in Steps
    BY DEF SelectedExists
  <2>2. events' \in SUBSET Event
    BY <2>1 DEF TypeOK, Event, EventTypes
  <2>3. challenge' \in [Steps -> Challenge]
    BY <2>1, ZenonT(40) DEF TypeOK, Challenge, Decisions
  <2>4. step' \in [Steps -> StepStatus]
    BY <2>1 DEF TypeOK, StepStatus
  <2> QED BY <2>2, <2>3, <2>4 DEF TypeOK, Labels, RunStatus, NoOutcome, Just, Outcome, Kinds, Levels
<1>2. SelectedExists'
  BY DEF SelectedExists, TypeOK
<1>3. NotBeforeStart'
  BY PlanAssumption DEF NotBeforeStart, SelectedExists, TypeOK, Completed
<1>4. Exclusive'
  BY DEF Exclusive, Reads, SelectedExists, TypeOK
<1>5. Reads'
  BY DEF Reads, Exclusive, SelectedExists, TypeOK, Completed
<1>6. Pending'
  BY DEF Pending, Exclusive, Reads, SelectedExists, TypeOK, Challenge
<1>7. Once'
  BY DEF Once, SelectedExists, TypeOK
<1> QED BY <1>1, <1>2, <1>3, <1>4, <1>5, <1>6, <1>7

LEMMA ApplyAcceptedInv ==
    ASSUME Inv, NEW a \in Sessions, ApplyAccepted(a)
    PROVE  Inv'
<1> USE DEF Inv, ApplyAccepted, Unlockable, InStatus
<1>1. TypeOK'
  BY DEF TypeOK, SelectedExists, Labels, Unlockable, InStatus
<1>2. SelectedExists'
  BY DEF SelectedExists, TypeOK
<1>3. NotBeforeStart'
  BY PlanAssumption DEF NotBeforeStart, SelectedExists, TypeOK, Completed
<1>4. Exclusive'
  BY DEF Exclusive, Reads, SelectedExists, TypeOK
<1>5. Reads'
  BY DEF Reads, Exclusive, SelectedExists, TypeOK, Completed
<1>6. Pending'
  BY DEF Pending, Exclusive, Reads, SelectedExists, TypeOK, Challenge
<1>7. Once'
  BY DEF Once, SelectedExists, TypeOK
<1> QED BY <1>1, <1>2, <1>3, <1>4, <1>5, <1>6, <1>7

LEMMA CommitAcceptedInv ==
    ASSUME Inv, NEW a \in Sessions, CommitAccepted(a)
    PROVE  Inv'
<1> USE DEF Inv, CommitAccepted, CompletedWith, Decide
<1>1. TypeOK'
  <2>1. sel[a] \in Steps
    BY DEF SelectedExists
  <2>2. events' \in SUBSET Event
    BY <2>1 DEF TypeOK, Event, EventTypes
  <2>3. challenge' \in [Steps -> Challenge]
    BY <2>1 DEF TypeOK, Challenge, Decisions
  <2>4. step' \in [Steps -> StepStatus]
    BY <2>1 DEF TypeOK, StepStatus
  <2> QED BY <2>2, <2>3, <2>4 DEF TypeOK, Labels, RunStatus, NoOutcome, Just, Outcome, Kinds, Levels
<1>2. SelectedExists'
  BY DEF SelectedExists, TypeOK
<1>3. NotBeforeStart'
  BY PlanAssumption DEF NotBeforeStart, SelectedExists, TypeOK, Completed
<1>4. Exclusive'
  BY DEF Exclusive, Reads, SelectedExists, TypeOK
<1>5. Reads'
  BY DEF Reads, Exclusive, SelectedExists, TypeOK, Completed
<1>6. Pending'
  BY DEF Pending, Exclusive, Reads, SelectedExists, TypeOK, Challenge
<1>7. Once'
  BY DEF Once, Exclusive, Reads, SelectedExists, TypeOK
<1> QED BY <1>1, <1>2, <1>3, <1>4, <1>5, <1>6, <1>7

LEMMA CommitAcceptedLastInv ==
    ASSUME Inv, NEW a \in Sessions, CommitAcceptedLast(a)
    PROVE  Inv'
<1> USE DEF Inv, CommitAcceptedLast, CompletedWith, Decide
<1>1. TypeOK'
  <2>1. sel[a] \in Steps
    BY DEF SelectedExists
  <2>2. events' \in SUBSET Event
    BY <2>1 DEF TypeOK, Event, EventTypes
  <2>3. challenge' \in [Steps -> Challenge]
    BY <2>1 DEF TypeOK, Challenge, Decisions
  <2>4. step' \in [Steps -> StepStatus]
    BY <2>1 DEF TypeOK, StepStatus
  <2> QED BY <2>2, <2>3, <2>4 DEF TypeOK, Labels, RunStatus, NoOutcome, Just, Outcome, Kinds, Levels
<1>2. SelectedExists'
  BY DEF SelectedExists, TypeOK
<1>3. NotBeforeStart'
  BY PlanAssumption DEF NotBeforeStart, SelectedExists, TypeOK, Completed
<1>4. Exclusive'
  BY DEF Exclusive, Reads, SelectedExists, TypeOK
<1>5. Reads'
  BY DEF Reads, Exclusive, SelectedExists, TypeOK, Completed
<1>6. Pending'
  BY DEF Pending, Exclusive, Reads, SelectedExists, TypeOK, Challenge
<1>7. Once'
  BY DEF Once, Exclusive, Reads, SelectedExists, TypeOK
<1> QED BY <1>1, <1>2, <1>3, <1>4, <1>5, <1>6, <1>7

LEMMA AppendEventInv ==
    ASSUME Inv, NEW a \in Sessions, AppendEvent(a)
    PROVE  Inv'
<1> USE DEF Inv, AppendEvent
<1>1. emit[a] \in Seq(Event) /\ emit[a] # <<>>
  BY DEF TypeOK
<1>2. Head(emit[a]) \in Event /\ Tail(emit[a]) \in Seq(Event)
  BY <1>1, HeadTailProperties
<1>3. CASE pc[a] = "return" /\ Len(emit[a]) = 1
  <2>1. TypeOK'
    <3>1. events' \in SUBSET Event
      BY <1>2 DEF TypeOK
    <3>2. UNCHANGED <<run, step, agent, challenge, handoff, executed, crashes>>
      OBVIOUS
    <3>3. Return(a)
      BY <1>3
    <3> QED
      BY <3>1, <3>2, <3>3 DEF TypeOK, NoOutcome, Just, Outcome, Kinds, Levels, Labels
  <2>2. pc' = [pc EXCEPT ![a] = "idle"] /\ ready' = [ready EXCEPT ![a] = {}]
        /\ sel' = [sel EXCEPT ![a] = NoStep]
    BY <1>3
  <2>3. UNCHANGED <<run, step, challenge, executed>>
    OBVIOUS
  <2>4. SelectedExists' /\ NotBeforeStart'
    BY <2>2, <2>3 DEF SelectedExists, NotBeforeStart, TypeOK
  <2>5. Exclusive'
    BY <2>2, <2>3 DEF Exclusive, TypeOK
  <2>6. Reads'
    BY <2>2, <2>3 DEF Reads, TypeOK, Completed
  <2>7. Pending' /\ Once'
    BY <2>2, <2>3 DEF Pending, Once, TypeOK
  <2> QED BY <2>1, <2>4, <2>5, <2>6, <2>7
<1>4. CASE ~(pc[a] = "return" /\ Len(emit[a]) = 1)
  <2>1. UNCHANGED <<run, step, agent, challenge, handoff, pc, sel, out, ready, executed, crashes>>
    BY <1>4
  <2>2. emit' = [emit EXCEPT ![a] = Tail(emit[a])] /\ events' = events \cup {Head(emit[a])}
    BY <1>4
  <2>3. TypeOK'
    BY <1>2, <2>1, <2>2 DEF TypeOK
  <2> QED
    BY <2>1, <2>3 DEF SelectedExists, NotBeforeStart, Exclusive, Reads, Pending, Once, Completed
<1> QED BY <1>3, <1>4

LEMMA CommitRequestHandoffInv == Inv /\ CommitRequestHandoff => Inv'
BY DEF Inv, CommitRequestHandoff, TypeOK, SelectedExists, NotBeforeStart, Exclusive, Reads,
   Pending, Once, Completed

-----------------------------------------------------------------------------
LEMMA NextInv == Inv /\ [Next]_vars => Inv'
<1> SUFFICES ASSUME Inv, [Next]_vars PROVE Inv'
  OBVIOUS
<1>1. CASE UNCHANGED vars
  BY <1>1 DEF vars, Inv, TypeOK, SelectedExists, NotBeforeStart, Exclusive, Reads, Pending, Once,
     Completed
<1>2. ASSUME NEW a \in Advancers, ReportTerminal(a) PROVE Inv'
  BY <1>1, <1>2 DEF ReportTerminal
<1>3. ASSUME NEW a \in Advancers, ReadRun(a) PROVE Inv'
  BY <1>3, ReadRunInv
<1>4. ASSUME NEW a \in Sessions,
             FindNoneReady(a) \/ StartConflict(a) \/ LeaveUnassigned(a) \/ ClaimConflict(a) \/ RunConflict(a)
             \/ ResolveConflict(a) \/ Crash(a)
      PROVE Inv'
  <2>1. Return(a) /\ UNCHANGED <<rows, executed>> /\ crashes' \in Nat
    BY <1>4 DEF Inv, TypeOK, FindNoneReady, StartConflict, LeaveUnassigned, ClaimConflict,
       RunConflict,
       ResolveConflict, Crash
  <2> QED BY <2>1, ReturnInv
<1>5. ASSUME NEW a \in Advancers, Advance(a) PROVE Inv'
  BY <1>4, <1>5, FindAllCompletedInv, SelectReadyInv, StartRunInv, ParkInv, ClaimInv,
     DispatchRefusedInv, ExecuteInv, LinkAgentRunInv, SuspendInv, RecordChallengeInv, FailStepInv,
     FailRunInv, CancelStepInv, CancelRunInv, CompleteStepInv, CommitStepInv, CountStepsInv,
     CompleteRunInv DEF Advance
<1>6. ASSUME NEW a \in Humans, Resolution(a) PROVE Inv'
  BY <1>4, <1>6, CommitFailedInv, ApplyAcceptedInv, CommitAcceptedInv, CommitAcceptedLastInv
     DEF Resolution
<1> QED
  BY <1>1, <1>2, <1>3, <1>4, <1>5, <1>6, ResolveInv, AppendEventInv, CommitRequestHandoffInv
     DEF Next

\* The inductive invariant holds in every behaviour.
THEOREM OrchestratorInvariant == Spec => []Inv
<1>1. Init => Inv
  BY InitInv
<1>2. Inv /\ [Next]_vars => Inv'
  BY NextInv
<1> QED BY <1>1, <1>2, PTL DEF Spec

\* Type correctness of advance and resolve, for every plan and any number of
\* concurrent requests.
THEOREM OrchestratorTypeOK == Spec => []TypeOK
BY OrchestratorInvariant, PTL DEF Inv

\* No interleaving of advances, and no crash, executes the agent of one step
\* twice: the claim of transition_step has one winner.
THEOREM AgentExecutedOnce == Spec => []ExecutedOnce
<1>1. Inv => ExecutedOnce
  BY DEF Inv, Once, ExecutedOnce
<1> QED BY <1>1, OrchestratorInvariant, PTL

-----------------------------------------------------------------------------
(* The abstract specification, for every plan graph.  LifecycleInv is      *)
(* inductive as it stands: a step status only moves along Moves or into    *)
(* COMPLETED from RUNNING, so what is COMPLETED stays so, and a dependency *)
(* satisfied once is satisfied forever.                                    *)

LifecycleInv == Lifecycle!TypeOK /\ Lifecycle!DependencyOrder /\ Lifecycle!OutcomeJustified

\* What every transition does to one step: it keeps its status, follows
\* Moves, completes a RUNNING step, or unlocks a PENDING one whose
\* dependencies are COMPLETED in the new state.
LifecycleStepChange(s) ==
    \/ step'[s] = step[s]
    \/ <<step[s], step'[s]>> \in Lifecycle!Moves
    \/ step[s] = "RUNNING" /\ step'[s] = "COMPLETED"
    \/ step[s] = "PENDING" /\ step'[s] = "READY" /\ Lifecycle!Satisfied(s, Lifecycle!Completed')

\* Publishing a completion changes every step in one of the allowed ways.
LEMMA PublishChanges ==
    ASSUME Lifecycle!TypeOK, NEW s \in Steps, NEW unlocked \in SUBSET Steps, Lifecycle!Publish(s, unlocked)
    PROVE  step' \in [Steps -> Lifecycle!StepStatus] /\ \A x \in Steps : LifecycleStepChange(x)
<1>1. step' \in [Steps -> Lifecycle!StepStatus]
  BY DEF Lifecycle!Publish, Lifecycle!TypeOK, Lifecycle!StepStatus
<1>2. ASSUME NEW x \in Steps PROVE LifecycleStepChange(x)
  <2>1. CASE x = s
    BY <2>1 DEF Lifecycle!Publish, LifecycleStepChange
  <2>2. CASE x # s /\ x \in unlocked
    <3>1. step[x] = "PENDING" /\ step'[x] = "READY"
      BY <2>2 DEF Lifecycle!Publish
    <3>2. Lifecycle!Completed \cup {s} \subseteq Lifecycle!Completed'
      BY DEF Lifecycle!Publish, Lifecycle!Completed
    <3> QED BY <2>2, <3>1, <3>2 DEF Lifecycle!Publish, LifecycleStepChange, Lifecycle!Satisfied
  <2>3. CASE x # s /\ x \notin unlocked
    BY <2>3 DEF Lifecycle!Publish, LifecycleStepChange
  <2> QED BY <2>1, <2>2, <2>3
<1> QED BY <1>1, <1>2

\* Every action changes every step in one of the allowed ways.
LEMMA TransitionChanges ==
    ASSUME Lifecycle!TypeOK, [Lifecycle!Next]_(Lifecycle!vars)
    PROVE  step' \in [Steps -> Lifecycle!StepStatus] /\ \A x \in Steps : LifecycleStepChange(x)
<1>1. CASE UNCHANGED step
  BY <1>1 DEF LifecycleStepChange, Lifecycle!TypeOK
<1>2. CASE Lifecycle!Start \/ Lifecycle!End
  BY <1>1, <1>2 DEF Lifecycle!Start, Lifecycle!End
<1>3. ASSUME NEW s \in Steps, Lifecycle!Move(s)
      PROVE step' \in [Steps -> Lifecycle!StepStatus] /\ \A x \in Steps : LifecycleStepChange(x)
  <2>1. PICK m \in Lifecycle!Moves : step[s] = m[1] /\ step' = [step EXCEPT ![s] = m[2]]
    BY <1>3 DEF Lifecycle!Move
  <2>2. m = <<m[1], m[2]>> /\ m[2] \in Lifecycle!StepStatus
    BY DEF Lifecycle!Moves, Lifecycle!StepStatus
  <2> QED BY <2>1, <2>2 DEF LifecycleStepChange, Lifecycle!TypeOK
<1>4. ASSUME NEW s \in Steps, Lifecycle!Complete(s)
      PROVE step' \in [Steps -> Lifecycle!StepStatus] /\ \A x \in Steps : LifecycleStepChange(x)
  BY <1>4, PublishChanges DEF Lifecycle!Complete
<1>5. ASSUME NEW s \in Steps, Lifecycle!FailTogether(s)
      PROVE step' \in [Steps -> Lifecycle!StepStatus] /\ \A x \in Steps : LifecycleStepChange(x)
  BY <1>5 DEF Lifecycle!FailTogether, LifecycleStepChange, Lifecycle!Moves, Lifecycle!TypeOK,
     Lifecycle!StepStatus
<1>6. ASSUME NEW s \in Steps, Lifecycle!CompleteTogether(s)
      PROVE step' \in [Steps -> Lifecycle!StepStatus] /\ \A x \in Steps : LifecycleStepChange(x)
  BY <1>6, PublishChanges DEF Lifecycle!CompleteTogether
<1> QED BY <1>1, <1>2, <1>3, <1>4, <1>5, <1>6 DEF Lifecycle!Next, Lifecycle!vars

\* A terminal step status has no way out of LifecycleStepChange.
LEMMA TerminalStepStays ==
    ASSUME NEW s \in Steps, LifecycleStepChange(s), step[s] \in Lifecycle!StepTerminal
    PROVE  step'[s] = step[s]
BY DEF LifecycleStepChange, Lifecycle!Moves, Lifecycle!StepTerminal

LEMMA LifecycleCompletedGrows ==
    ASSUME \A x \in Steps : LifecycleStepChange(x)
    PROVE  Lifecycle!Completed \subseteq Lifecycle!Completed'
BY TerminalStepStays DEF Lifecycle!Completed, Lifecycle!StepTerminal

\* A justified terminal status stays justified.
LEMMA JustifiedStays ==
    ASSUME \A x \in Steps : LifecycleStepChange(x), NEW status \in Lifecycle!RunTerminal, Lifecycle!Justified(status, step)
    PROVE  Lifecycle!Justified(status, step')
BY TerminalStepStays DEF Lifecycle!Justified, Lifecycle!StepTerminal, Lifecycle!RunTerminal

LEMMA LifecycleInitInv == Lifecycle!Init => LifecycleInv
<1> SUFFICES ASSUME Lifecycle!Init PROVE LifecycleInv
  OBVIOUS
<1>1. Lifecycle!TypeOK
  BY DEF Lifecycle!Init, Lifecycle!InitialStep, Lifecycle!TypeOK, Lifecycle!RunStatus,
     Lifecycle!StepStatus
<1>2. Lifecycle!DependencyOrder
  BY DEF Lifecycle!Init, Lifecycle!InitialStep, Lifecycle!DependencyOrder, Lifecycle!Satisfied
<1>3. Lifecycle!OutcomeJustified
  BY DEF Lifecycle!Init, Lifecycle!OutcomeJustified, Lifecycle!RunTerminal
<1> QED BY <1>1, <1>2, <1>3 DEF LifecycleInv

LEMMA LifecycleNextInv == LifecycleInv /\ [Lifecycle!Next]_(Lifecycle!vars) => LifecycleInv'
<1> SUFFICES ASSUME LifecycleInv, [Lifecycle!Next]_(Lifecycle!vars) PROVE LifecycleInv'
  OBVIOUS
<1> USE DEF LifecycleInv
<1>1. step' \in [Steps -> Lifecycle!StepStatus] /\ \A x \in Steps : LifecycleStepChange(x)
  BY TransitionChanges
<1>2. Lifecycle!TypeOK'
  BY <1>1 DEF Lifecycle!TypeOK, Lifecycle!Next, Lifecycle!vars, Lifecycle!Start, Lifecycle!End,
     Lifecycle!Move, Lifecycle!Complete, Lifecycle!FailTogether,
     Lifecycle!CompleteTogether, Lifecycle!RunStatus, Lifecycle!RunTerminal
<1>3. Lifecycle!DependencyOrder'
  <2> SUFFICES ASSUME NEW s \in Steps, step'[s] \notin {"PENDING", "CANCELLED"}
               PROVE  Lifecycle!Satisfied(s, Lifecycle!Completed')
    BY DEF Lifecycle!DependencyOrder
  <2>1. CASE step[s] \notin {"PENDING", "CANCELLED"}
    BY <2>1, <1>1, LifecycleCompletedGrows DEF Lifecycle!DependencyOrder, Lifecycle!Satisfied
  <2>2. CASE step[s] \in {"PENDING", "CANCELLED"}
    BY <2>2, <1>1 DEF LifecycleStepChange, Lifecycle!Moves
  <2> QED BY <2>1, <2>2
<1>4. Lifecycle!OutcomeJustified'
  <2> SUFFICES ASSUME run' \in Lifecycle!RunTerminal PROVE Lifecycle!Justified(run', step')
    BY DEF Lifecycle!OutcomeJustified
  <2>1. CASE run' = run
    BY <2>1, <1>1, JustifiedStays DEF Lifecycle!OutcomeJustified
  <2>2. CASE Lifecycle!End
    BY <2>2 DEF Lifecycle!End, Lifecycle!RunTerminal, Lifecycle!Justified
  <2>3. ASSUME NEW s \in Steps, Lifecycle!FailTogether(s) PROVE Lifecycle!Justified(run', step')
    BY <2>3 DEF Lifecycle!FailTogether, Lifecycle!Justified, Lifecycle!TypeOK
  <2>4. ASSUME NEW s \in Steps, Lifecycle!CompleteTogether(s) PROVE Lifecycle!Justified(run', step')
    BY <2>4 DEF Lifecycle!CompleteTogether
  <2>5. CASE Lifecycle!Start
    BY <2>5 DEF Lifecycle!Start, Lifecycle!RunTerminal
  <2> QED
    BY <2>1, <2>2, <2>3, <2>4, <2>5 DEF Lifecycle!Next, Lifecycle!vars, Lifecycle!Move,
       Lifecycle!Complete
<1> QED BY <1>2, <1>3, <1>4

\* Type correctness and both safety invariants of the lifecycle, for every
\* plan graph (workflows/service.py transition_step and _transition_run).
THEOREM LifecycleInvariant == Lifecycle!Spec => []LifecycleInv
<1>1. Lifecycle!Init => LifecycleInv
  BY LifecycleInitInv
<1>2. LifecycleInv /\ [Lifecycle!Next]_(Lifecycle!vars) => LifecycleInv'
  BY LifecycleNextInv
<1> QED BY <1>1, <1>2, PTL DEF Lifecycle!Spec

\* A step leaves PENDING only after its dependencies, in every behaviour.
THEOREM LifecycleDependencyOrder == Lifecycle!Spec => []Lifecycle!DependencyOrder
BY LifecycleInvariant, PTL DEF LifecycleInv

\* A run's terminal status is justified by its steps, in every behaviour.
THEOREM LifecycleOutcomeJustified == Lifecycle!Spec => []Lifecycle!OutcomeJustified
BY LifecycleInvariant, PTL DEF LifecycleInv

\* No transition leaves a terminal status of the run or of a step.
THEOREM LifecycleTerminalIsFinal == Lifecycle!Spec => Lifecycle!TerminalIsFinal
<1>1. LifecycleInv /\ [Lifecycle!Next]_(Lifecycle!vars) =>
        [ /\ run \in Lifecycle!RunTerminal => run' = run
          /\ \A s \in Steps : step[s] \in Lifecycle!StepTerminal => step'[s] = step[s] ]_(Lifecycle!vars)
  <2> SUFFICES ASSUME LifecycleInv, [Lifecycle!Next]_(Lifecycle!vars)
               PROVE  /\ run \in Lifecycle!RunTerminal => run' = run
                      /\ \A s \in Steps : step[s] \in Lifecycle!StepTerminal => step'[s] = step[s]
    OBVIOUS
  <2>1. \A x \in Steps : LifecycleStepChange(x)
    BY TransitionChanges DEF LifecycleInv
  <2>2. run \in Lifecycle!RunTerminal => run' = run
    BY DEF Lifecycle!Next, Lifecycle!vars, Lifecycle!Start, Lifecycle!End, Lifecycle!Move,
       Lifecycle!Complete, Lifecycle!FailTogether, Lifecycle!CompleteTogether,
       Lifecycle!RunTerminal
  <2> QED BY <2>1, <2>2, TerminalStepStays
<1> QED BY <1>1, LifecycleInvariant, PTL DEF Lifecycle!Spec, Lifecycle!TerminalIsFinal

-----------------------------------------------------------------------------
(* The refinement: each action is a lifecycle transition or leaves the run *)
(* and its steps alone, and what is proved of the lifecycle then holds of  *)
(* the orchestrator.                                                       *)

\* One transition of the lifecycle, or none.
Transition == [Lifecycle!Next]_(Lifecycle!vars)

USE DEF Transition, Lifecycle!Next, Lifecycle!vars


LEMMA StartIsTransition ==
    ASSUME NEW a \in Sessions, StartRun(a)
    PROVE  Transition
BY DEF StartRun, Lifecycle!Start

\* The single-row updates of transition_step that complete nothing.
LEMMA MoveIsTransition ==
    ASSUME Inv, NEW a \in Sessions,
           Claim(a) \/ Suspend(a) \/ FailStep(a) \/ CancelStep(a)
    PROVE  Transition
<1>1. sel[a] \in Steps /\ run # "CREATED" /\ run' = run
  BY DEF Inv, SelectedExists, NotBeforeStart, Claim, Suspend, FailStep, CancelStep
<1>2. ASSUME NEW from, NEW to, <<from, to>> \in Lifecycle!Moves,
             step[sel[a]] = from, step' = [step EXCEPT ![sel[a]] = to]
      PROVE  Transition
  BY <1>1, <1>2 DEF Lifecycle!Move
<1>3. CASE Claim(a)
  BY <1>2, <1>3 DEF Claim, Lifecycle!Moves
<1>4. CASE Suspend(a)
  BY <1>2, <1>4 DEF Suspend, Lifecycle!Moves
<1>5. CASE FailStep(a)
  BY <1>2, <1>5 DEF FailStep, Lifecycle!Moves
<1>6. CASE CancelStep(a)
  BY <1>2, <1>6 DEF CancelStep, Lifecycle!Moves
<1> QED BY <1>3, <1>4, <1>5, <1>6

\* fail_run, cancel_run and complete_run: the step that justifies the status
\* was settled by an earlier commit, and is still what it was.
LEMMA EndIsTransition ==
    ASSUME Inv, NEW a \in Sessions, FailRun(a) \/ CancelRun(a) \/ CompleteRun(a)
    PROVE  Transition
<1>1. run = "RUNNING" /\ UNCHANGED step
  BY DEF FailRun, CancelRun, CompleteRun
<1>2. run' \in Lifecycle!RunTerminal
  BY DEF FailRun, CancelRun, CompleteRun, Lifecycle!RunTerminal
<1>3. Lifecycle!Justified(run', step)
  <2>1. CASE FailRun(a)
    BY <2>1 DEF FailRun, Inv, Reads, SelectedExists, Lifecycle!Justified
  <2>2. CASE CancelRun(a)
    BY <2>2 DEF CancelRun, Inv, Reads, SelectedExists, Lifecycle!Justified
  <2>3. CASE CompleteRun(a)
    BY <2>3 DEF CompleteRun, Inv, Reads, Completed, Lifecycle!Justified
  <2> QED BY <2>1, <2>2, <2>3
<1> QED BY <1>1, <1>2, <1>3 DEF Lifecycle!End

\* What a session read before its commit still allows the completion when it
\* commits, whatever was committed in between.
LEMMA CompletionIsPublished ==
    ASSUME Inv, NEW a \in Sessions, pc[a] \in {"commit", "acceptCommit", "acceptLast"},
           step' = CompletedWith(sel[a], ready[a])
    PROVE  Lifecycle!Publish(sel[a], ready[a])
<1>1. step[sel[a]] = "RUNNING"
  BY DEF Inv, Exclusive
<1>2. \A d \in ready[a] : step[d] = "PENDING" /\ DependsOn[d] \subseteq Completed \cup {sel[a]}
  BY DEF Inv, Reads
<1> QED BY <1>1, <1>2 DEF CompletedWith, Completed, Lifecycle!Publish, Lifecycle!Satisfied,
           Lifecycle!Completed

LEMMA CommitIsTransition ==
    ASSUME Inv, NEW a \in Sessions, CommitStep(a) \/ CommitAccepted(a)
    PROVE  Transition
<1>1. sel[a] \in Steps /\ run # "CREATED" /\ run' = run /\ ready[a] \in SUBSET Steps
  BY DEF Inv, TypeOK, SelectedExists, NotBeforeStart, CommitStep, CommitAccepted
<1>2. Lifecycle!Publish(sel[a], ready[a])
  BY CompletionIsPublished DEF CommitStep, CommitAccepted
<1> QED BY <1>1, <1>2 DEF Lifecycle!Complete

\* The acceptance of the last step: nothing is left to unlock, and every
\* step is COMPLETED when the run is.
LEMMA AcceptLastIsTransition ==
    ASSUME Inv, NEW a \in Sessions, CommitAcceptedLast(a)
    PROVE  Transition
<1>1. sel[a] \in Steps /\ step[sel[a]] = "RUNNING"
  BY DEF Inv, SelectedExists, Exclusive, CommitAcceptedLast
<1>2. Completed \cup {sel[a]} = Steps
  BY DEF Inv, Reads, CommitAcceptedLast
<1>3. ready[a] = {}
  <2> SUFFICES ASSUME NEW d \in ready[a] PROVE FALSE
    OBVIOUS
  <2>1. d \in Steps /\ step[d] = "PENDING"
    BY DEF Inv, TypeOK, Reads, CommitAcceptedLast
  <2>2. d = sel[a] \/ step[d] = "COMPLETED"
    BY <2>1, <1>2 DEF Completed
  <2> QED BY <2>1, <2>2, <1>1
<1>4. Lifecycle!Publish(sel[a], {})
  BY <1>3, CompletionIsPublished DEF CommitAcceptedLast
<1>5. Lifecycle!Justified("COMPLETED", step')
  <2> SUFFICES ASSUME NEW s \in Steps PROVE step'[s] = "COMPLETED"
    BY DEF Lifecycle!Justified
  <2>1. s = sel[a] \/ step[s] = "COMPLETED"
    BY <1>2 DEF Completed
  <2> QED BY <2>1, <1>3 DEF CommitAcceptedLast, CompletedWith
<1> QED BY <1>1, <1>4, <1>5 DEF CommitAcceptedLast, Lifecycle!CompleteTogether

LEMMA FailBothIsTransition ==
    ASSUME Inv, NEW a \in Sessions, CommitFailed(a)
    PROVE  Transition
BY DEF Inv, SelectedExists, CommitFailed, Lifecycle!FailTogether

LEMMA NextIsTransition == Inv /\ [Next]_vars => Transition
<1> SUFFICES ASSUME Inv, [Next]_vars PROVE Transition
  OBVIOUS
<1>1. CASE UNCHANGED <<run, step>>
  BY <1>1
<1>2. ASSUME NEW a \in Advancers, Advance(a) PROVE Transition
  <2>1. CASE StartRun(a)
    BY <2>1, StartIsTransition
  <2>2. CASE Claim(a) \/ Suspend(a) \/ FailStep(a) \/ CancelStep(a)
    BY <2>2, MoveIsTransition
  <2>3. CASE FailRun(a) \/ CancelRun(a) \/ CompleteRun(a)
    BY <2>3, EndIsTransition
  <2>4. CASE CommitStep(a)
    BY <2>4, CommitIsTransition
  <2> QED
    BY <1>1, <1>2, <2>1, <2>2, <2>3, <2>4
       DEF Advance, FindAllCompleted, FindNoneReady, SelectReady, StartConflict, Park, LeaveUnassigned,
           ClaimConflict, DispatchRefused, Execute, LinkAgentRun, RecordChallenge, CompleteStep,
           CountSteps, RunConflict
<1>3. ASSUME NEW a \in Humans, Resolution(a) PROVE Transition
  BY <1>1, <1>3, FailBothIsTransition, CommitIsTransition, AcceptLastIsTransition
     DEF Resolution, ApplyAccepted, ResolveConflict
<1> QED
  BY <1>1, <1>2, <1>3
     DEF Next, vars, ReportTerminal, ReadRun, Resolve, AppendEvent, Crash, CommitRequestHandoff

\* advance and resolve make only the lifecycle's transitions, whatever the
\* interleaving of their commits and whichever requests die.
THEOREM OrchestratorImplementsLifecycle == Spec => ImplementsLifecycle
<1>1. Init => Lifecycle!Init
  BY DEF Init, Lifecycle!Init, Lifecycle!InitialStep
<1>2. Inv /\ [Next]_vars => Transition
  BY NextIsTransition
<1> QED BY <1>1, <1>2, OrchestratorInvariant, PTL
           DEF Spec, ImplementsLifecycle, Lifecycle!Spec

\* A step leaves PENDING only when all it depends on is COMPLETED, whichever
\* sessions complete its dependencies and whenever they commit.
THEOREM OrchestratorDependencyOrder == Spec => []DependencyOrder
<1>1. Lifecycle!DependencyOrder <=> DependencyOrder
  BY DEF DependencyOrder
<1> QED
  BY <1>1, OrchestratorImplementsLifecycle, LifecycleDependencyOrder, PTL DEF ImplementsLifecycle

\* A run ends COMPLETED, FAILED or CANCELLED only as its steps justify.
THEOREM OrchestratorOutcomeJustified == Spec => []OutcomeJustified
<1>1. Lifecycle!OutcomeJustified <=> OutcomeJustified
  BY DEF OutcomeJustified
<1> QED
  BY <1>1, OrchestratorImplementsLifecycle, LifecycleOutcomeJustified, PTL DEF ImplementsLifecycle

HIDE DEF Transition, Lifecycle!Next, Lifecycle!vars

-----------------------------------------------------------------------------
(* The events.  An event is queued by the commit it reports, or after it,  *)
(* and what it says is a terminal status, which no transition of the       *)
(* lifecycle takes back.                                                   *)

\* What an event, appended or still queued, says of the rows.
Says(e) ==
    /\ e[1] = "run.completed" => run = "COMPLETED"
    /\ e[1] = "run.failed" => run = "FAILED"
    /\ e[1] = "step.completed" => e[2] \in Steps /\ step[e[2]] = "COMPLETED"
    /\ e[1] = "step.failed" => e[2] \in Steps /\ step[e[2]] = "FAILED"

Queued(a) == {emit[a][i] : i \in DOMAIN emit[a]}

Truthful ==
    /\ \A e \in events : Says(e)
    /\ \A a \in Sessions : \A e \in Queued(a) : Says(e)

\* A transition leaves terminal statuses as they are.
LEMMA TerminalIsKept ==
    ASSUME Inv, [Next]_vars
    PROVE  /\ run \in {"COMPLETED", "FAILED"} => run' = run
           /\ \A s \in Steps : step[s] \in {"COMPLETED", "FAILED"} => step'[s] = step[s]
<1>1. Transition
  BY NextIsTransition
<1> USE DEF Inv, TypeOK
<1>2. CASE UNCHANGED <<run, step>>
  BY <1>2
<1>3. CASE Lifecycle!Start \/ Lifecycle!End
  BY <1>3 DEF Lifecycle!Start, Lifecycle!End
<1>4. ASSUME NEW x \in Steps, Lifecycle!Move(x) \/ Lifecycle!FailTogether(x)
      PROVE  /\ run \in {"COMPLETED", "FAILED"} => run' = run
             /\ \A s \in Steps : step[s] \in {"COMPLETED", "FAILED"} => step'[s] = step[s]
  BY <1>4 DEF Lifecycle!Move, Lifecycle!Moves, Lifecycle!FailTogether
<1>5. ASSUME NEW x \in Steps, Lifecycle!Complete(x) \/ Lifecycle!CompleteTogether(x)
      PROVE  /\ run \in {"COMPLETED", "FAILED"} => run' = run
             /\ \A s \in Steps : step[s] \in {"COMPLETED", "FAILED"} => step'[s] = step[s]
  BY <1>5 DEF Lifecycle!Complete, Lifecycle!CompleteTogether, Lifecycle!Publish
<1> QED BY <1>1, <1>2, <1>3, <1>4, <1>5 DEF Transition, Lifecycle!Next, Lifecycle!vars

\* So what an event says stays true.
LEMMA SayingStands ==
    ASSUME Inv, [Next]_vars, NEW e, Says(e)
    PROVE  Says(e)'
BY TerminalIsKept DEF Says

\* A step keeps the events truthful if each event it appends was queued, or
\* is true once it is made, and so is each event it queues.
LEMMA TruthfulStep ==
    ASSUME Inv, Truthful, [Next]_vars,
           \A e \in events' : e \in events \/ (\E b \in Sessions : e \in Queued(b)) \/ Says(e)',
           \A b \in Sessions : \A e \in Queued(b)' : e \in Queued(b) \/ Says(e)'
    PROVE  Truthful'
BY SayingStands DEF Truthful

\* A session empties its queue, or fills the empty one with an event or two.
LEMMA QueueEmptied ==
    ASSUME Inv, NEW a \in Sessions, emit' = [emit EXCEPT ![a] = <<>>]
    PROVE  \A b \in Sessions : Queued(b)' \subseteq Queued(b)
<1> SUFFICES ASSUME NEW b \in Sessions PROVE Queued(b)' \subseteq Queued(b)
  OBVIOUS
<1>1. CASE b = a
  BY <1>1 DEF Inv, TypeOK, Queued
<1>2. CASE b # a
  BY <1>2 DEF Inv, TypeOK, Queued
<1> QED BY <1>1, <1>2

LEMMA QueueFilled ==
    ASSUME Inv, NEW a \in Sessions, NEW e, NEW f,
           emit' = [emit EXCEPT ![a] = <<e>>] \/ emit' = [emit EXCEPT ![a] = <<e, f>>]
    PROVE  \A b \in Sessions : Queued(b)' \subseteq Queued(b) \cup {e, f}
<1> SUFFICES ASSUME NEW b \in Sessions PROVE Queued(b)' \subseteq Queued(b) \cup {e, f}
  OBVIOUS
<1>1. CASE b = a
  <2>1. CASE emit'[a] = <<e>>
    BY <1>1, <2>1 DEF Queued
  <2>2. CASE emit'[a] = <<e, f>>
    <3>1. \A i \in DOMAIN <<e, f>> : <<e, f>>[i] \in {e, f}
      OBVIOUS
    <3> QED BY <1>1, <2>2, <3>1 DEF Queued
  <2> QED BY <2>1, <2>2 DEF Inv, TypeOK
<1>2. CASE b # a
  BY <1>2 DEF Inv, TypeOK, Queued
<1> QED BY <1>1, <1>2

\* _event: the first queued event is appended.
LEMMA AppendTruthful ==
    ASSUME Inv, Truthful, [Next]_vars, NEW a \in Sessions, AppendEvent(a)
    PROVE  Truthful'
<1>1. emit[a] \in Seq(Event) /\ emit[a] # <<>>
  BY DEF AppendEvent, Inv, TypeOK
<1>2. Head(emit[a]) \in Queued(a)
  BY <1>1 DEF Queued
<1>3. \A b \in Sessions : Queued(b)' \subseteq Queued(b)
  <2>1. CASE emit' = [emit EXCEPT ![a] = <<>>]
    BY <2>1, QueueEmptied
  <2>2. CASE emit' = [emit EXCEPT ![a] = Tail(emit[a])]
    <3> SUFFICES ASSUME NEW b \in Sessions PROVE Queued(b)' \subseteq Queued(b)
      OBVIOUS
    <3>1. CASE b = a
      <4>1. emit'[a] = Tail(emit[a])
        BY <2>2 DEF Inv, TypeOK
      <4>2. \A i \in DOMAIN Tail(emit[a]) : i + 1 \in DOMAIN emit[a] /\ Tail(emit[a])[i] = emit[a][i + 1]
        BY <1>1
      <4> QED BY <3>1, <4>1, <4>2 DEF Queued
    <3>2. CASE b # a
      BY <2>2, <3>2 DEF Inv, TypeOK, Queued
    <3> QED BY <3>1, <3>2
  <2> QED BY <2>1, <2>2 DEF AppendEvent
<1> QED BY <1>2, <1>3, TruthfulStep DEF AppendEvent

\* The commits of advance that queue an event about what they write.
LEMMA QueueTruthful ==
    ASSUME Inv, Truthful, [Next]_vars, NEW a \in Sessions,
           \/ StartRun(a) \/ Claim(a) \/ Suspend(a) \/ FailRun(a) \/ CommitStep(a) \/ CompleteRun(a)
    PROVE  Truthful'
<1>0. events' = events
  BY DEF StartRun, Claim, Suspend, FailRun, CommitStep, CompleteRun
<1>1. ASSUME NEW e, NEW f, Says(e)', Says(f)',
             emit' = [emit EXCEPT ![a] = <<e>>] \/ emit' = [emit EXCEPT ![a] = <<e, f>>]
      PROVE  Truthful'
  BY <1>0, <1>1, QueueFilled, TruthfulStep
<1>2. CASE StartRun(a) \/ Claim(a) \/ Suspend(a)
  <2>1. Says(<<"run.started", NoStep>>)' /\ Says(<<"step.started", sel[a]>>)'
        /\ Says(<<"step.waiting_for_approval", sel[a]>>)'
    BY <1>2 DEF Says, StartRun, Claim, Suspend
  <2> QED BY <1>1, <1>2, <2>1 DEF StartRun, Claim, Suspend
<1>3. CASE FailRun(a)
  <2>1. Says(<<"step.failed", sel[a]>>)' /\ Says(<<"run.failed", sel[a]>>)'
    BY <1>3 DEF Says, FailRun, Inv, Reads, SelectedExists
  <2> QED BY <1>1, <1>3, <2>1 DEF FailRun
<1>4. CASE CommitStep(a)
  <2>1. Says(<<"step.completed", sel[a]>>)'
    BY <1>4 DEF Says, CommitStep, CompletedWith, Inv, SelectedExists
  <2> QED BY <1>1, <1>4, <2>1 DEF CommitStep
<1>5. CASE CompleteRun(a)
  <2>1. Says(<<"run.completed", sel[a]>>)'
    BY <1>5 DEF Says, CompleteRun
  <2> QED BY <1>1, <1>5, <2>1 DEF CompleteRun
<1> QED BY <1>2, <1>3, <1>4, <1>5

\* The commits that append their events themselves.
LEMMA CommitTruthful ==
    ASSUME Inv, Truthful, [Next]_vars, NEW a \in Sessions,
           \/ Park(a) \/ RecordChallenge(a)
           \/ CommitFailed(a) \/ CommitAccepted(a) \/ CommitAcceptedLast(a)
    PROVE  Truthful'
<1>0. \A b \in Sessions : Queued(b)' \subseteq Queued(b)
  BY QueueEmptied DEF Park, RecordChallenge, CommitFailed, CommitAccepted, CommitAcceptedLast
<1>1. ASSUME \A e \in events' : e \in events \/ Says(e)'
      PROVE  Truthful'
  BY <1>0, <1>1, TruthfulStep
<1>2. CASE Park(a) \/ RecordChallenge(a)
  BY <1>1, <1>2 DEF Park, RecordChallenge, Says
<1>3. CASE CommitFailed(a)
  <2>1. sel[a] \in Steps /\ step'[sel[a]] = "FAILED" /\ run' = "FAILED"
    BY <1>3 DEF CommitFailed, Inv, TypeOK, SelectedExists
  <2> QED BY <1>1, <1>3, <2>1 DEF CommitFailed, Says
<1>4. CASE CommitAccepted(a) \/ CommitAcceptedLast(a)
  <2>1. sel[a] \in Steps /\ step'[sel[a]] = "COMPLETED"
    BY <1>4 DEF CommitAccepted, CommitAcceptedLast, CompletedWith, Inv, SelectedExists
  <2>2. CASE CommitAccepted(a)
    BY <1>1, <2>1, <2>2 DEF CommitAccepted, Says
  <2>3. CASE CommitAcceptedLast(a)
    BY <1>1, <2>1, <2>3 DEF CommitAcceptedLast, Says
  <2> QED BY <1>4, <2>2, <2>3
<1> QED BY <1>2, <1>3, <1>4

LEMMA NextTruthful == Inv /\ Truthful /\ [Next]_vars => Truthful'
<1> SUFFICES ASSUME Inv, Truthful, [Next]_vars PROVE Truthful'
  OBVIOUS
<1>1. CASE events' = events /\ emit' = emit
  <2>1. \A b \in Sessions : Queued(b)' = Queued(b)
    BY <1>1 DEF Queued
  <2> QED BY <1>1, <2>1, TruthfulStep
<1>2. ASSUME NEW a \in Sessions, events' = events, Return(a) PROVE Truthful'
  BY <1>2, QueueEmptied, TruthfulStep
<1>3. ASSUME NEW a \in Advancers, Advance(a) PROVE Truthful'
  <2>1. CASE \/ FindAllCompleted(a) \/ SelectReady(a) \/ DispatchRefused(a) \/ Execute(a)
             \/ LinkAgentRun(a) \/ FailStep(a) \/ CancelStep(a) \/ CompleteStep(a)
    BY <1>1, <2>1 DEF FindAllCompleted, SelectReady, DispatchRefused, Execute, LinkAgentRun,
       FailStep, CancelStep, CompleteStep
  <2>2. CASE \/ FindNoneReady(a) \/ StartConflict(a) \/ LeaveUnassigned(a) \/ ClaimConflict(a)
             \/ CancelRun(a) \/ CountSteps(a) \/ RunConflict(a)
    BY <1>1, <1>2, <2>2 DEF FindNoneReady, StartConflict, LeaveUnassigned, ClaimConflict, CancelRun,
       CountSteps, RunConflict
  <2> QED BY <1>3, <2>1, <2>2, QueueTruthful, CommitTruthful DEF Advance
<1>4. ASSUME NEW a \in Humans, Resolution(a) PROVE Truthful'
  BY <1>1, <1>2, <1>4, CommitTruthful DEF Resolution, ApplyAccepted, ResolveConflict
<1> QED
  BY <1>1, <1>2, <1>3, <1>4, AppendTruthful
     DEF Next, vars, ReportTerminal, ReadRun, Resolve, Crash, CommitRequestHandoff

\* No event is ever ahead of the rows or contradicted by them, whichever
\* request dies between a commit and the events it has queued (_event,
\* _fail, complete_run, resolve).
THEOREM EventsStayTrue == Spec => []EventsAreTrue
<1>1. Init => Truthful
  BY DEF Init, Truthful, Queued
<1>2. Truthful => EventsAreTrue
  BY DEF Truthful, Says, EventsAreTrue
<1> QED BY <1>1, <1>2, NextTruthful, OrchestratorInvariant, PTL DEF Spec

-----------------------------------------------------------------------------
(* The decisions.  A step has no challenge until the advance that owns it  *)
(* records one and lets go of it; from then on only a resolution touches   *)
(* the step, and what its locked row said when it began is what it still   *)
(* says when the decision commits (Decided).  In the fixed graph the       *)
(* handoff of a step is written with its completion, or before with its    *)
(* challenge (Delivered).                                                  *)

\* What a challenge says of its step and of the run.
Recorded ==
    /\ \A s \in Steps : step[s] \in {"PENDING", "READY"} => challenge[s] = NoChallenge
    /\ ResolutionIsAtomic
    /\ BlockNeverAccepted

\* What a challenge says of the session b that works on its step.
Accepting == {"accept", "acceptCommit", "acceptLast"}
SeenBy(b) ==
    /\ Working(b) => challenge[sel[b]] = NoChallenge
    /\ pc[b] = "failBoth" => ~challenge[sel[b]].ok
    /\ pc[b] \in Accepting =>
          challenge[sel[b]].ok /\ challenge[sel[b]].level # "BLOCK_RECOMMENDED"

Decided == Recorded /\ \A b \in Sessions : SeenBy(b)

USE DEF Accepting

LEMMA InitDecided == Init => Decided
BY DEF Init, Decided, Recorded, SeenBy, NoChallenge, ResolutionIsAtomic, BlockNeverAccepted

\* Only session a moves, on the step s it alone owns: whoever else works
\* reads another challenge.
LEMMA OthersSee ==
    ASSUME Inv, Decided, NEW a \in Sessions, NEW s \in Steps, Owns(a) => sel[a] = s,
           Owns(a) \/ challenge'[s] = challenge[s],
           \A x \in Steps \ {s} : challenge'[x] = challenge[x],
           NEW b \in Sessions, b # a, pc'[b] = pc[b], sel'[b] = sel[b]
    PROVE  SeenBy(b)'
<1>1. CASE ~Owns(b)
  BY <1>1 DEF SeenBy
<1>2. CASE Owns(b)
  <2>1. sel[b] \in Steps /\ challenge'[sel[b]] = challenge[sel[b]]
    BY <1>2 DEF Inv, SelectedExists, Exclusive
  <2> QED BY <2>1 DEF SeenBy, Decided
<1> QED BY <1>1, <1>2

\* No row of a step or challenge is written, a run that has failed stays so,
\* and the session goes on with the step it works on, or with none.
LEMMA KeepDecided ==
    ASSUME Decided, NEW a \in Sessions, UNCHANGED <<step, challenge>>,
           run = "FAILED" => run' = "FAILED",
           \A b \in Sessions \ {a} : pc'[b] = pc[b] /\ sel'[b] = sel[b],
           \/ ~Owns(a)'
           \/ Working(a) /\ Working(a)' /\ sel'[a] = sel[a]
           \/ pc[a] = "accept" /\ pc'[a] \in Accepting /\ sel'[a] = sel[a]
           \/ pc'[a] = pc[a] /\ sel'[a] = sel[a]
    PROVE  Decided'
<1>1. Recorded'
  BY DEF Decided, Recorded, ResolutionIsAtomic, BlockNeverAccepted
<1>2. ASSUME NEW b \in Sessions PROVE SeenBy(b)'
  <2>1. CASE b # a
    BY <2>1 DEF Decided, SeenBy
  <2>2. CASE b = a /\ ~Owns(a)'
    BY <2>2 DEF SeenBy
  <2>3. CASE b = a /\ Owns(a)'
    BY <2>3 DEF Decided, SeenBy
  <2> QED BY <2>1, <2>2, <2>3
<1> QED BY <1>1, <1>2 DEF Decided

\* A step without a challenge moves: its decision does not exist.
LEMMA MoveRecorded ==
    ASSUME Decided, UNCHANGED <<run, challenge>>, NEW s \in Steps, challenge[s] = NoChallenge,
           \A x \in Steps \ {s} : step'[x] = step[x] \/ challenge[x] = NoChallenge
    PROVE  Recorded'
<1> SUFFICES ASSUME NEW x \in Steps
             PROVE  /\ step'[x] \in {"PENDING", "READY"} => challenge[x] = NoChallenge
                    /\ challenge[x].decision = "REJECT_RESULT" => step'[x] = "FAILED" /\ run = "FAILED"
                    /\ challenge[x].decision = "ACCEPT_RESULT" /\ ~challenge[x].ok
                          => step'[x] = "FAILED" /\ run = "FAILED"
                    /\ challenge[x].decision = "ACCEPT_RESULT" /\ challenge[x].ok
                          => step'[x] = "COMPLETED"
                    /\ challenge[x].level = "BLOCK_RECOMMENDED" => step'[x] # "COMPLETED"
  BY DEF Recorded, ResolutionIsAtomic, BlockNeverAccepted
<1>1. CASE challenge[x] = NoChallenge
  BY <1>1 DEF NoChallenge
<1>2. CASE challenge[x] # NoChallenge
  BY <1>2 DEF Decided, Recorded, ResolutionIsAtomic, BlockNeverAccepted
<1> QED BY <1>1, <1>2

LEMMA MoveDecided ==
    ASSUME Inv, Decided, NEW a \in Sessions, sel[a] \in Steps, challenge[sel[a]] = NoChallenge,
           UNCHANGED <<run, challenge, sel>>,
           \A x \in Steps \ {sel[a]} : step'[x] = step[x] \/ challenge[x] = NoChallenge,
           NEW label, pc' = [pc EXCEPT ![a] = label], label \notin Accepting \cup {"failBoth"}
    PROVE  Decided'
<1>1. Recorded'
  BY MoveRecorded
<1>2. pc'[a] = label /\ \A b \in Sessions \ {a} : pc'[b] = pc[b]
  BY DEF Inv, TypeOK
<1>3. ASSUME NEW b \in Sessions PROVE SeenBy(b)'
  BY <1>2, <1>3 DEF SeenBy, Decided
<1> QED BY <1>1, <1>3 DEF Decided

LEMMA ClaimDecided ==
    ASSUME Inv, Decided, NEW a \in Sessions, Claim(a)
    PROVE  Decided'
<1>1. sel[a] \in Steps
  BY DEF Inv, SelectedExists, Claim
<1>2. challenge[sel[a]] = NoChallenge
  BY <1>1 DEF Claim, Decided, Recorded
<1>3. pc' = [pc EXCEPT ![a] = "execute"] /\ UNCHANGED <<run, challenge, sel>>
      /\ \A x \in Steps \ {sel[a]} : step'[x] = step[x]
  BY DEF Claim, Inv, TypeOK
<1> QED BY <1>1, <1>2, <1>3, MoveDecided

LEMMA SettleDecided ==
    ASSUME Inv, Decided, NEW a \in Sessions, Suspend(a) \/ FailStep(a) \/ CancelStep(a)
    PROVE  Decided'
<1>1. sel[a] \in Steps /\ challenge[sel[a]] = NoChallenge
  BY DEF Inv, SelectedExists, Decided, SeenBy, Suspend, FailStep, CancelStep
<1>2. PICK label \in {"return", "failRun", "cancelRun"} : pc' = [pc EXCEPT ![a] = label]
  BY DEF Suspend, FailStep, CancelStep
<1>3. UNCHANGED <<run, challenge, sel>> /\ \A x \in Steps \ {sel[a]} : step'[x] = step[x]
  BY DEF Suspend, FailStep, CancelStep, Inv, TypeOK
<1> QED BY <1>1, <1>2, <1>3, MoveDecided

\* The commit of an unchallenged completion.
LEMMA CommitDecided ==
    ASSUME Inv, Decided, NEW a \in Sessions, CommitStep(a)
    PROVE  Decided'
<1>1. sel[a] \in Steps /\ challenge[sel[a]] = NoChallenge
  BY DEF Inv, SelectedExists, Decided, SeenBy, CommitStep
<1>2. \A d \in ready[a] : step[d] = "PENDING"
  BY DEF Inv, Reads, CommitStep
<1>3. pc' = [pc EXCEPT ![a] = "count"] /\ UNCHANGED <<run, challenge, sel>>
  BY DEF CommitStep
<1>4. \A x \in Steps \ {sel[a]} : step'[x] = step[x] \/ challenge[x] = NoChallenge
  BY <1>2 DEF CommitStep, CompletedWith, Decided, Recorded
<1> QED BY <1>1, <1>3, <1>4, MoveDecided

\* The advance that records a challenge no longer works on the step.
LEMMA RecordDecided ==
    ASSUME Inv, Decided, NEW a \in Sessions, RecordChallenge(a)
    PROVE  Decided'
<1>1. sel[a] \in Steps /\ step[sel[a]] = "RUNNING" /\ pc'[a] = "idle" /\ UNCHANGED <<run, step>>
  BY DEF Inv, SelectedExists, Exclusive, RecordChallenge, TypeOK
<1>2. challenge'[sel[a]] = [decision |-> "PENDING", level |-> out[a].level, ok |-> out[a].ok]
      /\ \A x \in Steps \ {sel[a]} : challenge'[x] = challenge[x]
  BY <1>1 DEF RecordChallenge, Inv, TypeOK
<1>3. Recorded'
  BY <1>1, <1>2 DEF Decided, Recorded, ResolutionIsAtomic, BlockNeverAccepted
<1>4. \A b \in Sessions \ {a} : pc'[b] = pc[b] /\ sel'[b] = sel[b]
  BY DEF RecordChallenge, Inv, TypeOK
<1>5. \A b \in Sessions \ {a} : SeenBy(b)'
  BY <1>1, <1>2, <1>4, OthersSee DEF RecordChallenge
<1>6. SeenBy(a)'
  BY <1>1 DEF SeenBy
<1> QED BY <1>3, <1>5, <1>6 DEF Decided

\* A human takes the challenge over: its row is locked, so what the session
\* reads of it stays.
LEMMA ResolveDecided ==
    ASSUME Inv, Decided, NEW a \in Sessions, NEW s \in Steps,
           NEW decision \in {"ACCEPT_RESULT", "REJECT_RESULT"}, Resolve(a, s, decision)
    PROVE  Decided'
<1>1. UNCHANGED <<run, step, challenge>>
  BY DEF Resolve
<1>2. Recorded'
  BY <1>1 DEF Decided, Recorded, ResolutionIsAtomic, BlockNeverAccepted
<1>3. \A b \in Sessions \ {a} : pc'[b] = pc[b] /\ sel'[b] = sel[b]
  BY DEF Resolve, Inv, TypeOK
<1>4. \A b \in Sessions \ {a} : SeenBy(b)'
  BY <1>1, <1>3 DEF Decided, SeenBy
<1>5. sel'[a] = s /\ pc'[a] = IF decision = "REJECT_RESULT" THEN "reject"
                              ELSE IF challenge[s].ok THEN "accept" ELSE "failBoth"
  BY DEF Resolve, Inv, TypeOK
<1>6. challenge[s].level = "BLOCK_RECOMMENDED" => decision # "ACCEPT_RESULT"
  BY DEF Resolve
<1>7. SeenBy(a)'
  BY <1>1, <1>5, <1>6 DEF SeenBy
<1> QED BY <1>2, <1>4, <1>7 DEF Decided

\* The decision, the step and the run in one commit.
LEMMA CommitFailedDecided ==
    ASSUME Inv, Decided, NEW a \in Sessions, CommitFailed(a)
    PROVE  Decided'
<1> DEFINE decision == IF pc[a] = "reject" THEN "REJECT_RESULT" ELSE "ACCEPT_RESULT"
<1>1. sel[a] \in Steps /\ pc'[a] = "idle" /\ run' = "FAILED" /\ step'[sel[a]] = "FAILED"
      /\ \A x \in Steps \ {sel[a]} : step'[x] = step[x]
  BY DEF Inv, SelectedExists, CommitFailed, TypeOK
<1>2. decision = "ACCEPT_RESULT" => ~challenge[sel[a]].ok
  BY DEF CommitFailed, Decided, SeenBy
<1>3. /\ challenge'[sel[a]].decision = decision
      /\ challenge'[sel[a]].ok = challenge[sel[a]].ok
      /\ \A x \in Steps \ {sel[a]} : challenge'[x] = challenge[x]
  BY <1>1 DEF CommitFailed, Decide, Inv, TypeOK, Challenge
<1> HIDE DEF decision
<1>4. Recorded'
  BY <1>1, <1>2, <1>3 DEF Decided, Recorded, ResolutionIsAtomic, BlockNeverAccepted
<1>5. \A b \in Sessions \ {a} : pc'[b] = pc[b] /\ sel'[b] = sel[b]
  BY DEF CommitFailed, Inv, TypeOK
<1>6. \A b \in Sessions \ {a} : SeenBy(b)'
  BY <1>1, <1>3, <1>5, OthersSee DEF CommitFailed
<1>7. SeenBy(a)'
  BY <1>1 DEF SeenBy
<1> QED BY <1>4, <1>6, <1>7 DEF Decided

LEMMA CommitAcceptedDecided ==
    ASSUME Inv, Decided, NEW a \in Sessions, CommitAccepted(a) \/ CommitAcceptedLast(a)
    PROVE  Decided'
<1>1. /\ sel[a] \in Steps /\ pc'[a] = "idle" /\ (run = "FAILED" => run' = run)
      /\ step'[sel[a]] = "COMPLETED"
      /\ \A x \in Steps \ {sel[a]} : step'[x] = step[x] \/ (step[x] = "PENDING" /\ step'[x] = "READY")
  BY DEF Inv, SelectedExists, CommitAccepted, CommitAcceptedLast, CompletedWith, Reads, TypeOK
<1>2. challenge[sel[a]].ok /\ challenge[sel[a]].level # "BLOCK_RECOMMENDED"
  BY DEF CommitAccepted, CommitAcceptedLast, Decided, SeenBy
<1>3. /\ challenge'[sel[a]].decision = "ACCEPT_RESULT"
      /\ challenge'[sel[a]].ok
      /\ challenge'[sel[a]].level # "BLOCK_RECOMMENDED"
      /\ \A x \in Steps \ {sel[a]} : challenge'[x] = challenge[x]
  <2>1. challenge' = [challenge EXCEPT ![sel[a]].decision = "ACCEPT_RESULT"]
    BY DEF CommitAccepted, CommitAcceptedLast, Decide
  <2>2. challenge \in [Steps -> Challenge] /\ challenge[sel[a]] \in Challenge
    BY <1>1 DEF Inv, TypeOK
  <2> QED BY <1>1, <1>2, <2>1, <2>2 DEF Challenge
<1>4. \A x \in Steps : step[x] = "PENDING" => challenge[x].decision = "NONE" /\ challenge[x].level = "NONE"
  BY DEF Decided, Recorded, NoChallenge
<1>5. Recorded'
  BY <1>1, <1>3, <1>4 DEF Decided, Recorded, ResolutionIsAtomic, BlockNeverAccepted
<1>6. \A b \in Sessions \ {a} : pc'[b] = pc[b] /\ sel'[b] = sel[b]
  BY DEF CommitAccepted, CommitAcceptedLast, Inv, TypeOK
<1>7. \A b \in Sessions \ {a} : SeenBy(b)'
  BY <1>1, <1>3, <1>6, OthersSee DEF CommitAccepted, CommitAcceptedLast
<1>8. SeenBy(a)'
  BY <1>1 DEF SeenBy
<1> QED BY <1>5, <1>7, <1>8 DEF Decided

\* Every action but the commits above writes no step and no challenge.
LEMMA QuietDecided ==
    ASSUME Inv, Decided, NEW a \in Sessions,
           \/ ReadRun(a) \/ FindAllCompleted(a) \/ FindNoneReady(a) \/ SelectReady(a)
           \/ StartRun(a) \/ StartConflict(a) \/ Park(a) \/ LeaveUnassigned(a)
           \/ ClaimConflict(a) \/ DispatchRefused(a) \/ Execute(a) \/ LinkAgentRun(a)
           \/ FailRun(a) \/ CancelRun(a) \/ CompleteStep(a) \/ CountSteps(a) \/ CompleteRun(a)
           \/ RunConflict(a) \/ ApplyAccepted(a) \/ ResolveConflict(a)
           \/ AppendEvent(a) \/ Crash(a)
    PROVE  Decided'
<1>1. UNCHANGED <<step, challenge>> /\ (run = "FAILED" => run' = "FAILED")
  BY DEF ReadRun, FindAllCompleted, FindNoneReady, SelectReady, StartRun, StartConflict, Park,
     LeaveUnassigned, ClaimConflict, DispatchRefused, Execute, LinkAgentRun, FailRun, CancelRun,
     CompleteStep, CountSteps, CompleteRun, RunConflict, ApplyAccepted, ResolveConflict,
     AppendEvent, Crash
<1>2. \A b \in Sessions \ {a} : pc'[b] = pc[b] /\ sel'[b] = sel[b]
  BY DEF ReadRun, FindAllCompleted, FindNoneReady, SelectReady, StartRun, StartConflict, Park,
     LeaveUnassigned, ClaimConflict, DispatchRefused, Execute, LinkAgentRun, FailRun, CancelRun,
     CompleteStep, CountSteps, CompleteRun, RunConflict, ApplyAccepted, ResolveConflict,
     AppendEvent, Crash, Inv, TypeOK
<1>3. CASE Execute(a) \/ DispatchRefused(a) \/ LinkAgentRun(a) \/ CompleteStep(a)
  <2>1. Working(a) /\ Working(a)' /\ sel'[a] = sel[a]
    BY <1>3 DEF Execute, DispatchRefused, LinkAgentRun, CompleteStep, AfterLink, Inv, TypeOK
  <2> QED BY <1>1, <1>2, <2>1, KeepDecided
<1>4. CASE ApplyAccepted(a)
  <2>1. pc[a] = "accept" /\ pc'[a] \in Accepting /\ sel'[a] = sel[a]
    BY <1>4 DEF ApplyAccepted, Inv, TypeOK
  <2> QED BY <1>1, <1>2, <2>1, KeepDecided
<1>5. CASE AppendEvent(a)
  <2>1. ~Owns(a)' \/ (pc'[a] = pc[a] /\ sel'[a] = sel[a])
    BY <1>5 DEF AppendEvent, Inv, TypeOK
  <2> QED BY <1>1, <1>2, <2>1, KeepDecided
<1>6. CASE ~(\/ Execute(a) \/ DispatchRefused(a) \/ LinkAgentRun(a) \/ CompleteStep(a)
             \/ ApplyAccepted(a) \/ AppendEvent(a))
  <2>1. ~Owns(a)'
    BY <1>6 DEF ReadRun, FindAllCompleted, FindNoneReady, SelectReady, Proceed, StartRun,
       StartConflict, Park, LeaveUnassigned, ClaimConflict, FailRun, CancelRun, CountSteps,
       CompleteRun, RunConflict, ResolveConflict, Crash, Inv, TypeOK
  <2> QED BY <1>1, <1>2, <2>1, KeepDecided
<1> QED BY <1>3, <1>4, <1>5, <1>6

LEMMA NextDecided == Inv /\ Decided /\ [Next]_vars => Decided'
<1> SUFFICES ASSUME Inv, Decided, [Next]_vars PROVE Decided'
  OBVIOUS
<1>1. CASE UNCHANGED vars \/ CommitRequestHandoff
  <2>1. UNCHANGED <<run, step, challenge, pc, sel>>
    BY <1>1 DEF vars, CommitRequestHandoff
  <2> QED BY <2>1 DEF Decided, Recorded, SeenBy, ResolutionIsAtomic, BlockNeverAccepted
<1>2. ASSUME NEW a \in Advancers, ReportTerminal(a) \/ ReadRun(a) \/ Advance(a) PROVE Decided'
  BY <1>1, <1>2, QuietDecided, ClaimDecided, SettleDecided, CommitDecided, RecordDecided
     DEF ReportTerminal, Advance
<1>3. ASSUME NEW a \in Humans, Resolution(a) PROVE Decided'
  BY <1>3, QuietDecided, CommitFailedDecided, CommitAcceptedDecided DEF Resolution
<1>4. ASSUME NEW a \in Humans, NEW s \in Steps, NEW decision \in {"ACCEPT_RESULT", "REJECT_RESULT"},
             Resolve(a, s, decision)
      PROVE Decided'
  BY <1>4, ResolveDecided
<1>5. ASSUME NEW a \in Sessions, AppendEvent(a) \/ Crash(a) PROVE Decided'
  BY <1>5, QuietDecided
<1> QED BY <1>1, <1>2, <1>3, <1>4, <1>5 DEF Next

LEMMA ChallengeInvariant == Spec => [](Inv /\ Decided)
<1>1. Init => Inv /\ Decided
  BY InitInv, InitDecided
<1>2. Inv /\ Decided /\ [Next]_vars => Inv' /\ Decided'
  BY NextInv, NextDecided
<1> QED BY <1>1, <1>2, PTL DEF Spec

\* A decision, its step and, where it must end, the run have one commit, in
\* every plan, whatever is advanced at the same time and whoever dies.
THEOREM DecisionIsAtomic == Spec => []ResolutionIsAtomic
<1>1. Inv /\ Decided => ResolutionIsAtomic
  BY DEF Decided, Recorded
<1> QED BY <1>1, ChallengeInvariant, PTL

\* No interleaving of advances and resolutions completes a step whose agent
\* recommended to block.
THEOREM BlockedIsNotCompleted == Spec => []BlockNeverAccepted
<1>1. Inv /\ Decided => BlockNeverAccepted
  BY DEF Decided, Recorded
<1> QED BY <1>1, ChallengeInvariant, PTL

-----------------------------------------------------------------------------
(* The handoffs of the fixed graph.                                        *)

\* A completed step, and a result a human may still accept, has handed over.
Delivered ==
    /\ \A p \in Steps : step[p] = "COMPLETED" => HandoffOf(p) \subseteq handoff
    /\ \A p \in Steps : challenge[p].ok => HandoffOf(p) \subseteq handoff
    /\ HandoffBeforeUnlock

LEMMA InitDelivered == FixedGraph /\ Init => Delivered
BY PlanAssumption DEF FixedGraph, Init, Delivered, HandoffBeforeUnlock, NoChallenge

\* No step is unlocked or completed, no challenge is recorded, and no
\* handoff is lost.
LEMMA KeepDelivered ==
    ASSUME Delivered, handoff \subseteq handoff',
           \A x \in Steps : step'[x] = step[x] \/ (step'[x] # "COMPLETED" /\ step[x] # "PENDING"),
           \A x \in Steps : challenge'[x].ok => challenge[x].ok
    PROVE  Delivered'
BY DEF Delivered, HandoffBeforeUnlock, HandoffOf, NextInPlan

\* The completion of s unlocks the steps that waited for it and what is
\* already COMPLETED: the step before each has handed over.
LEMMA UnlockDelivered ==
    ASSUME FixedGraph, Delivered, NEW s \in Steps, NEW unlocked \in SUBSET Steps,
           step' = CompletedWith(s, unlocked),
           step[s] = "RUNNING",
           \A d \in unlocked : step[d] = "PENDING" /\ DependsOn[d] \subseteq Completed \cup {s},
           handoff \subseteq handoff', HandoffOf(s) \subseteq handoff',
           \A x \in Steps : challenge'[x].ok => challenge[x].ok
    PROVE  Delivered'
<1>1. \A x \in Steps : step'[x] = IF x = s THEN "COMPLETED"
                                  ELSE IF x \in unlocked THEN "READY" ELSE step[x]
  BY DEF CompletedWith
<1>2. \A p \in Completed \cup {s} : HandoffOf(p) \subseteq handoff'
  BY DEF Delivered, Completed
<1>3. \A p \in Steps : step'[p] = "COMPLETED" => HandoffOf(p) \subseteq handoff'
  BY <1>1, <1>2 DEF Completed
<1>4. \A p \in Steps : challenge'[p].ok => HandoffOf(p) \subseteq handoff'
  BY DEF Delivered
<1>5. ASSUME NEW x \in Steps, Role[x] \in {"developer_worker", "qa_worker"}, step'[x] # "PENDING"
      PROVE  x \in handoff'
  <2>1. CASE x \notin unlocked
    BY <1>1, <1>5, <2>1 DEF Delivered, HandoffBeforeUnlock
  <2>2. CASE x \in unlocked
    <3>1. PICK p \in DependsOn[x] : Role[p] \in HandoffRoles /\ Position[x] = Position[p] + 1
      BY <1>5 DEF FixedGraph
    <3>2. x \in HandoffOf(p)
      BY <3>1 DEF HandoffOf, NextInPlan
    <3> QED BY <1>2, <2>2, <3>1, <3>2
  <2> QED BY <2>1, <2>2
<1>6. \A p \in Steps : HandoffOf(p)' = HandoffOf(p)
  BY DEF HandoffOf, NextInPlan
<1> QED BY <1>3, <1>4, <1>5, <1>6 DEF Delivered, HandoffBeforeUnlock

LEMMA AcceptedDelivered ==
    ASSUME FixedGraph, Inv, Decided, Delivered, NEW a \in Sessions,
           CommitAccepted(a) \/ CommitAcceptedLast(a)
    PROVE  Delivered'
<1>1. sel[a] \in Steps /\ step[sel[a]] = "RUNNING" /\ ready[a] \in SUBSET Steps
      /\ \A d \in ready[a] : step[d] = "PENDING" /\ DependsOn[d] \subseteq Completed \cup {sel[a]}
  BY DEF Inv, TypeOK, SelectedExists, Exclusive, Reads, CommitAccepted, CommitAcceptedLast
<1>2. challenge[sel[a]].ok
  BY DEF CommitAccepted, CommitAcceptedLast, Decided, SeenBy
<1>3. HandoffOf(sel[a]) \subseteq handoff /\ handoff' = handoff
  BY <1>1, <1>2 DEF Delivered, CommitAccepted, CommitAcceptedLast
<1>4. challenge' = [challenge EXCEPT ![sel[a]].decision = "ACCEPT_RESULT"]
      /\ step' = CompletedWith(sel[a], ready[a])
  BY DEF CommitAccepted, CommitAcceptedLast, Decide
<1>5. \A x \in Steps : challenge'[x].ok => challenge[x].ok
  BY <1>2, <1>4 DEF Inv, TypeOK
<1> QED BY <1>1, <1>3, <1>4, <1>5, UnlockDelivered

LEMMA CommitDelivered ==
    ASSUME FixedGraph, Inv, Delivered, NEW a \in Sessions, CommitStep(a)
    PROVE  Delivered'
<1>1. sel[a] \in Steps /\ step[sel[a]] = "RUNNING" /\ ready[a] \in SUBSET Steps
      /\ \A d \in ready[a] : step[d] = "PENDING" /\ DependsOn[d] \subseteq Completed \cup {sel[a]}
  BY DEF Inv, TypeOK, SelectedExists, Exclusive, Reads, CommitStep
<1>2. step' = CompletedWith(sel[a], ready[a]) /\ challenge' = challenge
      /\ handoff' = handoff \cup HandoffOf(sel[a])
  BY DEF CommitStep
<1> QED BY <1>1, <1>2, UnlockDelivered

\* The handoff of an acceptable result is flushed with its challenge.
LEMMA RecordDelivered ==
    ASSUME Inv, Delivered, NEW a \in Sessions, RecordChallenge(a)
    PROVE  Delivered'
<1>1. sel[a] \in Steps /\ step' = step
      /\ handoff' = handoff \cup (IF out[a].ok THEN HandoffOf(sel[a]) ELSE {})
  BY DEF Inv, SelectedExists, RecordChallenge
<1>2. challenge'[sel[a]].ok = out[a].ok /\ \A x \in Steps \ {sel[a]} : challenge'[x] = challenge[x]
  BY <1>1 DEF RecordChallenge, Inv, TypeOK
<1> QED BY <1>1, <1>2 DEF Delivered, HandoffBeforeUnlock, HandoffOf, NextInPlan

\* The actions that move one step without completing it, or none.
LEMMA OtherDelivered ==
    ASSUME Inv, Delivered, NEW a \in Sessions,
           \/ ReadRun(a) \/ FindAllCompleted(a) \/ FindNoneReady(a) \/ SelectReady(a)
           \/ StartRun(a) \/ StartConflict(a) \/ Park(a) \/ LeaveUnassigned(a)
           \/ Claim(a) \/ ClaimConflict(a) \/ DispatchRefused(a) \/ Execute(a) \/ LinkAgentRun(a)
           \/ Suspend(a) \/ FailStep(a) \/ FailRun(a) \/ CancelStep(a) \/ CancelRun(a)
           \/ CompleteStep(a) \/ CountSteps(a) \/ CompleteRun(a) \/ RunConflict(a)
           \/ CommitFailed(a) \/ ApplyAccepted(a) \/ ResolveConflict(a)
           \/ AppendEvent(a) \/ Crash(a)
    PROVE  Delivered'
<1>1. handoff' = handoff
  BY DEF ReadRun, FindAllCompleted, FindNoneReady, SelectReady, StartRun, StartConflict, Park,
     LeaveUnassigned, Claim, ClaimConflict, DispatchRefused, Execute, LinkAgentRun, Suspend,
     FailStep, FailRun, CancelStep, CancelRun, CompleteStep, CountSteps, CompleteRun, RunConflict,
     CommitFailed, ApplyAccepted, ResolveConflict, AppendEvent, Crash
<1>2. CASE Claim(a) \/ Suspend(a) \/ FailStep(a) \/ CancelStep(a)
  <2>1. step[sel[a]] # "PENDING" /\ challenge' = challenge
        /\ \E to \in {"RUNNING", "WAITING_FOR_APPROVAL", "FAILED", "CANCELLED"} :
              step' = [step EXCEPT ![sel[a]] = to]
    BY <1>2 DEF Claim, Suspend, FailStep, CancelStep
  <2>2. \A x \in Steps : step'[x] = step[x] \/ (step'[x] # "COMPLETED" /\ step[x] # "PENDING")
    BY <2>1 DEF Inv, TypeOK
  <2> QED BY <1>1, <2>1, <2>2, KeepDelivered
<1>3. CASE CommitFailed(a)
  <2>1. sel[a] \in Steps /\ step[sel[a]] = "RUNNING" /\ step' = [step EXCEPT ![sel[a]] = "FAILED"]
    BY <1>3 DEF CommitFailed, Inv, SelectedExists
  <2>2. \A x \in Steps : challenge'[x].ok => challenge[x].ok
    <3>1. PICK d : challenge' = [challenge EXCEPT ![sel[a]].decision = d]
      BY <1>3 DEF CommitFailed, Decide
    <3>2. challenge[sel[a]] \in Challenge
      BY <2>1 DEF Inv, TypeOK
    <3> QED BY <2>1, <3>1, <3>2 DEF Inv, TypeOK, Challenge
  <2>3. \A x \in Steps : step'[x] = step[x] \/ (step'[x] # "COMPLETED" /\ step[x] # "PENDING")
    BY <2>1 DEF Inv, TypeOK
  <2> QED BY <1>1, <2>2, <2>3, KeepDelivered
<1>4. CASE UNCHANGED <<step, challenge>>
  BY <1>1, <1>4, KeepDelivered
<1> QED
  BY <1>2, <1>3, <1>4 DEF ReadRun, FindAllCompleted, FindNoneReady, SelectReady, StartRun,
     StartConflict, Park, LeaveUnassigned, ClaimConflict, DispatchRefused, Execute, LinkAgentRun,
     FailRun, CancelRun, CompleteStep, CountSteps, CompleteRun, RunConflict, ApplyAccepted,
     ResolveConflict, AppendEvent, Crash

LEMMA NextDelivered ==
    ASSUME FixedGraph, Inv, Decided, Delivered, [Next]_vars
    PROVE  Delivered'
<1>1. CASE UNCHANGED vars \/ CommitRequestHandoff
  <2>1. UNCHANGED <<step, challenge>> /\ handoff \subseteq handoff'
    BY <1>1 DEF vars, CommitRequestHandoff
  <2> QED BY <2>1, KeepDelivered
<1>2. ASSUME NEW a \in Advancers, ReportTerminal(a) \/ ReadRun(a) \/ Advance(a) PROVE Delivered'
  BY <1>1, <1>2, OtherDelivered, CommitDelivered, RecordDelivered DEF ReportTerminal, Advance
<1>3. ASSUME NEW a \in Humans, Resolution(a) PROVE Delivered'
  BY <1>3, OtherDelivered, AcceptedDelivered DEF Resolution
<1>4. ASSUME NEW a \in Humans, NEW s \in Steps, NEW decision \in {"ACCEPT_RESULT", "REJECT_RESULT"},
             Resolve(a, s, decision)
      PROVE Delivered'
  <2>1. UNCHANGED <<step, challenge, handoff>>
    BY <1>4 DEF Resolve
  <2> QED BY <2>1, KeepDelivered
<1>5. ASSUME NEW a \in Sessions, AppendEvent(a) \/ Crash(a) PROVE Delivered'
  BY <1>5, OtherDelivered
<1> QED BY <1>1, <1>2, <1>3, <1>4, <1>5 DEF Next

\* In the fixed graph no step is READY before the handoff it consumes is
\* committed, whether its predecessor completed by itself or by a human's
\* decision, and wherever a request died.
THEOREM HandoffComesFirst == FixedGraph => (Spec => []HandoffBeforeUnlock)
<1> SUFFICES ASSUME FixedGraph PROVE Spec => []HandoffBeforeUnlock
  OBVIOUS
<1>1. Init => Inv /\ Decided /\ Delivered
  BY InitInv, InitDecided, InitDelivered
<1>2. (Inv /\ Decided /\ Delivered) /\ [Next]_vars => (Inv /\ Decided /\ Delivered)'
  BY NextInv, NextDecided, NextDelivered
<1>3. Delivered => HandoffBeforeUnlock
  BY DEF Delivered
<1> QED BY <1>1, <1>2, <1>3, PTL DEF Spec
=============================================================================
