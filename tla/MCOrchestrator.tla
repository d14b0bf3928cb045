---------------------------- MODULE MCOrchestrator ----------------------------
(* Small plans for Orchestrator.tla.                                       *)
EXTENDS Orchestrator

\* The plans below with worker roles are development workflows.
ASSUME PlansAreFixedGraphs == FixedGraph

\* Two independent generic steps and the step that needs both.
JoinSteps == {"left", "right", "join"}
JoinDependsOn == [s \in JoinSteps |-> IF s = "join" THEN {"left", "right"} ELSE {}]
JoinPosition == [s \in JoinSteps |-> CASE s = "left" -> 0 [] s = "right" -> 1 [] OTHER -> 2]
JoinRole == [s \in JoinSteps |-> "generic"]
JoinType == [s \in JoinSteps |-> "AGENT_TASK"]

\* The same join, then a MANUAL_REVIEW of its result, and an agent task
\* nobody has assigned, last in plan order.
GateSteps == JoinSteps \cup {"review", "triage"}
GateDependsOn ==
    [s \in GateSteps |-> CASE s = "join"   -> {"left", "right"}
                           [] s = "review" -> {"join"}
                           [] OTHER        -> {}]
GatePosition ==
    [s \in GateSteps |-> CASE s = "left" -> 0 [] s = "right" -> 1 [] s = "join" -> 2
                           [] s = "review" -> 3 [] OTHER -> 4]
GateType ==
    [s \in GateSteps |-> CASE s = "review" -> "MANUAL"
                           [] s = "triage" -> "UNASSIGNED"
                           [] OTHER        -> "AGENT_TASK"]
GateRole == [s \in GateSteps |-> "generic"]

\* create_development_workflow: the fixed Manager -> Developer -> QA graph.
ChainSteps == {"manager_plan", "developer_execute", "qa_validate"}
ChainDependsOn ==
    [s \in ChainSteps |-> CASE s = "manager_plan"      -> {}
                            [] s = "developer_execute" -> {"manager_plan"}
                            [] OTHER                   -> {"developer_execute"}]
ChainPosition ==
    [s \in ChainSteps |-> CASE s = "manager_plan"      -> 0
                            [] s = "developer_execute" -> 1
                            [] OTHER                   -> 2]
ChainType == [s \in ChainSteps |-> "AGENT_TASK"]
ChainRole ==
    [s \in ChainSteps |-> CASE s = "manager_plan"      -> "developer_manager"
                            [] s = "developer_execute" -> "developer_worker"
                            [] OTHER                   -> "qa_worker"]
=============================================================================
