------------------------------- MODULE PlanGraph -------------------------------
(***************************************************************************)
(* The step graph of a workflow plan: the draft a request brings, its      *)
(* validation in topological order, the rows it is stored as, and the      *)
(* draft create_run rebuilds from them.  A draft is a sequence of steps;   *)
(* keys are naturals, ordered as step keys are.                            *)
(***************************************************************************)
EXTENDS Naturals, FiniteSets, Sequences, Functions

StepKeys(data) == {data[i].step_key : i \in DOMAIN data}
Dependencies(data, k) == UNION {data[i].depends_on : i \in {j \in DOMAIN data : data[j].step_key = k}}

\* graph_bounds and unique_dependencies: a key names one step.
WellFormed(data) == data # <<>> /\ IsInjective([i \in DOMAIN data |-> data[i].step_key])

\* The keys in the order the sorted ready list gives them up.
Ordered(data) ==
    LET waiting(done) == {k \in StepKeys(data) : \A i \in DOMAIN done : done[i] # k}
        ready(done) == {k \in waiting(done) : Dependencies(data, k) \cap waiting(done) = {}}
        order[n \in 0 .. Len(data)] ==
            IF n = 0 THEN <<>>
            ELSE LET done == order[n - 1] IN
                 IF ready(done) = {} THEN done
                 ELSE Append(done, CHOOSE k \in ready(done) : \A j \in ready(done) : k <= j)
    IN  order[Len(data)]

\* Mutant: a cycle is not looked for.
ReferencesOnly(data) ==
    /\ WellFormed(data)
    /\ \A i \in DOMAIN data : data[i].depends_on \subseteq StepKeys(data)

validate_graph(data) ==
    /\ WellFormed(data)
    /\ \A i \in DOMAIN data :
          /\ data[i].step_key \notin data[i].depends_on
          /\ data[i].depends_on \subseteq StepKeys(data)
    /\ Len(Ordered(data)) = Len(data)

\* The rows of a plan: its steps with their positions and its edges.
Stored(data) ==
    [steps |-> {[step_key |-> data[i].step_key, position |-> i] : i \in DOMAIN data},
     edges |-> UNION {{data[i].step_key} \X data[i].depends_on : i \in DOMAIN data}]

\* What create_run makes of them.
Reread(plan) ==
    [i \in 1 .. Cardinality(plan.steps) |->
        LET step == CHOOSE s \in plan.steps : s.position = i
        IN  [step_key |-> step.step_key,
             depends_on |-> {e[2] : e \in {x \in plan.edges : x[1] = step.step_key}}]]

\* The fixed graph of create_development_workflow.
DevelopmentPlan ==
    <<[step_key |-> 1, depends_on |-> {}],    \* manager_plan
      [step_key |-> 2, depends_on |-> {1}],   \* developer_execute
      [step_key |-> 3, depends_on |-> {2}]>>  \* qa_validate

-----------------------------------------------------------------------------
(* The reference: every group of steps has one that depends on none of     *)
(* the others.                                                             *)

Acyclic(data) ==
    \A group \in (SUBSET StepKeys(data)) \ {{}} :
        \E k \in group : Dependencies(data, k) \cap group = {}

\* Every step comes after all it depends on.
Respects(order, data) ==
    \A i \in DOMAIN order : Dependencies(data, order[i]) \subseteq {order[j] : j \in 1 .. i - 1}
=============================================================================
