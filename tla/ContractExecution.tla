-------------------------- MODULE ContractExecution --------------------------
(***************************************************************************)
(* How a result contract is put to a provider: the contextual constraints  *)
(* compiled into its schema and checked again on the answer                *)
(* (agents/contract_execution.py), the generation strategy, and the output *)
(* budget (agents/output_budget.py).  Pure.                                *)
(*                                                                         *)
(* The contract is abstracted to its lists: a path names a list field, the *)
(* schema gives the node of each path bounds on its length, and a result   *)
(* is the length of the list at each path.                                 *)
(***************************************************************************)
EXTENDS Naturals, Sequences, SequencesExt, FiniteSetsExt

CONSTANTS
    Paths,           \* list fields of the contract
    NodeOf,          \* [Paths -> schema nodes]; equal for fields sharing $defs
    BaseMaximum,     \* max_length of every list in the base contract
    MaxConstraints,  \* MAX_RESULT_SHAPE_CONSTRAINTS
    SafetyCeiling    \* model_output_token_safety_ceiling

ASSUME ContractAssumption ==
    /\ BaseMaximum \in Nat /\ MaxConstraints \in Nat
    /\ SafetyCeiling \in Nat \ {0}

Constraints ==
    [path : STRING, kind : {"EXACT_ITEMS", "MIN_ITEMS", "MAX_ITEMS", "EMPTY"},
     value : Nat]

Nodes == {NodeOf[p] : p \in Paths}
Results == [Paths -> 0 .. BaseMaximum]

\* Only the first MaxConstraints count, for the schema and for the validation.
Contextual(constraints) ==
    SubSeq(constraints, 1, Min({MaxConstraints, Len(constraints)}))

-----------------------------------------------------------------------------
(* The schema a provider is given.                                         *)

BaseSchema == [n \in Nodes |-> [minItems |-> 0, maxItems |-> BaseMaximum]]

\* A later constraint on a node overwrites the bound an earlier one wrote.
apply_schema_constraint(schema, constraint) ==
    LET node == NodeOf[constraint.path]
        n == constraint.value
    IN  CASE constraint.kind = "EXACT_ITEMS" ->
               [schema EXCEPT ![node] = [minItems |-> n, maxItems |-> n]]
          [] constraint.kind = "MIN_ITEMS" ->
               [schema EXCEPT ![node].minItems = n]
          [] constraint.kind = "MAX_ITEMS" ->
               [schema EXCEPT ![node].maxItems = n]
          [] constraint.kind = "EMPTY" ->
               [schema EXCEPT ![node].maxItems = 0]

\* A constraint on a path the contract does not have raises, before any row.
Representable(constraints) ==
    \A n \in DOMAIN Contextual(constraints) : constraints[n].path \in Paths

compile_contract(constraints) ==
    FoldLeft(apply_schema_constraint, BaseSchema, Contextual(constraints))

SchemaAdmits(schema, result) ==
    \A p \in Paths : /\ schema[NodeOf[p]].minItems <= result[p]
                     /\ result[p] <= schema[NodeOf[p]].maxItems

-----------------------------------------------------------------------------
(* The validation of the answer.                                           *)

constraint_value_is_valid(constraint, size) ==
    CASE constraint.kind = "EXACT_ITEMS" -> size = constraint.value
      [] constraint.kind = "MIN_ITEMS"   -> size >= constraint.value
      [] constraint.kind = "MAX_ITEMS"   -> size <= constraint.value
      [] constraint.kind = "EMPTY"       -> size = 0

validate_result_shape(result, constraints) ==
    LET checked == Contextual(constraints)
    IN  \A n \in DOMAIN checked :
            constraint_value_is_valid(checked[n], result[checked[n].path])

-----------------------------------------------------------------------------
(* Strategy and budget.                                                    *)

NoStrategy == "NONE"

\* execute never asks for the JSON_OBJECT tier.
select_generation_strategy(native, required) ==
    IF native THEN "STRICT_SCHEMA"
    ELSE IF required THEN NoStrategy
    ELSE "JSON_INSTRUCTION"

Widened(tokens) == (3 * tokens + 1) \div 2

\* maximum = 0: the model's own maximum is not known.
select_output_budget(expected, maximum, recovery) ==
    LET ceiling == IF maximum = 0 THEN SafetyCeiling
                   ELSE Min({maximum, SafetyCeiling})
        target == IF recovery THEN Widened(Widened(expected))
                  ELSE Widened(expected)
    IN  Max({1, Min({target, ceiling})})
=============================================================================
