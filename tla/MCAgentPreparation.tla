-------------------------- MODULE MCAgentPreparation --------------------------
(***************************************************************************)
(* A small catalog (one local model, two remote ones and a remote route),  *)
(* four memories and four executions to prepare.                           *)
(***************************************************************************)
EXTENDS AgentPreparation, TLC

MCIdentities == 1 .. 4
MCProviderOf == [i \in MCIdentities |-> IF i = 1 THEN "local" ELSE "remote"]
MCRoutes ==
    4 :> [enabled |-> TRUE, target |-> "REMOTE", window |-> Unknown,
          maximum |-> Unknown, capabilities |-> {"coding"}, grade |-> 0,
          free |-> TRUE]
MCQualifications == 3 :> [grade |-> 2, enabled |-> TRUE]

LocalRow == [status |-> "AVAILABLE", target |-> "LOCAL", window |-> 9,
             maximum |-> 5, capabilities |-> {"coding", "structured_output"},
             grade |-> 1, input |-> 3, output |-> 3, free |-> FALSE]
MCInitialCatalogs ==
    {[i \in MCIdentities |-> IF i = 1 THEN LocalRow ELSE Absent],
     [i \in MCIdentities |->
        IF i = 1 THEN LocalRow
        ELSE IF i = 2 THEN [LocalRow EXCEPT !.target = "REMOTE", !.input = 2]
        ELSE Absent]}

Model(i, window, capabilities, grade, input) ==
    [identity |-> i, target |-> "REMOTE", window |-> window, maximum |-> 8,
     capabilities |-> capabilities, grade |-> grade,
     input |-> input, output |-> 1]
Two == Model(2, 20, {"coding", "structured_output"}, NoGrade, 1)
TwoUnsized == Model(2, Unknown, {"coding", "structured_output"}, NoGrade, 1)
Three == Model(3, 12, {"coding", "structured_output", "tool_calling"}, 0, Unpriced)
Four == Model(4, 20, {"coding", "structured_output"}, 3, 0)
MCListings == {<<Two>>, <<Three, Two>>, <<Two, Three>>, <<Three>>,
               <<TwoUnsized, Four>>, <<Two, Two>>}

Memory(id, importance, knowledge, sensitivity, access, bytes, refs) ==
    [id |-> id, importance |-> importance, since |-> 0, until |-> 99,
     lifecycle |-> "ACTIVE", knowledge |-> knowledge, kind |-> "facts",
     sensitivity |-> sensitivity, access |-> access,
     bytes |-> bytes, refs |-> refs]
MCMemories ==
    {Memory(1, 3, "CONFIRMED_FACT", "RESTRICTED", "LOCAL_ONLY", 2, 2),
     Memory(2, 2, "DISPUTED", "INTERNAL", "LOCAL_ONLY", 4, 1),
     Memory(3, 2, "CONFIRMED_FACT", "SENSITIVE", "LOCAL_AND_REMOTE", 1, 3),
     Memory(5, 1, "INFERENCE", "RESTRICTED", "LOCAL_AND_REMOTE", 1, 1),
     [Memory(4, 3, "INFERENCE", "INTERNAL", "LOCAL_ONLY", 1, 1)
        EXCEPT !.lifecycle = "ARCHIVED"]}

Constraint(path, kind, value) == [path |-> path, kind |-> kind, value |-> value]
Fixed == <<Constraint("handoffs", "EXACT_ITEMS", 1),
           Constraint("actions", "EMPTY", 0)>>
Overlapping == <<Constraint("handoffs", "EXACT_ITEMS", 2),
                 Constraint("handoffs", "MIN_ITEMS", 1),
                 Constraint("actions", "MAX_ITEMS", 1)>>
Unknowable == <<Constraint("missing", "MIN_ITEMS", 1)>>

Ask(memory, structured, grade, tools, constraints) ==
    [memory |-> memory, importance |-> 1, limit |-> 4,
     capabilities |-> {"coding"}, structured |-> structured, grade |-> grade,
     tools |-> tools, minimumContext |-> 1, constraints |-> constraints]
MCRequests ==
    {Ask(TRUE, FALSE, 0, FALSE, Fixed), Ask(TRUE, TRUE, 1, FALSE, Overlapping),
     Ask(TRUE, TRUE, 2, TRUE, <<>>), Ask(FALSE, FALSE, 3, FALSE, Unknowable)}

MCSymmetry == Permutations(Refreshers)

MCNodeOf == [p \in {"handoffs", "actions"} |-> p]

\* The requests of the runs have no two lists under one schema node.
ASSUME RequestsKeepListsApart == ListsApart

Query(capabilities, structured, grade, policy, preferred) ==
    [capabilities |-> capabilities, tools |-> FALSE, structured |-> structured,
     grade |-> grade, context |-> 10, output |-> 4, policy |-> policy,
     preferredProvider |-> "local", preferredModel |-> preferred]
MCQueries ==
    {Query({"coding"}, FALSE, 0, "LOWEST_COST", NoIdentity),
     Query({}, TRUE, 2, "LOWEST_COST", NoIdentity),
     Query({"coding"}, TRUE, 0, "PREFER_FREE", NoIdentity),
     Query({"coding"}, FALSE, 0, "FREE_ONLY", 3),
     Query({}, FALSE, 0, "LOWEST_COST", 3)}
=============================================================================
