---------------------------- MODULE MCActivityStream ----------------------------
(* The plans that requests bring: two steps in sequence, a cycle, and a    *)
(* reference to a step the plan does not have.                             *)
EXTENDS ActivityStream

Step(k, ds) == [step_key |-> k, depends_on |-> ds]
MCDrafts == {<<Step(2, {}), Step(1, {2})>>, <<Step(1, {2}), Step(2, {1})>>, <<Step(1, {}), Step(2, {3})>>}

\* validate_graph accepts exactly the graphs without a cycle, a self-reference
\* or a reference out of the plan, and gives an order that respects them:
\* every plan of three steps, in every order of its keys.
ASSUME ValidatesExactly ==
    \A keys \in {f \in [1 .. 3 -> 1 .. 3] : IsInjective(f)}, needs \in [1 .. 3 -> SUBSET (1 .. 4)] :
        LET data == [i \in 1 .. 3 |-> Step(keys[i], needs[i])] IN
        /\ validate_graph(data) <=> Acyclic(data) /\ \A i \in 1 .. 3 : needs[i] \subseteq 1 .. 3
        /\ validate_graph(data) =>
              /\ Respects(Ordered(data), data)
              /\ Stored(Reread(Stored(data))) = Stored(data) /\ validate_graph(Reread(Stored(data)))
=============================================================================
