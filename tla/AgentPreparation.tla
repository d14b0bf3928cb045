--------------------------- MODULE AgentPreparation ---------------------------
(***************************************************************************)
(* What agents/execution.py execute decides before it calls a provider     *)
(* (775-1034), while memories are created and the catalog is refreshed by  *)
(* other requests: the contract is compiled, the memory context retrieved  *)
(* and bounded, a model routed for it, the context filtered for where that *)
(* model runs, and the strategy and output budget chosen.  AgentExecution  *)
(* continues from here.                                                    *)
(***************************************************************************)
EXTENDS ModelCatalog, ContextPackages, ContractExecution

CONSTANTS
    Memories,         \* MemoryCreate bodies clients may send, each with its id
    Requests,         \* what the execution is asked for
    ContextOverhead,  \* _CONTEXT_OVERHEAD_TOKENS and the input itself
    ExpectedOutput,   \* derived from the compiled schema
    Queries           \* routing requests of the simulation endpoint

\* An id is a memory's primary key.
ASSUME PreparationAssumption ==
    /\ Memories \subseteq MemoryRecords
    /\ \A m, n \in Memories : m.id = n.id => m = n
    /\ Requests \subseteq
          [memory : BOOLEAN, importance : Nat, limit : Nat,
           capabilities : SUBSET STRING, structured : BOOLEAN, grade : Nat,
           tools : BOOLEAN, minimumContext : Nat, constraints : Seq(Constraints)]
    /\ ContextOverhead \in Nat /\ ExpectedOutput \in Nat
    /\ Queries \subseteq RoutingRequests

VARIABLES
    store,    \* committed memory records
    request,  \* the request being prepared
    pc,       \* how far execute is
    schema,   \* profile.json_schema
    results,  \* what the retrieval returned
    package,  \* the frozen package, filtered once a target is routed
    route     \* the routing result

vars == <<catalog, refresh, store, request, pc, schema, results, package, route>>
preparation == <<request, pc, schema, results, package, route>>

NoPackage == [items |-> <<>>, included |-> 0, omitted |-> 0,
              policyOmitted |-> 0, referencesOmitted |-> 0, bytes |-> 0]
NoRoute == [selected |-> NoTarget, reasons |-> {}]

\* execute raises before it has written a row, or has failed the AgentRun.
Failures == {"raised", "memory_context_unavailable", "no_suitable_model",
             "contract_enforcement_unsatisfied",
             "native_structured_output_required"}

Init ==
    /\ CatalogInit
    /\ store = {}
    /\ request \in Requests
    /\ pc = "compile"
    /\ schema = BaseSchema
    /\ results = <<>> /\ package = NoPackage
    /\ route = NoRoute

-----------------------------------------------------------------------------
(* Other requests.                                                         *)

create_memory(memory) ==
    /\ memory \notin store
    /\ ValidMemory(memory)
    /\ store' = store \cup {memory}
    /\ UNCHANGED <<catalogVars, preparation>>

Refresh(r) ==
    /\ refresh_provider(r)
    /\ UNCHANGED <<store, preparation>>

-----------------------------------------------------------------------------
(* execute.                                                                *)

CompileContract ==
    /\ pc = "compile"
    /\ IF Representable(request.constraints)
       THEN /\ schema' = compile_contract(request.constraints)
            /\ pc' = IF request.memory THEN "retrieve" ELSE "route"
       ELSE pc' = "raised" /\ UNCHANGED schema
    /\ UNCHANGED <<catalogVars, store, request, results, package, route>>

\* A retrieval that fails, or a package whose provider form outgrows the
\* bound, fails the run.
RetrieveContext ==
    /\ pc = "retrieve"
    /\ LET found == retrieve_memories(store, request)
           full == assemble_context_package(found)
       IN  \/ /\ Projectable(full)
              /\ results' = found /\ package' = full
              /\ pc' = "route"
           \/ /\ pc' = "memory_context_unavailable"
              /\ UNCHANGED <<results, package>>
    /\ UNCHANGED <<catalogVars, store, request, schema, route>>

ContextEstimateBare ==
    Max({request.minimumContext, ContextOverhead})

\* _routing_request: sized for the complete package.
ContextEstimate ==
    Max({request.minimumContext,
         ContextOverhead
           + (IF request.memory THEN ProviderBytes(package.items) ELSE 0)})

routing_request ==
    [capabilities |-> request.capabilities, tools |-> request.tools,
     structured |-> request.structured, grade |-> request.grade,
     context |-> ContextEstimate, output |-> ExpectedOutput,
     policy |-> "LOWEST_COST", preferredProvider |-> "none",
     preferredModel |-> NoIdentity]

RouteModel ==
    /\ pc = "route"
    /\ LET outcome == simulate(catalog, routing_request)
       IN  /\ route' = outcome
           /\ IF outcome.selected = NoTarget
              THEN /\ pc' = IF "CONTRACT_ENFORCEMENT_UNSATISFIED" \in outcome.reasons
                            THEN "contract_enforcement_unsatisfied"
                            ELSE "no_suitable_model"
                   /\ UNCHANGED package
              ELSE /\ pc' = "plan"
                   /\ package' =
                        IF request.memory
                        THEN filter_context_package_for_target(
                                 package, outcome.selected.target)
                        ELSE package
    /\ UNCHANGED <<catalogVars, store, request, schema, results>>

strategy ==
    select_generation_strategy(
        "structured_output" \in route.selected.capabilities, request.structured)

budget(recovery) ==
    select_output_budget(ExpectedOutput, route.selected.maximum, recovery)

\* _generation_request: the schema is enforced by the provider only under the
\* strict strategy; the same is in the instructions under the other.
generation_request ==
    [memory |-> IF request.memory THEN package.items ELSE <<>>,
     schema |-> IF strategy = "STRICT_SCHEMA" THEN schema ELSE BaseSchema,
     tokens |-> budget(FALSE)]

SelectPlan ==
    /\ pc = "plan"
    /\ pc' = IF strategy = NoStrategy
             THEN "native_structured_output_required"
             ELSE "ready"
    /\ UNCHANGED <<catalogVars, store, request, schema, results, package, route>>

Next ==
    \/ \E memory \in Memories : create_memory(memory)
    \/ \E r \in Refreshers : Refresh(r)
    \/ CompileContract \/ RetrieveContext \/ RouteModel \/ SelectPlan

Spec == Init /\ [][Next]_vars

-----------------------------------------------------------------------------
(* Properties.                                                             *)

\* A memory its owner keeps local, and any RESTRICTED one, is in the context
\* of a routed execution only when the routed model runs locally, whatever
\* was retrieved before the target was known.
NoDisclosure ==
    pc \in {"plan", "ready"} =>
        \A n \in DOMAIN generation_request.memory :
            LET memory == generation_request.memory[n].memory
            IN  (memory.access = "LOCAL_ONLY" \/ memory.sensitivity = "RESTRICTED")
                    => route.selected.target = "LOCAL"

References(items) == FoldLeft(LAMBDA n, item : n + item.retained, 0, items)
ReferencesOwed(items) == FoldLeft(LAMBDA n, item : n + item.omitted, 0, items)

\* The package stays within each of its bounds and says truthfully how much
\* of the retrieval it leaves out: no item is dropped without being counted,
\* and the filter, which runs where no error is handled, can only shrink it.
ContextIsBounded ==
    LET items == package.items
    IN  pc \in {"route", "plan", "ready"} /\ request.memory =>
            /\ Len(items) <= MaxItems /\ References(items) <= MaxReferences
            /\ \A n \in DOMAIN items : items[n].retained <= MaxReferencesPerItem
            /\ package.bytes <= MaxBytes /\ Projectable(package)
            /\ package.included = Len(items)
            /\ package.included + package.omitted = Len(results)
            /\ package.policyOmitted <= package.omitted
            /\ package.referencesOmitted >= ReferencesOwed(items)

\* No constrained list shares its schema node with another list: a bound
\* compiled for one would also bind the other.
ListsApart ==
    \A r \in Requests : \A n \in DOMAIN Contextual(r.constraints) : \A p \in Paths :
        r.constraints[n].path \in Paths /\ NodeOf[p] = NodeOf[r.constraints[n].path]
            => p = r.constraints[n].path

\* The model that was routed for the complete package holds the context it is
\* sent, and the plan made for it is one it can keep: the schema admits every
\* answer the local validation would accept, a required native schema is
\* available, and the recovery budget neither shrinks nor leaves the model's
\* and the deployment's limits.
PlanIsConsistent ==
    LET selected == route.selected
        first == generation_request.tokens
        recovery == budget(TRUE)
    IN  /\ pc # "native_structured_output_required"
        /\ pc = "ready" =>
             /\ selected.window # Unknown =>
                    ContextOverhead + (IF request.memory
                        THEN ProviderBytes(package.items) ELSE 0)
                    <= selected.window
             /\ \A result \in Results :
                    validate_result_shape(result, request.constraints)
                        => SchemaAdmits(generation_request.schema, result)
             /\ 1 <= first /\ first <= recovery /\ recovery <= SafetyCeiling
             /\ selected.maximum # Unknown => recovery <= selected.maximum

\* Whatever the refreshes have left in the catalog, a routed target meets the
\* request by its own declaration (a provider-managed route never by a
\* catalog row of the same identity, a STALE or unsized row never at all),
\* and no model that also does has a lower known cost, unless the request
\* prefers it or prefers free ones.
RouteIsGuaranteed ==
    \A data \in Queries :
        LET selected == simulate(catalog, data).selected
            Meets(i, row) ==
                /\ row.status = "AVAILABLE"
                /\ row.window # Unknown /\ row.window >= data.context
                /\ requirements(data) \subseteq row.capabilities
                /\ IF i \in DOMAIN Qualifications /\ Qualifications[i].enabled
                   THEN Qualifications[i].grade >= data.grade
                   ELSE row.grade >= data.grade
                /\ data.policy = "FREE_ONLY" => row.free
        IN  /\ selected # NoTarget =>
                 IF selected.identity \in DOMAIN Routes
                 THEN LET own == Routes[selected.identity]
                      IN  /\ own.enabled /\ own.grade >= data.grade
                          /\ requirements(data) \subseteq own.capabilities
                 ELSE /\ Meets(selected.identity, catalog[selected.identity])
                      /\ selected.grade >= data.grade
            /\ \A i \in Identities \ DOMAIN Routes :
                 /\ Forced \in {NoIdentity, i}
                 /\ catalog[i] # Absent /\ Meets(i, catalog[i])
                 /\ cost(CatalogTarget(i, catalog[i]), data) # Unpriced
                 => /\ selected # NoTarget
                    /\ \/ data.policy = "PREFER_FREE" /\ selected.free
                       \/ selected.identity = data.preferredModel
                       \/ /\ cost(selected, data) # Unpriced
                          /\ cost(selected, data)
                               <= cost(CatalogTarget(i, catalog[i]), data)
                       \/ data.policy = "PREFER_FREE" /\ ~catalog[i].free

\* When a refresh commits, the catalog shows exactly what the provider
\* answered it for the models listed, and nothing that was AVAILABLE when it
\* looked for missing models is still, whatever another refresh did between
\* its statements; an aborted refresh shows nothing.
RefreshIsSnapshot ==
    [][\A r \in Refreshers :
        /\ refresh[r].pc # "done" /\ refresh'[r].pc = "done" =>
             /\ \A n \in DOMAIN refresh[r].listing :
                   LET model == refresh[r].listing[n]
                   IN  catalog'[model.identity] = CatalogRow(model)
             /\ \A i \in refresh[r].snapshot : catalog'[i].status = "STALE"
        /\ refresh[r].pc # "failed" /\ refresh'[r].pc = "failed"
             => catalog' = catalog]_vars

=============================================================================
