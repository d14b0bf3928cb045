----------------------------- MODULE ModelRouter -----------------------------
(***************************************************************************)
(* Model routing (model_router/service.py): which catalog model or         *)
(* provider-managed route serves a request.  Pure: the catalog is the one  *)
(* read in the request's transaction.                                      *)
(*                                                                         *)
(* Identities are numbered in the order of (provider_id, model_id).  A     *)
(* catalog row is Absent or                                                *)
(*   [status, target, window, maximum, capabilities, grade,                *)
(*    input, output, free]                                                 *)
(* with window, maximum = Unknown and input, output = Unpriced when the    *)
(* provider does not say.  A route declares the same, and no price.        *)
(***************************************************************************)
EXTENDS Integers, FiniteSets

CONSTANTS
    Identities,      \* (provider_id, provider_model_id), numbered in order
    ProviderOf,      \* [Identities -> providers]
    Routes,          \* provider-managed routes: a function on some identities
    Qualifications,  \* governed_provider_qualifications, likewise
    Forced           \* model_router_force_model_pair, or NoIdentity

Absent == [status |-> "ABSENT"]
Unknown == 0
Unpriced == -1
NoIdentity == 0
NoTarget == [identity |-> NoIdentity]

\* What a row, a route, a qualification and a routing request may hold (a
\* preference for what is not in the catalog is as none).
Targets == {"LOCAL", "REMOTE"}
Rows ==
    [status : {"AVAILABLE", "STALE"}, target : Targets, window : Nat,
     maximum : Nat, capabilities : SUBSET STRING, grade : Nat,
     input : Nat \cup {Unpriced}, output : Nat \cup {Unpriced}, free : BOOLEAN]
ManagedRoutes ==
    [enabled : BOOLEAN, target : Targets, window : Nat, maximum : Nat,
     capabilities : SUBSET STRING, grade : Nat, free : BOOLEAN]
RoutingRequests ==
    [capabilities : SUBSET STRING, tools : BOOLEAN, structured : BOOLEAN,
     grade : Nat, context : Nat, output : Nat,
     policy : {"LOWEST_COST", "PREFER_FREE", "FREE_ONLY"},
     preferredProvider : {"none"} \cup {ProviderOf[i] : i \in Identities},
     preferredModel : Identities \cup {NoIdentity}]

ASSUME RouterAssumption ==
    /\ Identities \subseteq Nat \ {NoIdentity}
    /\ DOMAIN Routes \subseteq Identities
    /\ \A i \in DOMAIN Routes : Routes[i] \in ManagedRoutes
    /\ \A i \in DOMAIN Qualifications :
            Qualifications[i] \in [grade : Nat, enabled : BOOLEAN]

CatalogTarget(identity, row) ==
    [identity |-> identity, managed |-> FALSE,
     offered |-> row.status = "AVAILABLE", target |-> row.target,
     window |-> row.window, maximum |-> row.maximum,
     capabilities |-> row.capabilities, grade |-> row.grade,
     input |-> row.input, output |-> row.output, free |-> row.free]

RouteTarget(identity) ==
    LET route == Routes[identity]
    IN  [identity |-> identity, managed |-> TRUE, offered |-> route.enabled,
         target |-> route.target, window |-> route.window,
         maximum |-> route.maximum, capabilities |-> route.capabilities,
         grade |-> route.grade, input |-> Unpriced, output |-> Unpriced,
         free |-> route.free]

CatalogKeepsRow(catalog) ==
    {CatalogTarget(i, catalog[i]) : i \in {j \in Identities : catalog[j] # Absent}}
    \cup {RouteTarget(i) : i \in {j \in DOMAIN Routes : catalog[j] = Absent}}

\* One target per identity, and a route replaces the catalog's row, before
\* anything is known of either's availability.
canonicalize_targets(catalog) ==
    {RouteTarget(i) : i \in DOMAIN Routes}
    \cup {CatalogTarget(i, catalog[i]) :
            i \in {j \in Identities \ DOMAIN Routes : catalog[j] # Absent}}

requirements(data) ==
    data.capabilities
    \cup (IF data.tools THEN {"tool_calling"} ELSE {})
    \cup (IF data.structured THEN {"structured_output"} ELSE {})

\* A qualification is an overlay on a catalog identity, never on a route.
Qualified(target) ==
    /\ ~target.managed
    /\ target.identity \in DOMAIN Qualifications
    /\ Qualifications[target.identity].enabled

enforcement_grade(target) ==
    IF Qualified(target) THEN Qualifications[target.identity].grade
    ELSE target.grade

cost(target, data) ==
    IF target.input = Unpriced
         \/ (data.output # Unknown /\ target.output = Unpriced)
    THEN Unpriced
    ELSE data.context * target.input
         + (IF data.output = Unknown THEN 0 ELSE data.output * target.output)

-----------------------------------------------------------------------------
(* Filters, in the order they are applied.                                 *)

Considered(catalog) ==
    {t \in canonicalize_targets(catalog) :
        t.offered /\ Forced \in {NoIdentity, t.identity}}

\* A route may leave its window open; a catalog model may not.
HoldsContext(t, data) ==
    IF t.window = Unknown THEN t.managed ELSE t.window >= data.context

Rejection(t, data) ==
    IF ~HoldsContext(t, data) THEN "CONTEXT_UNSATISFIED"
    ELSE IF ~(requirements(data) \subseteq t.capabilities)
    THEN "CAPABILITY_UNSATISFIED"
    ELSE IF enforcement_grade(t) < data.grade
    THEN "CONTRACT_ENFORCEMENT_UNSATISFIED"
    ELSE IF data.policy = "FREE_ONLY" /\ ~t.free
    THEN "FREE_ONLY_POOL_EMPTY"
    ELSE "NONE"

EligibleTargets(catalog, data) ==
    {t \in Considered(catalog) : Rejection(t, data) = "NONE"}

no_suitable_reasons(catalog, data) ==
    IF Considered(catalog) = {} THEN {"NO_AVAILABLE_MODELS"}
    ELSE {Rejection(t, data) : t \in Considered(catalog)}

-----------------------------------------------------------------------------
(* Ranking.                                                                *)

rank_key(t, data) ==
    <<IF ~t.free /\ data.policy = "PREFER_FREE" THEN 1 ELSE 0,
      IF cost(t, data) = Unpriced THEN 1 ELSE 0,
      IF cost(t, data) = Unpriced THEN 0 ELSE cost(t, data),
      IF ProviderOf[t.identity] = data.preferredProvider THEN 0 ELSE 1,
      t.identity>>

Precedes(a, b) ==
    \E n \in DOMAIN a : a[n] < b[n] /\ \A m \in 1 .. n - 1 : a[m] = b[m]

Cheapest(targets, data) ==
    CHOOSE t \in targets :
        \A u \in targets \ {t} : Precedes(rank_key(t, data), rank_key(u, data))

\* Only a catalog model has an id to be preferred by.
Preferred(targets, data) ==
    {t \in targets : ~t.managed /\ t.identity = data.preferredModel}

Select(targets, data) ==
    IF Preferred(targets, data) # {}
    THEN CHOOSE t \in Preferred(targets, data) : TRUE
    ELSE Cheapest(targets, data)

simulate(catalog, data) ==
    LET eligible == EligibleTargets(catalog, data)
    IN  IF eligible = {}
        THEN [selected |-> NoTarget,
              reasons |-> no_suitable_reasons(catalog, data)]
        ELSE LET t == Select(eligible, data)
             IN  [selected |-> [t EXCEPT !.grade = enforcement_grade(t)],
                  reasons |-> {"AVAILABLE"}]
=============================================================================
