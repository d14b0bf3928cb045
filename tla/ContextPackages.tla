--------------------------- MODULE ContextPackages ---------------------------
(***************************************************************************)
(* Structured memory as an agent execution consumes it: creation rules     *)
(* (memories/schemas.py), retrieval (memories/repository.py), the bounded  *)
(* context package and its projection for the routed target                *)
(* (memories/context_packages.py, memories/disclosure.py).  All of it is   *)
(* pure; AgentPreparation supplies the state it is applied to.             *)
(*                                                                         *)
(* A memory is a record                                                    *)
(*   [id, importance, since, until, lifecycle, knowledge, kind,            *)
(*    sensitivity, access, bytes, refs]                                    *)
(* where bytes is the size of its statement and refs how many provenance   *)
(* references it has.  Sizes are abstract units: a header, an item's fixed *)
(* fields and a reference each have a weight, as in the two JSON forms.    *)
(***************************************************************************)
EXTENDS Naturals, Sequences, FiniteSets, SequencesExt, FiniteSetsExt, Folds

CONSTANTS
    MaxItems,              \* ContextPackageBounds.max_items
    MaxBytes,              \* ContextPackageBounds.max_serialized_bytes
    MaxReferencesPerItem,  \* ContextPackageBounds.max_provenance_per_item
    MaxReferences,         \* ContextPackageBounds.max_provenance_references
    PackageHeader,         \* metadata of a serialized package
    ProviderHeader         \* authority and bounded blocks of the provider form

Now == 1
Forever == 99
DefaultKnowledge == {"CONFIRMED_FACT", "INFERENCE", "DISPUTED"}

\* The bounds are fields of a settings object that admits no smaller package
\* than its metadata (max_serialized_bytes is at least 1024).
ASSUME BoundsAssumption ==
    /\ {MaxItems, MaxBytes, MaxReferencesPerItem, MaxReferences} \subseteq Nat
    /\ {PackageHeader, ProviderHeader} \subseteq Nat
    /\ PackageHeader <= MaxBytes

MemoryRecords ==
    [id : Nat, importance : Nat, since : Nat, until : Nat, lifecycle : STRING,
     knowledge : STRING, kind : STRING, sensitivity : STRING,
     access : {"LOCAL_ONLY", "LOCAL_AND_REMOTE"}, bytes : Nat, refs : Nat]

\* MemoryCreate.validate_shape, and the table's check constraints.
ValidMemory(memory) ==
    /\ memory.until > memory.since
    /\ memory.sensitivity = "RESTRICTED" => memory.access = "LOCAL_ONLY"

-----------------------------------------------------------------------------
(* Retrieval.                                                              *)

Admissible(memory, request) ==
    /\ memory.since <= Now /\ Now < memory.until
    /\ memory.lifecycle = "ACTIVE"
    /\ memory.knowledge \in DefaultKnowledge
    /\ memory.importance >= request.importance

RetrievedBefore(a, b) ==
    \/ a.importance > b.importance
    \/ a.importance = b.importance /\ a.since > b.since
    \/ a.importance = b.importance /\ a.since = b.since /\ a.id < b.id

\* ORDER BY: each memory at its rank.
InOrder(memories) ==
    [n \in 1 .. Cardinality(memories) |->
        CHOOSE m \in memories :
            Cardinality({other \in memories : RetrievedBefore(other, m)}) = n - 1]

retrieve_memories(store, request) ==
    LET found == InOrder({m \in store : Admissible(m, request)})
    IN  SubSeq(found, 1, Min({request.limit, Len(found)}))

-----------------------------------------------------------------------------
(* The package.                                                            *)

Group(memory) ==
    IF memory.knowledge = "DISPUTED" THEN "disputed" ELSE memory.kind

ItemUnrationed(memory, remaining) ==
    LET retained == Min({memory.refs, MaxReferencesPerItem})
    IN  [memory |-> memory, group |-> Group(memory),
         retained |-> retained, omitted |-> memory.refs - retained]

Item(memory, remaining) ==
    LET retained == Min({memory.refs, MaxReferencesPerItem, remaining})
    IN  [memory |-> memory, group |-> Group(memory),
         retained |-> retained, omitted |-> memory.refs - retained]

TotalWeight(items, fixed) ==
    FoldLeft(LAMBDA total, item : total + item.memory.bytes + item.retained + fixed, 0, items)

\* lexical_relevance and model_access are the one unit that only the package's
\* form of an item carries.
PackageBytes(items) ==
    PackageHeader
    + TotalWeight(items, 1)

ProviderBytes(items) ==
    ProviderHeader
    + TotalWeight(items, 0)

\* One turn of the greedy loop: an item is tried only while there is room for
\* another, and dropped whole when the package would outgrow its bytes; a
\* later, smaller one may still be kept.
AddResult(acc, memory) ==
    LET item == Item(memory, MaxReferences - acc.retained)
        more == Append(acc.items, item)
    IN  IF Len(acc.items) >= MaxItems \/ PackageBytes(more) > MaxBytes
        THEN acc
        ELSE [items |-> more,
              retained |-> acc.retained + item.retained,
              omitted |-> acc.omitted + item.omitted]

assemble_context_package(results) ==
    LET acc == FoldLeft(AddResult,
                        [items |-> <<>>, retained |-> 0, omitted |-> 0],
                        results)
    IN  [items |-> acc.items,
         included |-> Len(acc.items),
         omitted |-> Len(results) - Len(acc.items),
         policyOmitted |-> 0,
         referencesOmitted |-> acc.omitted,
         bytes |-> PackageBytes(acc.items)]

EligibleUnlessRestricted(memory, target) ==
    target = "LOCAL" \/ memory.sensitivity # "RESTRICTED"

Eligible(memory, target) ==
    target = "LOCAL" \/ memory.access = "LOCAL_AND_REMOTE"

Kept(items, target) ==
    FoldLeft(LAMBDA kept, item :
                IF Eligible(item.memory, target) THEN Append(kept, item) ELSE kept,
             <<>>, items)

\* The counts move, the provenance count does not; nothing dropped for its
\* size comes back when the filter makes room.
filter_context_package_for_target(package, target) ==
    LET kept == Kept(package.items, target)
        withheld == Len(package.items) - Len(kept)
    IN  [package EXCEPT !.items = kept,
                        !.included = @ - withheld,
                        !.omitted = @ + withheld,
                        !.policyOmitted = @ + withheld,
                        !.bytes = PackageBytes(kept)]

\* _provider_memory_context raises when its own form outgrows the bound.
Projectable(package) == ProviderBytes(package.items) <= MaxBytes
=============================================================================
