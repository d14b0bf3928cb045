----------------------------- MODULE ModelCatalog -----------------------------
(***************************************************************************)
(* Refreshing the persistent model catalog                                 *)
(* (model_catalog/service.py refresh_provider, model_catalog/repository.py)*)
(* by concurrent requests.  A refresh asks the provider for its models,    *)
(* then writes in one READ COMMITTED transaction: an upsert per model, in  *)
(* the provider's order, each waiting for the row's lock; one UPDATE that  *)
(* marks the AVAILABLE rows of the provider that were not returned STALE;  *)
(* commit.  The UPDATE sees the rows committed when it starts and, after   *)
(* waiting for a lock, looks at the row again.                             *)
(***************************************************************************)
EXTENDS ModelRouter, Sequences, FiniteSetsExt, SequencesExt, Functions

CONSTANTS
    Refreshers,     \* refresh requests, all for RefreshedProvider
    RefreshedProvider,
    InitialCatalogs,\* committed catalogs to start from
    Listings,       \* what the provider may answer: sequences of models
    FreeAllowlist   \* identities of model_catalog_free_allowlist_pairs

VARIABLES
    catalog,   \* [Identities -> row or Absent], committed
    refresh    \* [Refreshers -> its request and transaction]

catalogVars == <<catalog, refresh>>

NoGrade == -1

\* What a provider says of a model.
Models ==
    [identity : Identities, target : Targets, window : Nat, maximum : Nat,
     capabilities : SUBSET STRING, grade : Nat \cup {NoGrade},
     input : Nat \cup {Unpriced}, output : Nat \cup {Unpriced}]

ASSUME CatalogAssumption ==
    /\ InitialCatalogs \subseteq [Identities -> Rows \cup {Absent}]
    /\ Listings \subseteq Seq(Models)

NoWrites == [i \in {} |-> Absent]
IdleRefresh ==
    [pc |-> "idle", listing |-> <<>>, next |-> 1, writes |-> NoWrites,
     snapshot |-> {}, todo |-> {}]

Identifiers(listing) == {listing[n].identity : n \in DOMAIN listing}

\* The values of an upsert: the grade defaults from the declared capability.
CatalogRow(model) ==
    [status |-> "AVAILABLE", target |-> model.target,
     window |-> model.window, maximum |-> model.maximum,
     capabilities |-> model.capabilities,
     grade |-> IF model.grade # NoGrade THEN model.grade
               ELSE IF "structured_output" \in model.capabilities THEN 1 ELSE 0,
     input |-> model.input, output |-> model.output,
     free |-> model.identity \in FreeAllowlist]

CatalogInit ==
    /\ catalog \in InitialCatalogs
    /\ refresh = [r \in Refreshers |-> IdleRefresh]

-----------------------------------------------------------------------------
(* Locks.                                                                  *)

Holds(r, i) == i \in DOMAIN refresh[r].writes

LockedByAnother(r, i) == \E s \in Refreshers \ {r} : Holds(s, i)

\* The row as transaction r sees it: its own write, else the committed one.
Seen(r, i) == IF Holds(r, i) THEN refresh[r].writes[i] ELSE catalog[i]

WantedRows(r) ==
    CASE refresh[r].pc = "upserting"
           /\ refresh[r].next <= Len(refresh[r].listing) ->
             {refresh[r].listing[refresh[r].next].identity}
      [] refresh[r].pc = "staling" -> refresh[r].todo
      [] OTHER -> {}

WaitsFor(r, s) == r # s /\ \E i \in WantedRows(r) : Holds(s, i)

Write(txn, i, row) ==
    [txn EXCEPT !.writes = [j \in DOMAIN @ \cup {i} |-> IF j = i THEN row ELSE @[j]]]
Aborted(txn) == [IdleRefresh EXCEPT !.pc = "failed"]

-----------------------------------------------------------------------------
(* One refresh.                                                            *)

\* The provider answers; an error, or a model listed twice, ends the request.
ListModels(r) ==
    /\ refresh[r].pc = "idle"
    /\ \/ \E listing \in Listings :
            refresh' = [refresh EXCEPT ![r] =
                IF Cardinality(Identifiers(listing)) # Len(listing)
                THEN Aborted(@)
                ELSE [@ EXCEPT !.pc = "upserting", !.listing = listing]]
       \/ refresh' = [refresh EXCEPT ![r] = Aborted(@)]
    /\ UNCHANGED catalog

UpsertModelCommitted(r) ==
    /\ refresh[r].pc = "upserting"
    /\ refresh[r].next <= Len(refresh[r].listing)
    /\ LET model == refresh[r].listing[refresh[r].next]
       IN  catalog' = [catalog EXCEPT ![model.identity] = CatalogRow(model)]
    /\ refresh' = [refresh EXCEPT ![r].next = @ + 1]

UpsertModel(r) ==
    /\ refresh[r].pc = "upserting"
    /\ refresh[r].next <= Len(refresh[r].listing)
    /\ LET model == refresh[r].listing[refresh[r].next]
           written == Write(refresh[r], model.identity, CatalogRow(model))
       IN  /\ ~LockedByAnother(r, model.identity)
           /\ refresh' = [refresh EXCEPT ![r] = [written EXCEPT !.next = @ + 1]]
    /\ UNCHANGED catalog

\* mark_missing_stale starts: the rows its WHERE clause selects, of those
\* committed by now and its own.
StartStaling(r) ==
    /\ refresh[r].pc = "upserting"
    /\ refresh[r].next > Len(refresh[r].listing)
    /\ LET missing == {i \in Identities \ Identifiers(refresh[r].listing) :
                          /\ ProviderOf[i] = RefreshedProvider
                          /\ Seen(r, i).status = "AVAILABLE"}
       IN  refresh' = [refresh EXCEPT ![r].pc = "staling",
                                      ![r].snapshot = missing,
                                      ![r].todo = missing]
    /\ UNCHANGED catalog

\* The row is locked in its newest version, which is tested again: what
\* another refresh has made STALE since the statement began is not written, and
\* stays locked.
MarkStale(r) ==
    /\ refresh[r].pc = "staling"
    /\ \E i \in refresh[r].todo :
        LET row == IF Seen(r, i).status = "AVAILABLE"
                   THEN [Seen(r, i) EXCEPT !.status = "STALE"]
                   ELSE Seen(r, i)
            written == Write(refresh[r], i, row)
        IN  /\ ~LockedByAnother(r, i)
            /\ refresh' = [refresh EXCEPT ![r] = [written EXCEPT !.todo = @ \ {i}]]
    /\ UNCHANGED catalog

CommitRefresh(r) ==
    /\ refresh[r].pc = "staling" /\ refresh[r].todo = {}
    /\ catalog' = [i \in Identities |-> Seen(r, i)]
    /\ refresh' = [refresh EXCEPT ![r].pc = "done", ![r].writes = NoWrites]

\* The database refuses a statement: the connection fails, or the two
\* transactions wait for each other and this one is the victim.
RollbackRefresh(r) ==
    /\ refresh[r].pc \in {"upserting", "staling"}
    /\ refresh' = [refresh EXCEPT ![r] = Aborted(@)]
    /\ UNCHANGED catalog

refresh_provider(r) ==
    \/ ListModels(r)
    \/ UpsertModel(r)
    \/ StartStaling(r)
    \/ MarkStale(r)
    \/ CommitRefresh(r)
    \/ RollbackRefresh(r)
=============================================================================
