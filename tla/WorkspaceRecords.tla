--------------------------- MODULE WorkspaceRecords ---------------------------
(***************************************************************************)
(* The projects, tasks, plans and runs of one workspace, and what is       *)
(* recorded about them: a RuntimeEvent in the transaction that creates a   *)
(* project or a task, an AuditRecord in the one that updates it or adds a  *)
(* plan, and the events other services append on their own.  Requests run  *)
(* concurrently; a request is a READ COMMITTED transaction (three of them  *)
(* for a development workflow) that takes row locks statement by           *)
(* statement, waits for conflicting ones, and is rolled back on any error. *)
(* occurred_at is now(), the time the transaction BEGAN, so that events    *)
(* become visible in another order than the one they are sorted by.        *)
(***************************************************************************)
EXTENDS PlanGraph

CONSTANTS
    Sessions,       \* the database sessions of concurrent requests
    Projects,       \* project ids; one is used once
    Tasks,          \* task ids; one is used once
    Slugs,          \* project slugs
    Drafts,         \* the plans requests bring, valid ones and others
    EventIds,       \* the ids of events, ordered as UUIDs are; enough for every request
    None,           \* a column or a request field that is NULL
    MaxRequests     \* bound: the requests made

ASSUME RecordsAssumption ==
    /\ MaxRequests \in Nat
    /\ EventIds \in SUBSET Nat /\ {1, 2} \subseteq EventIds
    /\ IsFiniteSet(EventIds) /\ Cardinality(EventIds) >= 2 * MaxRequests + 2
    /\ Projects # {} /\ Tasks # {} /\ Projects \cap Tasks = {}
    /\ {"new", "gone", None} \cap (Projects \cup Tasks \cup Slugs) = {}
    /\ Drafts \subseteq Seq([step_key : Nat, depends_on : SUBSET Nat])

VARIABLES
    project,    \* "new", the slug of the live row, or "gone"
    task,       \* "new", the project of the live row, or "gone"
    plans,      \* the plan versions of each task, in the order of commits
    runs,       \* the workflow runs of each task, ON DELETE RESTRICT as plans are
    events,     \* runtime_events, as committed
    audits,     \* audit_records of each resource, as committed
    updates,    \* history: the updates and plans of each resource that committed
    clock,      \* the database's clock
    begun,      \* requests made so far
    pc,         \* what each session's request does next
    req,        \* the request
    number,     \* the plan version, then the run, a request works on
    since,      \* now() in its transaction
    held,       \* the row locks it holds
    staged      \* the events and audit records it has flushed

tables == <<project, task, plans, runs, events, audits, updates>>
sessions == <<pc, req, number, since, held, staged>>
recordVars == <<tables, sessions, clock, begun>>

Live(p) == project[p] \in Slugs
TasksOf(p) == {t \in Tasks : task[t] = p}

Versions(t) == {plans[t][i].version : i \in DOMAIN plans[t]}
Planned == {t \in Tasks : plans[t] # <<>>}

Request ==
    LET Ask(op, ps, ts, slugs, drafts) ==
            [op : op, project : ps, task : ts, slug : slugs, draft : drafts]
    IN  Ask({"create_project", "update_project"}, Projects, {None}, Slugs, {None})
        \cup Ask({"update_project", "delete_project"}, Projects, {None}, {None}, {None})
        \cup Ask({"create_task", "update_task", "delete_task", "create_run"},
                 Projects, Tasks, {None}, {None})
        \cup Ask({"create_plan", "create_version"}, Projects, Tasks, {None}, Drafts)
        \cup Ask({"develop"}, Projects, Tasks, {None}, {DevelopmentPlan})
        \cup Ask({"report"}, {None}, {None}, {None}, {None})

Planning(r) == r.op \in {"create_plan", "create_version", "develop"}
Subject(r) == IF r.task # None THEN r.task ELSE r.project
NoRequest == [op |-> "report", project |-> None, task |-> None, slug |-> None, draft |-> None]

-----------------------------------------------------------------------------
(* Row locks.  "key" is what DELETE and an UPDATE of the slug take,        *)
(* "update" any other UPDATE, "share" the foreign-key check of an INSERT.  *)

Conflicting(m, n) == m = "key" \/ n = "key" \/ (m = "update" /\ n = "update")

\* The locks the next statement of a session takes.
Wants(a) ==
    LET r == req[a] IN
    CASE pc[a] = "write" /\ r.op = "create_task"    -> {<<r.project, "share">>}
      [] pc[a] = "write" /\ r.op = "update_project" ->
            {<<r.project, IF r.slug = None THEN "update" ELSE "key">>}
      [] pc[a] = "write" /\ r.op = "delete_project" -> {<<r.project, "key">>}
      [] pc[a] = "write" /\ r.op = "update_task"    -> {<<r.task, "update">>}
      [] pc[a] = "write" /\ r.op = "delete_task"    -> {<<r.task, "key">>}
      [] pc[a] = "run" \/ (pc[a] = "write" /\ Planning(r)) -> {r.project, r.task} \X {"share"}
      [] pc[a] = "cascade"                          -> TasksOf(r.project) \X {"key"}
      [] pc[a] = "log" /\ r.op = "update_task"      -> {<<r.project, "share">>}
      [] OTHER -> {}

\* The unique index of slugs makes a writer wait for whoever is about to
\* take the slug, or to give it up.
SlugWait(a, b) ==
    /\ pc[a] = "write" /\ req[a].slug # None /\ pc[b] \in {"log", "cascade", "commit"}
    /\ \/ req[b].slug = req[a].slug
       \/ \E p \in Projects \ {req[a].project} :
             project[p] = req[a].slug /\ <<p, "key">> \in held[b]

\* So does the one of a task's versions.
VersionWait(a, b) ==
    /\ pc[a] = "write" /\ pc[b] \in {"log", "commit"} /\ Planning(req[a]) /\ Planning(req[b])
    /\ req[a].task = req[b].task /\ number[a] = number[b]

Waits(a, b) ==
    /\ a # b
    /\ \/ SlugWait(a, b) \/ VersionWait(a, b)
       \/ \E w \in Wants(a), h \in held[b] : w[1] = h[1] /\ Conflicting(w[2], h[2])

Blocked(a) == \E b \in Sessions : Waits(a, b)

-----------------------------------------------------------------------------
At(a, label) == pc[a] = label
Goto(a, label) == pc' = [pc EXCEPT ![a] = label]

\* The end of a request: its locks go, and what it had not committed.
Release(a) ==
    /\ Goto(a, "idle")
    /\ req' = [req EXCEPT ![a] = NoRequest]
    /\ number' = [number EXCEPT ![a] = 0]
    /\ since' = [since EXCEPT ![a] = 0]
    /\ held' = [held EXCEPT ![a] = {}]
    /\ staged' = [staged EXCEPT ![a] = {}]
    /\ UNCHANGED <<clock, begun>>
Rollback(a) == Release(a) /\ UNCHANGED tables

\* Ids are UUIDs: no two requests create the same row.
Unused(x, status) == status = "new" /\ \A b \in Sessions : Subject(req[b]) # x

\* _require_workspace and _require_scope; a scope that is not there is a 404.
RequireScope(r) == r.task # None => Live(r.project)

\* latest_plan, or the plan a run is made of: the number a request works
\* with, if it may go on at all.
PlanNumbers(r) ==
    CASE r.op \in {"create_plan", "develop"} -> IF r.task \in Planned THEN {} ELSE {1}
      [] r.op = "create_version" -> {v + 1 : v \in {w \in Versions(r.task) :
                                                    \A x \in Versions(r.task) : x <= w}}
      [] r.op = "create_run"     -> IF task[r.task] = r.project THEN Versions(r.task) ELSE {}
      [] OTHER                   -> {0}

\* The first reads of a request begin its transaction.
Begin(a, r) ==
    /\ At(a, "idle")
    /\ begun < MaxRequests
    /\ r.op = "create_project" => Unused(r.project, project[r.project])
    /\ r.op = "create_task" => Unused(r.task, task[r.task])
    /\ RequireScope(r)
    /\ Planning(r) => task[r.task] = r.project /\ validate_graph(r.draft)
    /\ \E n \in PlanNumbers(r) : number' = [number EXCEPT ![a] = n]
    /\ clock' = clock + 1
    /\ begun' = begun + 1
    /\ req' = [req EXCEPT ![a] = r]
    /\ since' = [since EXCEPT ![a] = clock']
    /\ Goto(a, CASE r.op = "report" -> "log" [] r.op = "create_run" -> "run" [] OTHER -> "write")
    /\ UNCHANGED <<tables, held, staged>>

SlugFree(r) == r.slug # None => \A p \in Projects \ {r.project} : project[p] # r.slug

\* Mutant: no unique constraint on the version.
VersionIgnored(r, version) == Planning(r) /\ task[r.task] = r.project

\* What each statement must find, once nothing blocks it: a free slug or
\* version, the row it refers to or changes, and no plan or run that refers
\* to a row it deletes.
create_project(r) == r.op = "create_project" /\ SlugFree(r)
update_project(r) == r.op = "update_project" /\ Live(r.project) /\ SlugFree(r)
delete_project(r) == r.op = "delete_project" /\ Live(r.project)
create_task(r) == r.op = "create_task" /\ Live(r.project)
update_task(r) == r.op = "update_task" /\ task[r.task] = r.project
delete_task(r) == r.op = "delete_task" /\ task[r.task] = r.project /\ r.task \notin Planned
create_plan(r, version) == Planning(r) /\ task[r.task] = r.project /\ version \notin Versions(r.task)

Accepted(r, version) ==
    \/ create_project(r) \/ update_project(r) \/ delete_project(r)
    \/ create_task(r) \/ update_task(r) \/ delete_task(r)
    \/ create_plan(r, version)

\* The row is flushed; or 404, or 409 on the slug or the version, or an uncaught
\* IntegrityError, each of which rolls the transaction back.
Write(a) ==
    /\ At(a, "write")
    /\ ~Blocked(a)
    /\ IF Accepted(req[a], number[a])
       THEN /\ held' = [held EXCEPT ![a] = @ \cup Wants(a)]
            /\ Goto(a, CASE req[a].op = "delete_project" -> "cascade"
                         [] req[a].op = "delete_task"    -> "commit"
                         [] OTHER                        -> "log")
            /\ UNCHANGED <<tables, req, number, since, staged, clock, begun>>
       ELSE Rollback(a)

\* DELETE of a project deletes its tasks, unless a plan refers to one.
Cascade(a) ==
    /\ At(a, "cascade")
    /\ ~Blocked(a)
    /\ IF TasksOf(req[a].project) \cap Planned = {}
       THEN /\ held' = [held EXCEPT ![a] = @ \cup Wants(a)]
            /\ Goto(a, "commit")
            /\ UNCHANGED <<tables, req, number, since, staged, clock, begun>>
       ELSE Rollback(a)

UsedIds == {e.id : e \in events}
           \cup {e.id : e \in {x \in UNION {staged[b] : b \in Sessions} : x.kind = "event"}}

\* UUIDs are random, but only events of one transaction share their time
\* and are sorted by id; which of them gets which id does not matter.
FreshIds(n) == {i \in EventIds \ UsedIds :
                    Cardinality({j \in EventIds \ UsedIds : j < i}) < n}

\* The events a request flushes: one for a created row, two for a report
\* (challenge resolution appends several in one transaction).
NewEvents(a) ==
    LET r == req[a] IN
    {[kind |-> "event", id |-> i, at |-> since[a], about |-> Subject(r),
      project |-> r.project, task |-> r.task] : i \in FreshIds(IF r.op = "report" THEN 2 ELSE 1)}

NewRecord(a) == {[kind |-> "audit", about |-> Subject(req[a])]}

Logged(a, entries) ==
    /\ At(a, "log")
    /\ ~Blocked(a)
    /\ staged' = [staged EXCEPT ![a] = entries]
    /\ held' = [held EXCEPT ![a] = @ \cup Wants(a)]
    /\ Goto(a, "commit")
    /\ UNCHANGED <<tables, req, number, since, clock, begun>>

Updating(r) == r.op \in {"update_project", "update_task"} \/ Planning(r)

\* append_event and append_record join the request's transaction: their own
\* scope check sees its rows, and the insert waits for the rows it names.
append_event(a) == ~Updating(req[a]) /\ Logged(a, NewEvents(a))
append_record(a) == Updating(req[a]) /\ Logged(a, NewRecord(a))

\* Mutant: a record that cannot be written is only logged.
LogFailureIgnored(a) ==
    /\ At(a, "log")
    /\ Goto(a, "commit")
    /\ UNCHANGED <<tables, req, number, since, held, staged, clock, begun>>

\* Invalid content, or the insert fails: rollback of the whole request, 500.
LogFails(a) ==
    /\ At(a, "log")
    /\ Rollback(a)

\* ON DELETE SET NULL on the events of what is deleted.
Unlinked(e, gone) ==
    [e EXCEPT !.project = IF @ \in gone THEN None ELSE @, !.task = IF @ \in gone THEN None ELSE @]

Deleted(r) == CASE r.op = "delete_project" -> {r.project} \cup TasksOf(r.project)
                [] r.op = "delete_task"    -> {r.task}
                [] OTHER                   -> {}

\* The row a request changes and those it deletes, its events and records,
\* and the links to what it deletes, in one commit.  create_development_workflow
\* goes on to its run in a transaction of its own.
Commit(a) ==
    LET r == req[a]
        entries(kind) == {x \in staged[a] : x.kind = kind}
    IN
    /\ At(a, "commit")
    /\ project' = [p \in Projects |-> IF p \in Deleted(r) THEN "gone"
                                      ELSE IF p = r.project /\ r.slug # None THEN r.slug
                                      ELSE project[p]]
    /\ task' = [t \in Tasks |-> IF t \in Deleted(r) THEN "gone"
                                ELSE IF t = r.task /\ r.op = "create_task" THEN r.project
                                ELSE task[t]]
    /\ events' = {Unlinked(e, Deleted(r)) : e \in events} \cup entries("event")
    /\ audits' = [x \in DOMAIN audits |->
                     audits[x] + Cardinality({y \in entries("audit") : y.about = x})]
    /\ updates' = [x \in DOMAIN updates |->
                     updates[x] + IF Updating(r) /\ Subject(r) = x THEN 1 ELSE 0]
    /\ plans' = IF ~Planning(r) THEN plans
                ELSE [plans EXCEPT ![r.task] =
                         Append(@, [version |-> number[a], rows |-> Stored(r.draft)])]
    /\ UNCHANGED runs
    /\ IF r.op # "develop" THEN Release(a)
       ELSE /\ Goto(a, "run")
            /\ held' = [held EXCEPT ![a] = {}]
            /\ staged' = [staged EXCEPT ![a] = {}]
            /\ UNCHANGED <<req, number, since, clock, begun>>

Rows(t, version) == LET i == CHOOSE j \in DOMAIN plans[t] : plans[t][j].version = version
                    IN  plans[t][i].rows

\* The run is inserted from the plan's rows, once more validated, with no
\* request yet.
create_run(a) ==
    LET t == req[a].task IN
    /\ At(a, "run")
    /\ ~Blocked(a)
    /\ IF ~validate_graph(Reread(Rows(t, number[a])))
       THEN Rollback(a)
       ELSE /\ runs' = [runs EXCEPT ![t] = Append(@, [version |-> number[a], request |-> FALSE])]
            /\ UNCHANGED <<project, task, plans, events, audits, updates>>
            /\ IF req[a].op # "develop" THEN Release(a)
               ELSE /\ Goto(a, "handoff")
                    /\ number' = [number EXCEPT ![a] = Len(runs'[t])]
                    /\ UNCHANGED <<req, since, held, staged, clock, begun>>

\* create_development_workflow hands the request to the run it has made.
add_handoff(a) ==
    /\ At(a, "handoff")
    /\ runs' = [runs EXCEPT ![req[a].task][number[a]].request = TRUE]
    /\ UNCHANGED <<project, task, plans, events, audits, updates>>
    /\ Release(a)

\* The process or the connection dies: the database rolls back.
Die(a) ==
    /\ pc[a] # "idle"
    /\ Rollback(a)

\* PostgreSQL aborts one of two transactions that wait for each other.
Deadlock(a) ==
    /\ \E b \in Sessions : Waits(a, b) /\ Waits(b, a)
    /\ Rollback(a)

\* An empty workspace, or one with a project and its task, created before.
RecordsInit ==
    /\ \E ps \in {{}, {CHOOSE p \in Projects : TRUE}}, slug \in Slugs :
          LET ts == IF ps = {} THEN {} ELSE {CHOOSE t \in Tasks : TRUE}
              created(i, x, p, t) == [kind |-> "event", id |-> i, at |-> 0, about |-> x,
                                      project |-> p, task |-> t]
          IN
          /\ project = [p \in Projects |-> IF p \in ps THEN slug ELSE "new"]
          /\ task = [t \in Tasks |-> IF t \in ts THEN CHOOSE p \in ps : TRUE ELSE "new"]
          /\ events = {created(1, p, p, None) : p \in ps}
                      \cup {created(2, t, task[t], t) : t \in ts}
    /\ plans = [t \in Tasks |-> <<>>]
    /\ runs = plans
    /\ audits = [x \in Projects \cup Tasks |-> 0]
    /\ updates = audits
    /\ clock = 0
    /\ begun = 0
    /\ pc = [a \in Sessions |-> "idle"]
    /\ req = [a \in Sessions |-> NoRequest]
    /\ number = [a \in Sessions |-> 0]
    /\ since = number
    /\ held = [a \in Sessions |-> {}]
    /\ staged = [a \in Sessions |-> {}]

\* Everything that happens to the records but the commits.
RecordsStep ==
    \E a \in Sessions :
          \/ \E r \in Request : Begin(a, r)
          \/ Write(a) \/ Cascade(a) \/ append_event(a) \/ append_record(a) \/ LogFails(a)
          \/ create_run(a) \/ add_handoff(a) \/ Deadlock(a) \/ Die(a)

-----------------------------------------------------------------------------
Alive(x) == IF x \in Projects THEN Live(x) ELSE task[x] \in Projects
Created(x) == IF x \in Projects THEN project[x] # "new" ELSE task[x] # "new"

\* Whatever fails, dies or deadlocks on the way, a project or a task was
\* created exactly when one event says so, every update has its audit
\* record, and an event keeps its links exactly while the rows they name
\* exist (append_event and append_record with commit=False; the events'
\* foreign keys).
RecordedTogether ==
    /\ \A x \in Projects \cup Tasks :
          /\ Cardinality({e \in events : e.about = x}) = (IF Created(x) THEN 1 ELSE 0)
          /\ audits[x] = updates[x]
    /\ \A e \in events :
          /\ e.about \in Projects => e.project = (IF Alive(e.about) THEN e.about ELSE None)
          /\ e.about \in Tasks => e.task = (IF Alive(e.about) THEN e.about ELSE None)
          /\ e.project # None => Live(e.project)

\* However many requests plan and develop a task at once, its versions are
\* numbered 1, 2, ... in the order they appear; the rows of each make up a
\* graph a run can be made of and finish, every step after those it depends
\* on; a run is of a version there is, and at most one run is handed a
\* development request (latest_plan, the unique constraint, validate_graph
\* and the three commits of create_development_workflow).
PlansStand ==
    \A t \in Tasks :
        /\ \A i \in DOMAIN plans[t] :
              LET data == Reread(plans[t][i].rows) IN
              /\ plans[t][i].version = i
              /\ Acyclic(data) /\ Len(Ordered(data)) = Len(data) /\ Respects(Ordered(data), data)
        /\ \A i \in DOMAIN runs[t] : runs[t][i].version \in Versions(t)
        /\ \A i, j \in DOMAIN runs[t] : runs[t][i].request /\ runs[t][j].request => i = j
=============================================================================
