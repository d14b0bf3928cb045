---------------------------- MODULE GitCommitAction ----------------------------
(***************************************************************************)
(* The prepared local commits of one completed workflow run:               *)
(* git_changesets/service.py (prepare, approve_and_apply), the adapter     *)
(* git_changesets/local.py and the commit branches of approvals/routes.py, *)
(* with the repository they share with the people who work in it.          *)
(*                                                                         *)
(* The branch, the index and the worktree are written by no transaction.   *)
(* local.apply never awaits, so only another process (a second API worker, *)
(* somebody's git) comes between its steps.  The changeset is one target   *)
(* path; its content is "base" or "candidate".                             *)
(***************************************************************************)
EXTENDS Naturals, Sequences, FiniteSets, SequencesExt

CONSTANTS
    Actions,     \* GitCommitAction rows, and the commits they expect
    Sessions,    \* requests that serve POST .../approve or .../reject
    UserCommits, \* commits other people make
    NoAction,
    MaxFaults    \* bound on requests that die and changes of the environment

ASSUME GitAssumption ==
    /\ Actions \cap UserCommits = {}
    /\ NoAction \notin Actions
    /\ MaxFaults \in Nat

VARIABLES
    \* --- committed database rows
    row,       \* GitCommitAction.status, or "NONE"
    prepared,  \* prepared_head_sha (the history it names) and index_fingerprint
    bound,     \* the actions whose approval_request_id is set
    approval,  \* ApprovalRequest.status, or "NONE"
    asks,      \* the policy's effect is REQUIRE_CONFIRMATION
    \* --- the repository
    onBranch,  \* HEAD is the prepared branch
    log,       \* commits on the branch since the base, oldest first
    tree,      \* the target in the branch's tree
    index,     \* the target's entry, and a version of all other entries
    worktree,  \* the target is the candidate
    \* --- the requests
    pc, on,    \* where each request is, and the action it serves
    seen,      \* the status its session holds
    held,      \* the index local.apply has read
    crashes, edits

rows == <<row, prepared, bound, approval, asks>>
repo == <<onBranch, log, tree, index, worktree>>
counters == <<crashes, edits>>
vars == <<row, prepared, bound, approval, asks, onBranch, log, tree, index, worktree,
          pc, on, seen, held, crashes, edits>>

Clean == [target |-> "base", rest |-> 0]

Goto(a, label) == pc' = [pc EXCEPT ![a] = label]
Return(a) ==
    /\ Goto(a, "idle")
    /\ on' = [on EXCEPT ![a] = NoAction]
    /\ seen' = [seen EXCEPT ![a] = "NONE"]
    /\ held' = [held EXCEPT ![a] = Clean]

-----------------------------------------------------------------------------
(* Mutants: plausible bugs of the actions below.  No action uses them.     *)

\* The head is read again instead of compared with the prepared one.
IgnoreMovedHead(a) ==
    /\ pc[a] = "swap"
    /\ log' = Append(log, on[a]) /\ tree' = "candidate"
    /\ Goto(a, "writeIndex")
    /\ UNCHANGED <<rows, onBranch, index, worktree, on, seen, held, counters>>

\* set_if_equals answers False, and nobody looks.
IgnoreSwapResult(a) ==
    /\ pc[a] = "swap"
    /\ IF log = prepared[on[a]].log
       THEN log' = Append(log, on[a]) /\ tree' = "candidate"
       ELSE UNCHANGED <<log, tree>>
    /\ Goto(a, "writeIndex")
    /\ UNCHANGED <<rows, onBranch, index, worktree, on, seen, held, counters>>

\* A retry finds its commit and reports it at once.
RecoverWithoutIndex(a) ==
    /\ pc[a] = "read"
    /\ onBranch /\ log = Append(prepared[on[a]].log, on[a])
    /\ worktree
    /\ Goto(a, "recordApplied")
    /\ UNCHANGED <<rows, repo, on, seen, held, counters>>

-----------------------------------------------------------------------------
(* prepare: three commits, so that a crash leaves an action without an     *)
(* approval, or an approval no action names                                *)

\* local.prepare: the branch and the index hold the preimage, the worktree
\* the candidate (an action for another branch is not modelled).  The policy
\* evaluation commits the row with its audit, also when it refuses.
Prepare(c) ==
    /\ row[c] = "NONE"
    /\ onBranch /\ tree = "base" /\ index.target = "base" /\ worktree
    /\ row' = [row EXCEPT ![c] = "PENDING_APPROVAL"]
    /\ prepared' = [prepared EXCEPT ![c] = [log |-> log, index |-> index]]
    /\ UNCHANGED <<bound, approval, asks, repo, pc, on, seen, held, counters>>

CreateApproval(c) ==
    /\ row[c] = "PENDING_APPROVAL" /\ approval[c] = "NONE"
    /\ asks
    /\ approval' = [approval EXCEPT ![c] = "PENDING"]
    /\ UNCHANGED <<row, prepared, bound, asks, repo, pc, on, seen, held, counters>>

Bind(c) ==
    /\ approval[c] # "NONE" /\ c \notin bound
    /\ bound' = bound \cup {c}
    /\ UNCHANGED <<row, prepared, approval, asks, repo, pc, on, seen, held, counters>>

-----------------------------------------------------------------------------
(* The routes                                                              *)

Decisions == {"APPROVED", "REJECTED"}

\* get_for_approval: the session keeps the row it reads here, the FOR UPDATE
\* in approve_and_apply does not refresh it.
Load(a, c, decision) ==
    /\ pc[a] = "idle"
    /\ c \in bound
    /\ Goto(a, decision)
    /\ on' = [on EXCEPT ![a] = c]
    /\ seen' = [seen EXCEPT ![a] = row[c]]
    /\ UNCHANGED <<rows, repo, held, counters>>

\* The route of an approval no action names yet decides it as a workspace
\* mutation and finds no tool call (404).
DecideUnbound(c, decision) ==
    /\ c \notin bound /\ approval[c] = "PENDING"
    /\ approval' = [approval EXCEPT ![c] = decision]
    /\ UNCHANGED <<row, prepared, bound, asks, repo, pc, on, seen, held, counters>>

\* Idempotent for the same decision, a conflict for the other.
Decide(a, decision) ==
    /\ pc[a] = decision
    /\ IF approval[on[a]] \in {"PENDING", decision}
       THEN /\ approval' = [approval EXCEPT ![on[a]] = decision]
            /\ Goto(a, IF decision = "APPROVED" THEN "check" ELSE "mark")
            /\ UNCHANGED <<on, seen, held>>
       ELSE Return(a) /\ UNCHANGED approval
    /\ UNCHANGED <<row, prepared, bound, asks, repo, counters>>

MarkRejected(a) ==
    /\ pc[a] = "mark"
    /\ row' = [row EXCEPT ![on[a]] = "REJECTED"]
    /\ Return(a)
    /\ UNCHANGED <<prepared, bound, approval, asks, repo, counters>>

\* Everything approve_and_apply checks before its own commit.  APPLIED
\* returns; QA's verdict and the tool calls of a COMPLETED run do not change.
Check(a) ==
    /\ pc[a] = "check"
    /\ IF seen[a] \in {"PENDING_APPROVAL", "APPLYING", "FAILED"} /\ asks
          /\ approval[on[a]] = "APPROVED"
       THEN Goto(a, "start") /\ UNCHANGED <<on, seen, held>>
       ELSE Return(a)
    /\ UNCHANGED <<rows, repo, counters>>

\* The UPDATE goes by id, and only if the held status changes.
Start(a) ==
    /\ pc[a] = "start"
    /\ row' = IF seen[a] = "APPLYING" THEN row ELSE [row EXCEPT ![on[a]] = "APPLYING"]
    /\ Goto(a, "read")
    /\ UNCHANGED <<prepared, bound, approval, asks, repo, on, seen, held, counters>>

-----------------------------------------------------------------------------
(* local.apply                                                             *)

Expected(c) == Append(prepared[c].log, c)

\* The expected commit is the head: an earlier attempt made it.
Recover(a) ==
    /\ pc[a] = "read"
    /\ onBranch /\ log = Expected(on[a])
    /\ worktree
    /\ held' = [held EXCEPT ![a] = index]
    /\ Goto(a, "writeIndex")
    /\ UNCHANGED <<rows, repo, on, seen, counters>>

\* Blob, tree and commit objects are written; no ref names them yet.
BuildCommit(a) ==
    /\ pc[a] = "read"
    /\ onBranch /\ log = prepared[on[a]].log
    /\ index = prepared[on[a]].index
    /\ worktree
    /\ held' = [held EXCEPT ![a] = index]
    /\ Goto(a, "swap")
    /\ UNCHANGED <<rows, repo, on, seen, counters>>

\* git_stale_branch, git_stale_head, git_stale_index, git_stale_worktree
Stale(a) ==
    /\ pc[a] = "read"
    /\ \/ ~onBranch \/ ~worktree
       \/ /\ log # Expected(on[a])
          /\ log # prepared[on[a]].log \/ index # prepared[on[a]].index
    /\ Goto(a, "recordFailed")
    /\ UNCHANGED <<rows, repo, on, seen, held, counters>>

\* refs.set_if_equals
Swap(a) ==
    /\ pc[a] = "swap"
    /\ IF log = prepared[on[a]].log
       THEN log' = Expected(on[a]) /\ tree' = "candidate" /\ Goto(a, "writeIndex")
       ELSE UNCHANGED <<log, tree>> /\ Goto(a, "recordFailed")
    /\ UNCHANGED <<rows, onBranch, index, worktree, on, seen, held, counters>>

\* The whole index that was read, with the target's entry replaced.
WriteIndex(a) ==
    /\ pc[a] = "writeIndex"
    /\ index' = [held[a] EXCEPT !.target = "candidate"]
    /\ Goto(a, "recordApplied")
    /\ UNCHANGED <<rows, onBranch, log, tree, worktree, on, seen, held, counters>>

RecordApplied(a) ==
    /\ pc[a] = "recordApplied"
    /\ row' = [row EXCEPT ![on[a]] = "APPLIED"]
    /\ Return(a)
    /\ UNCHANGED <<prepared, bound, approval, asks, repo, counters>>

RecordFailed(a) ==
    /\ pc[a] = "recordFailed"
    /\ row' = [row EXCEPT ![on[a]] = "FAILED"]
    /\ Return(a)
    /\ UNCHANGED <<prepared, bound, approval, asks, repo, counters>>

-----------------------------------------------------------------------------
(* The environment                                                         *)

Crash(a) ==
    /\ pc[a] # "idle"
    /\ crashes + edits < MaxFaults
    /\ crashes' = crashes + 1
    /\ Return(a)
    /\ UNCHANGED <<rows, repo, edits>>

\* What changed before the first preparation is part of the base.
Edit ==
    /\ crashes + edits < MaxFaults
    /\ \E c \in Actions : row[c] # "NONE"
    /\ edits' = edits + 1
    /\ UNCHANGED <<pc, on, seen, held, crashes>>

\* git commit of something else: the tree is the one the index describes.
UserCommit(u) ==
    /\ Edit
    /\ onBranch /\ ~Contains(log, u)
    /\ log' = Append(log, u)
    /\ tree' = index.target
    /\ index' = [index EXCEPT !.rest = @ + 1]
    /\ UNCHANGED <<rows, onBranch, worktree>>

\* git add of something else
UserStage ==
    /\ Edit
    /\ index' = [index EXCEPT !.rest = @ + 1]
    /\ UNCHANGED <<rows, onBranch, log, tree, worktree>>

EditWorktree ==
    /\ Edit
    /\ worktree' = ~worktree
    /\ UNCHANGED <<rows, onBranch, log, tree, index>>

\* git checkout of another branch that has the same target
SwitchBranch ==
    /\ Edit
    /\ onBranch' = ~onBranch
    /\ UNCHANGED <<rows, log, tree, index, worktree>>

\* create_rule makes another effect win.
NewRule ==
    /\ Edit
    /\ asks' = ~asks
    /\ UNCHANGED <<row, prepared, bound, approval, repo>>

Environment ==
    \/ UserStage \/ EditWorktree \/ SwitchBranch \/ NewRule
    \/ \E u \in UserCommits : UserCommit(u)

Init ==
    /\ row = [c \in Actions |-> "NONE"]
    /\ prepared = [c \in Actions |-> [log |-> <<>>, index |-> Clean]]
    /\ bound = {}
    /\ approval = [c \in Actions |-> "NONE"]
    /\ asks = TRUE
    /\ onBranch = TRUE /\ log = <<>> /\ tree = "base" /\ index = Clean /\ worktree = TRUE
    /\ pc = [a \in Sessions |-> "idle"]
    /\ on = [a \in Sessions |-> NoAction]
    /\ seen = [a \in Sessions |-> "NONE"]
    /\ held = [a \in Sessions |-> Clean]
    /\ crashes = 0 /\ edits = 0

Handle(a) ==
    \/ \E decision \in Decisions : Decide(a, decision)
    \/ MarkRejected(a) \/ Check(a) \/ Start(a)
    \/ Recover(a) \/ BuildCommit(a) \/ Stale(a) \/ Swap(a) \/ WriteIndex(a)
    \/ RecordApplied(a) \/ RecordFailed(a)

Next ==
    \/ \E c \in Actions : Prepare(c) \/ CreateApproval(c) \/ Bind(c)
    \/ \E c \in Actions, decision \in Decisions :
        DecideUnbound(c, decision) \/ \E a \in Sessions : Load(a, c, decision)
    \/ \E a \in Sessions : Handle(a) \/ Crash(a)
    \/ Environment

Spec == Init /\ [][Next]_vars

\* Handlers run on, and a client repeats an approval that did not end APPLIED.
Retry(c) ==
    /\ approval[c] = "APPROVED" /\ row[c] # "APPLIED"
    /\ \E a \in Sessions : Load(a, c, "APPROVED")

Fairness ==
    /\ \A a \in Sessions : WF_vars(Handle(a))
    /\ \A c \in Actions : SF_vars(Retry(c))

FairSpec == Spec /\ Fairness

-----------------------------------------------------------------------------
(* Properties                                                              *)

Status == {"NONE", "PENDING_APPROVAL", "APPLYING", "APPLIED", "FAILED", "REJECTED"}
Indexes == [target : {"base", "candidate"}, rest : 0 .. MaxFaults]

TypeOK ==
    /\ row \in [Actions -> Status]
    /\ \A c \in Actions :
        /\ prepared[c].log \in Seq(Actions \cup UserCommits)
        /\ prepared[c].index \in Indexes
    /\ bound \subseteq Actions
    /\ approval \in [Actions -> {"NONE", "PENDING", "APPROVED", "REJECTED"}]
    /\ asks \in BOOLEAN /\ onBranch \in BOOLEAN /\ worktree \in BOOLEAN
    /\ log \in Seq(Actions \cup UserCommits)
    /\ tree \in {"base", "candidate"}
    /\ index \in Indexes
    /\ pc \in [Sessions -> Decisions \cup {"idle", "mark", "check", "start", "read", "swap",
                            "writeIndex", "recordApplied", "recordFailed"}]
    /\ on \in [Sessions -> Actions \cup {NoAction}]
    /\ seen \in [Sessions -> Status]
    /\ held \in [Sessions -> Indexes]
    /\ {crashes, edits} \subseteq Nat

\* What moves the branch is somebody's own commit, or the commit of an
\* approved action on exactly the history its preview was made for
\* (expected_head and set_if_equals in local.apply).
CommitIsReviewed ==
    [][log' # log =>
        \/ \E u \in UserCommits : log' = Append(log, u)
        \/ \E c \in Actions :
            log' = Append(log, c) /\ log = prepared[c].log /\ approval[c] = "APPROVED"]_vars

\* However many actions are prepared from one run, and however often each is
\* approved, a commit reaches the branch once, and no second one on top of
\* it unless somebody's own commit took the change back in between.
OneCommit ==
    /\ IsInjective(log)
    /\ \A i \in 1 .. Len(log) - 1 : ~({log[i], log[i + 1]} \subseteq Actions)

\* An action is recorded APPLIED only when its commit is on the branch
\* (a crash, a lost swap and a stale session all lie in between).
AppliedIsCommitted == \A c \in Actions : row[c] = "APPLIED" => Contains(log, c)

\* A rejected action is never committed, whoever approves it meanwhile, and
\* its row is not taken from REJECTED by a session that read it before.
RejectedStays ==
    \A c \in Actions :
        /\ approval[c] = "REJECTED" => ~Contains(log, c)
        /\ row[c] = "REJECTED" => approval[c] = "REJECTED"

\* After an action is recorded, the index agrees with the commit: otherwise
\* the next commit from that index reverts it (_write_index_entries, also on
\* recovery after a crash between the branch and the index).
IndexFollowsHead == (\E c \in Actions : row[c] = "APPLIED") => index.target = "candidate"

=============================================================================
