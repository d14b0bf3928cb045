--------------------------- MODULE GitHubPublication ---------------------------
(***************************************************************************)
(* The publication of one applied commit as a branch and a pull request:   *)
(* github_publications/service.py (prepare, publish), the publication      *)
(* branches of approvals/routes.py, and GitHub as http_adapter.py uses it. *)
(*                                                                         *)
(* publish talks to GitHub between its commits.  Every call may fail       *)
(* without an effect, or take effect and lose its answer; both are one     *)
(* GitHubOperationalError.  People work on the repository meanwhile.       *)
(* An action is one remote call with what the code does with its answer.   *)
(***************************************************************************)
EXTENDS Naturals, Sequences, FiniteSets

CONSTANTS
    Sessions,        \* requests that serve POST .../approve or .../reject
    ProofReplayable, \* read_publication_objects accepts the stored proof
    MaxFaults,       \* bound on failed calls and requests that die
    MaxActs          \* bound on what people do on GitHub and to the policy

\* prepare stores the proof without the head_blob_id and preimage_sha256 of
\* its paths, and publish replays it through revalidate_committed_object,
\* which reads both: in the code ProofReplayable is FALSE.  Its tests replace
\* the function; TRUE is the protocol they exercise.
ASSUME PublicationAssumption ==
    /\ ProofReplayable \in BOOLEAN
    /\ {MaxFaults, MaxActs} \subseteq Nat

VARIABLES
    \* --- committed database rows
    row,       \* GitHubPublicationAction.status, or "NONE"
    prNumber,  \* pr_number, or 0
    approval,  \* ApprovalRequest.status, or "NONE"
    asks,      \* the policy's effect is REQUIRE_CONFIRMATION
    \* --- GitHub
    baseMoved, \* the base branch is no longer the prepared one
    objects,   \* the git objects that were uploaded
    ref,       \* what the publication's branch points to
    prs,       \* the pull requests for the branch, by number
    \* --- the requests
    pc,        \* where each request is
    seen,      \* the status its session holds
    found,     \* the number of the pull request it has found or created
    began,     \* history: how many pull requests there were when it began
    faults, acts

rows == <<row, prNumber, approval, asks>>
github == <<baseMoved, objects, ref, prs>>
vars == <<row, prNumber, approval, asks, baseMoved, objects, ref, prs,
          pc, seen, found, began, faults, acts>>

Kinds == <<"blob", "tree", "commit">>
Uploading(i) == IF i > Len(Kinds) THEN "base" ELSE Kinds[i]

Goto(a, label) == pc' = [pc EXCEPT ![a] = label]
Leave(a) ==
    /\ Goto(a, "idle")
    /\ seen' = [seen EXCEPT ![a] = "NONE"]
    /\ found' = [found EXCEPT ![a] = 0]
    /\ began' = [began EXCEPT ![a] = 0]
Proceed(a, label) == Goto(a, label) /\ UNCHANGED <<seen, found, began>>

\* _mark, _mark_failed: the UPDATE goes by id, and only if the held status
\* changes.
Mark(a, status) ==
    /\ row' = IF seen[a] = status THEN row ELSE status
    /\ Leave(a)
    /\ UNCHANGED <<prNumber, approval, asks>>

Fault == faults < MaxFaults /\ faults' = faults + 1 /\ UNCHANGED acts
NoFault == UNCHANGED <<faults, acts>>

\* A remote read that fails.
ReadFails(a) == Fault /\ Mark(a, "FAILED") /\ UNCHANGED github

-----------------------------------------------------------------------------
(* Mutants: plausible bugs of the actions below.  No action uses them.     *)

\* Only open pull requests are searched for.
FindNoOpen(a) ==
    /\ pc[a] = "findPR"
    /\ NoFault
    /\ \A i \in DOMAIN prs : ~prs[i].open
    /\ Proceed(a, "createPR")
    /\ UNCHANGED <<rows, github>>

\* A request leaves a publication that is in progress alone.
CheckNotPublishing(a) ==
    /\ pc[a] = "check"
    /\ NoFault
    /\ IF seen[a] \notin {"PUBLISHED", "PUBLISHING"} /\ approval = "APPROVED" /\ asks
       THEN Proceed(a, "begin")
       ELSE Leave(a)
    /\ UNCHANGED <<rows, github>>

\* A rejection is recorded whatever was decided before.
DecideAnyway(a, decision) ==
    /\ pc[a] = decision
    /\ NoFault
    /\ approval' = decision
    /\ Proceed(a, IF decision = "APPROVED" THEN "check" ELSE "mark")
    /\ UNCHANGED <<row, prNumber, asks, github>>

\* The title and the body of a pull request that is found are not compared.
MatchesHead(pr) == pr.head = "ours"

-----------------------------------------------------------------------------
(* prepare: the publication and its approval are one commit                *)

Prepare ==
    /\ row = "NONE"
    /\ ~baseMoved /\ asks
    /\ row' = "PENDING_APPROVAL" /\ approval' = "PENDING"
    /\ UNCHANGED <<prNumber, asks, github, pc, seen, found, began, faults, acts>>

-----------------------------------------------------------------------------
(* The routes                                                              *)

Decisions == {"APPROVED", "REJECTED"}

\* get_for_approval: the session keeps the row it reads here.
Load(a, decision) ==
    /\ pc[a] = "idle"
    /\ row # "NONE"
    /\ Goto(a, decision)
    /\ seen' = [seen EXCEPT ![a] = row]
    /\ began' = [began EXCEPT ![a] = Len(prs)]
    /\ UNCHANGED <<rows, github, found, faults, acts>>

\* Idempotent for the same decision, a conflict for the other.
Decide(a, decision) ==
    /\ pc[a] = decision
    /\ NoFault
    /\ IF approval \in {"PENDING", decision}
       THEN approval' = decision /\ Proceed(a, IF decision = "APPROVED" THEN "check" ELSE "mark")
       ELSE Leave(a) /\ UNCHANGED approval
    /\ UNCHANGED <<row, prNumber, asks, github>>

MarkRejected(a) ==
    /\ pc[a] = "mark"
    /\ NoFault
    /\ Mark(a, "REJECTED")
    /\ UNCHANGED github

-----------------------------------------------------------------------------
(* publish                                                                 *)

\* PUBLISHED returns; every other status goes on, STALE and CONFLICT too.
Check(a) ==
    /\ pc[a] = "check"
    /\ NoFault
    /\ IF seen[a] # "PUBLISHED" /\ approval = "APPROVED" /\ asks
       THEN Proceed(a, "begin")
       ELSE Leave(a)
    /\ UNCHANGED <<rows, github>>

\* Repository and base are read, the proof is replayed from the local
\* repository, and PUBLISHING is committed.  item["head_blob_id"] of a stored
\* change is a KeyError that nobody catches.
Begin(a) ==
    /\ pc[a] = "begin"
    /\ NoFault
    /\ ~baseMoved
    /\ IF ProofReplayable
       THEN /\ row' = IF seen[a] = "PUBLISHING" THEN row ELSE "PUBLISHING"
            /\ seen' = [seen EXCEPT ![a] = "PUBLISHING"]
            /\ Goto(a, "blob")
            /\ UNCHANGED <<found, began>>
       ELSE Leave(a) /\ UNCHANGED row
    /\ UNCHANGED <<prNumber, approval, asks, github>>

\* The base is read at the beginning and again before the branch.
BaseStale(a) ==
    /\ pc[a] \in {"begin", "base"}
    /\ NoFault
    /\ baseMoved
    /\ Mark(a, "STALE")
    /\ UNCHANGED github

BaseCurrent(a) ==
    /\ pc[a] = "base"
    /\ NoFault
    /\ ~baseMoved
    /\ Proceed(a, "branch")
    /\ UNCHANGED <<rows, github>>

ReadFailed(a) ==
    /\ pc[a] \in {"begin", "base", "branch", "reread", "findPR", "refindPR"}
    /\ ReadFails(a)

\* Blob, tree and commit, each read first or created; the content is the
\* name, so that creating one twice is harmless.
Upload(a, i) ==
    /\ pc[a] = Kinds[i]
    /\ NoFault
    /\ objects' = objects \cup {Kinds[i]}
    /\ Proceed(a, Uploading(i + 1))
    /\ UNCHANGED <<rows, baseMoved, ref, prs>>

UploadFails(a, i) ==
    /\ pc[a] = Kinds[i]
    /\ Fault
    /\ objects' \in {objects, objects \cup {Kinds[i]}}
    /\ Mark(a, "FAILED")
    /\ UNCHANGED <<baseMoved, ref, prs>>

BranchIsOurs(a, label) ==
    /\ pc[a] = label
    /\ NoFault
    /\ ref = "ours"
    /\ Proceed(a, "findPR")
    /\ UNCHANGED <<rows, github>>

BranchConflict(a) ==
    /\ pc[a] \in {"branch", "reread"}
    /\ NoFault
    /\ ref = "other"
    /\ Mark(a, "CONFLICT")
    /\ UNCHANGED github

NoBranch(a) ==
    /\ pc[a] = "branch"
    /\ NoFault
    /\ ref = "none"
    /\ Proceed(a, "createBranch")
    /\ UNCHANGED <<rows, github>>

CreateBranch(a) ==
    /\ pc[a] = "createBranch"
    /\ NoFault
    /\ ref = "none"
    /\ ref' = "ours"
    /\ Proceed(a, "findPR")
    /\ UNCHANGED <<rows, baseMoved, objects, prs>>

\* GitHub refuses a branch that exists; an answer can be lost.
BranchUncertain(a) ==
    /\ pc[a] = "createBranch"
    /\ \/ ref # "none" /\ NoFault /\ UNCHANGED ref
       \/ ref = "none" /\ Fault /\ ref' \in {"none", "ours"}
    /\ Proceed(a, "reread")
    /\ UNCHANGED <<rows, baseMoved, objects, prs>>

BranchMissing(a) ==
    /\ pc[a] = "reread"
    /\ NoFault
    /\ ref = "none"
    /\ Mark(a, "FAILED")
    /\ UNCHANGED github

\* find_pull_request asks for state=all, and takes any one for the branch.
FoundPullRequest(a, i) ==
    /\ pc[a] \in {"findPR", "refindPR"}
    /\ NoFault
    /\ i \in DOMAIN prs
    /\ found' = [found EXCEPT ![a] = i]
    /\ Goto(a, "match")
    /\ UNCHANGED <<rows, github, seen, began>>

NoPullRequest(a) ==
    /\ pc[a] = "findPR"
    /\ NoFault
    /\ prs = <<>>
    /\ Proceed(a, "createPR")
    /\ UNCHANGED <<rows, github>>

AnyOpen == \E i \in DOMAIN prs : prs[i].open
Opened == Append(prs, [open |-> TRUE, head |-> ref, ours |-> TRUE])

CreatePullRequest(a) ==
    /\ pc[a] = "createPR"
    /\ NoFault
    /\ ~AnyOpen
    /\ prs' = Opened
    /\ found' = [found EXCEPT ![a] = Len(prs')]
    /\ Goto(a, "match")
    /\ UNCHANGED <<rows, baseMoved, objects, ref, seen, began>>

\* GitHub refuses a second open one; an answer can be lost.
CreationUncertain(a) ==
    /\ pc[a] = "createPR"
    /\ \/ AnyOpen /\ NoFault /\ UNCHANGED prs
       \/ ~AnyOpen /\ Fault /\ prs' \in {prs, Opened}
    /\ Proceed(a, "refindPR")
    /\ UNCHANGED <<rows, baseMoved, objects, ref>>

PullRequestMissing(a) ==
    /\ pc[a] = "refindPR"
    /\ NoFault
    /\ prs = <<>>
    /\ Mark(a, "FAILED")
    /\ UNCHANGED github

\* Head, base, title and body are compared; whether it is open is not.
Matches(pr) == pr.head = "ours" /\ pr.ours

PullRequestConflict(a) ==
    /\ pc[a] = "match"
    /\ NoFault
    /\ ~Matches(prs[found[a]])
    /\ Mark(a, "CONFLICT")
    /\ UNCHANGED github

Published(a) ==
    /\ pc[a] = "match"
    /\ NoFault
    /\ Matches(prs[found[a]])
    /\ row' = "PUBLISHED"
    /\ prNumber' = found[a]
    /\ Leave(a)
    /\ UNCHANGED <<approval, asks, github>>

-----------------------------------------------------------------------------
(* The environment                                                         *)

Crash(a) ==
    /\ pc[a] # "idle"
    /\ Fault
    /\ Leave(a)
    /\ UNCHANGED <<rows, github>>

Act == acts < MaxActs /\ acts' = acts + 1 /\ UNCHANGED <<pc, seen, found, began, faults>>

MoveBase == Act /\ baseMoved' = TRUE /\ UNCHANGED <<rows, objects, ref, prs>>

\* A push moves the head of the branch's open pull request with it.
PushBranch ==
    /\ Act
    /\ ref' = "other"
    /\ prs' = [i \in DOMAIN prs |-> IF prs[i].open THEN [prs[i] EXCEPT !.head = "other"] ELSE prs[i]]
    /\ UNCHANGED <<rows, baseMoved, objects>>

ClosePullRequest(i) ==
    /\ Act
    /\ i \in DOMAIN prs
    /\ prs' = [prs EXCEPT ![i].open = FALSE]
    /\ UNCHANGED <<rows, baseMoved, objects, ref>>

EditPullRequest(i) ==
    /\ Act
    /\ i \in DOMAIN prs
    /\ prs' = [prs EXCEPT ![i].ours = FALSE]
    /\ UNCHANGED <<rows, baseMoved, objects, ref>>

NewRule == Act /\ asks' = ~asks /\ UNCHANGED <<row, prNumber, approval, github>>

Numbers == 1 .. Cardinality(Sessions)

Environment ==
    \/ MoveBase \/ PushBranch \/ NewRule
    \/ \E i \in Numbers : ClosePullRequest(i) \/ EditPullRequest(i)

Init ==
    /\ row = "NONE" /\ prNumber = 0 /\ approval = "NONE" /\ asks = TRUE
    /\ baseMoved = FALSE /\ objects = {} /\ ref = "none" /\ prs = <<>>
    /\ pc = [a \in Sessions |-> "idle"]
    /\ seen = [a \in Sessions |-> "NONE"]
    /\ found = [a \in Sessions |-> 0]
    /\ began = [a \in Sessions |-> 0]
    /\ faults = 0 /\ acts = 0

Handle(a) ==
    \/ \E decision \in Decisions : Decide(a, decision)
    \/ MarkRejected(a) \/ Check(a) \/ Begin(a)
    \/ BaseStale(a) \/ BaseCurrent(a) \/ ReadFailed(a)
    \/ \E i \in DOMAIN Kinds : Upload(a, i) \/ UploadFails(a, i)
    \/ BranchIsOurs(a, "branch") \/ BranchIsOurs(a, "reread")
    \/ BranchConflict(a) \/ NoBranch(a) \/ CreateBranch(a)
    \/ BranchUncertain(a) \/ BranchMissing(a)
    \/ \E i \in Numbers : FoundPullRequest(a, i)
    \/ NoPullRequest(a) \/ CreatePullRequest(a) \/ CreationUncertain(a)
    \/ PullRequestMissing(a) \/ PullRequestConflict(a) \/ Published(a)

Next ==
    \/ Prepare
    \/ \E a \in Sessions :
        \/ \E decision \in Decisions : Load(a, decision)
        \/ Handle(a) \/ Crash(a)
    \/ Environment

Spec == Init /\ [][Next]_vars

\* Handlers run on, and a client repeats an approval that did not end
\* PUBLISHED.
Retry == approval = "APPROVED" /\ row # "PUBLISHED" /\ \E a \in Sessions : Load(a, "APPROVED")

FairSpec == Spec /\ SF_vars(Retry) /\ \A a \in Sessions : WF_vars(Handle(a))

-----------------------------------------------------------------------------
(* Properties                                                              *)

Status == {"NONE", "PENDING_APPROVAL", "PUBLISHING", "PUBLISHED", "FAILED", "STALE",
           "CONFLICT", "REJECTED"}
Refs == {"none", "ours", "other"}

TypeOK ==
    /\ row \in Status
    /\ prNumber \in 0 .. Len(prs)
    /\ approval \in Decisions \cup {"NONE", "PENDING"}
    /\ asks \in BOOLEAN /\ baseMoved \in BOOLEAN
    /\ objects \subseteq {"blob", "tree", "commit"}
    /\ ref \in Refs
    /\ prs \in Seq([open : BOOLEAN, head : Refs, ours : BOOLEAN])
    /\ seen \in [Sessions -> Status]
    /\ found \in [Sessions -> 0 .. Len(prs)]
    /\ began \in [Sessions -> 0 .. Len(prs)]
    /\ {faults, acts} \subseteq Nat

\* Nothing reaches GitHub for a publication that is not approved, and a
\* rejection stays one, whatever the concurrent requests read before
\* (the row's status alone decides nothing in publish).
OnlyApproved ==
    /\ objects # {} \/ prs # <<>> => approval = "APPROVED"
    /\ row = "REJECTED" => approval = "REJECTED"

\* What is recorded as published had, when the request looked at it, the
\* reviewed commit, title and body.
PublishedMatches ==
    [][row' # row /\ row' = "PUBLISHED" =>
        prs[prNumber'].head = "ours" /\ prs[prNumber'].ours]_vars

\* A request that begins after a pull request exists never opens another one,
\* also when people have closed the first (test_publish_retry_converges_
\* without_duplicate_branch_or_pr, under lost answers and crashes).
NoSecondPullRequest ==
    [][\A a \in Sessions :
        Len(prs') > Len(prs) /\ pc[a] = "createPR" /\ pc'[a] # "createPR" => began[a] = 0]_vars

\* An approved publication ends PUBLISHED, or in a state the operator is told
\* of, however calls and requests fail in between, if the policy still asks.
Converges ==
    approval = "APPROVED" ~> row \in {"PUBLISHED", "STALE", "CONFLICT"} \/ ~asks
=============================================================================
