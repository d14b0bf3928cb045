----------------------- MODULE GitHubPublicationProofs -----------------------
(***************************************************************************)
(* Proofs about GitHubPublication.tla, for any number of requests, failed  *)
(* calls, lost answers and deaths, whatever people do on GitHub meanwhile. *)
(*                                                                         *)
(* The argument: the approval is decided once (Decide has one winner) and  *)
(* a session passes Check only under an approval that has been given, so   *)
(* all it does later is approved, also when the row it holds is stale      *)
(* (Approved).  A session reaches the creation of a pull request only from *)
(* a search that found none at all, so there was none when it began        *)
(* (Fresh): a retry finds what its predecessor left.                       *)
(***************************************************************************)
EXTENDS GitHubPublication, SequenceTheorems, TLAPS

Labels == {"idle", "APPROVED", "REJECTED", "mark", "check", "begin", "blob", "tree", "commit",
           "base", "branch", "createBranch", "reread", "findPR", "createPR", "refindPR", "match"}

\* Where publish has passed its check of the approval.
Publishing == Labels \ {"idle", "APPROVED", "REJECTED", "mark", "check"}

PullRequest == [open : BOOLEAN, head : Refs, ours : BOOLEAN]

\* Nothing has happened before prepare does.
Unprepared == row = "NONE" => approval = "NONE" /\ \A a \in Sessions : pc[a] = "idle"

\* What a request does or has done is what was decided.
Approved ==
    /\ \A a \in Sessions : pc[a] \in Publishing => approval = "APPROVED"
    /\ \A a \in Sessions : pc[a] = "mark" => approval = "REJECTED"
    /\ \A a \in Sessions : pc[a] # "idle" => seen[a] # "NONE"
    /\ OnlyApproved

\* A pull request is created where none has been found.
Fresh == \A a \in Sessions : pc[a] = "createPR" => began[a] = 0

Inv == TypeOK /\ pc \in [Sessions -> Labels] /\ Unprepared /\ Approved /\ Fresh

USE DEF Goto, Leave, Proceed, Mark, Fault, NoFault, rows, github, Decisions
-----------------------------------------------------------------------------
LEMMA InitInv == Init => Inv
<1> SUFFICES ASSUME Init PROVE Inv
  OBVIOUS
<1>1. prs \in Seq(PullRequest) /\ Len(prs) = 0
  BY DEF Init
<1>2. 0 \in 0 .. Len(prs)
  BY <1>1
<1>3. found \in [Sessions -> 0 .. Len(prs)] /\ began \in [Sessions -> 0 .. Len(prs)]
  BY <1>2 DEF Init
<1>4. prs \in Seq([open : BOOLEAN, head : Refs, ours : BOOLEAN])
  BY <1>1 DEF PullRequest
<1>5. seen \in [Sessions -> Status] /\ pc \in [Sessions -> Labels]
  BY DEF Init, Status, Labels
<1>6. /\ row \in Status /\ prNumber = 0 /\ approval \in Decisions \cup {"NONE", "PENDING"}
      /\ objects = {} /\ ref \in Refs /\ faults = 0 /\ acts = 0
  BY DEF Init, Status, Refs
<1>7. asks \in BOOLEAN /\ baseMoved \in BOOLEAN
  BY Zenon DEF Init
<1>8. TypeOK /\ pc \in [Sessions -> Labels]
  BY <1>2, <1>3, <1>4, <1>5, <1>6, <1>7 DEF TypeOK
<1> QED
  BY <1>8 DEF Init, Inv, Unprepared, Approved, Publishing, OnlyApproved, Fresh

\* The order of the uploads.
LEMMA KindLabels ==
    /\ DOMAIN Kinds = 1 .. 3
    /\ Kinds[1] = "blob" /\ Kinds[2] = "tree" /\ Kinds[3] = "commit"
    /\ Uploading(2) = "tree" /\ Uploading(3) = "commit" /\ Uploading(4) = "base"
BY DEF Kinds, Uploading

LEMMA PrsType ==
    ASSUME TypeOK
    PROVE  /\ prs \in Seq(PullRequest) /\ Len(prs) \in Nat
           /\ Opened \in Seq(PullRequest) /\ Len(Opened) = Len(prs) + 1
<1>1. prs \in Seq(PullRequest) /\ ref \in Refs
  BY DEF TypeOK, PullRequest
<1>2. [open |-> TRUE, head |-> ref, ours |-> TRUE] \in PullRequest
  BY <1>1 DEF PullRequest
<1>3. Opened \in Seq(PullRequest) /\ Len(Opened) = Len(prs) + 1
  BY <1>1, <1>2, AppendProperties DEF Opened
<1> QED BY <1>1, <1>3, LenProperties

\* One step of a request that decides nothing: what it writes, on GitHub or
\* in the row, is approved, and it goes on where its approval allows.
LEMMA StepInv ==
    ASSUME Inv, NEW a \in Sessions, UNCHANGED <<approval, asks, baseMoved>>,
           {faults', acts'} \subseteq Nat,
           row # "NONE", row' \in Status \ {"NONE"},
           row' = "REJECTED" => row = "REJECTED" \/ approval = "REJECTED",
           objects' \subseteq {"blob", "tree", "commit"}, ref' \in Refs,
           prs' \in Seq(PullRequest), Len(prs') \in Nat, Len(prs) \in Nat, Len(prs') >= Len(prs),
           prNumber' \in 0 .. Len(prs'),
           (objects' = objects /\ prs' = prs) \/ approval = "APPROVED",
           NEW label \in Labels, pc' = [pc EXCEPT ![a] = label],
           label \in Publishing => approval = "APPROVED",
           label = "mark" => approval = "REJECTED",
           NEW s \in Status, seen' = [seen EXCEPT ![a] = s], label # "idle" => s # "NONE",
           NEW n \in 0 .. Len(prs'), found' = [found EXCEPT ![a] = n],
           NEW k \in 0 .. Len(prs'), began' = [began EXCEPT ![a] = k],
           label = "createPR" => k = 0
    PROVE  Inv'
<1> USE DEF Inv
<1>1. 0 .. Len(prs) \subseteq 0 .. Len(prs')
  OBVIOUS
<1>2. TypeOK' /\ pc' \in [Sessions -> Labels]
  BY <1>1 DEF TypeOK, PullRequest
<1>3. Unprepared'
  BY DEF Unprepared
<1>4. Approved'
  BY DEF Approved, OnlyApproved, TypeOK
<1>5. Fresh'
  BY DEF Fresh, TypeOK
<1> QED BY <1>2, <1>3, <1>4, <1>5

\* A request that reads: the rows and GitHub stay.
LEMMA ReadInv ==
    ASSUME Inv, NEW a \in Sessions, UNCHANGED <<rows, github>>, row # "NONE",
           {faults', acts'} \subseteq Nat,
           NEW label \in Labels, pc' = [pc EXCEPT ![a] = label],
           label \in Publishing => approval = "APPROVED",
           label = "mark" => approval = "REJECTED",
           NEW s \in Status, seen' = [seen EXCEPT ![a] = s], label # "idle" => s # "NONE",
           NEW n \in 0 .. Len(prs), found' = [found EXCEPT ![a] = n],
           NEW k \in 0 .. Len(prs), began' = [began EXCEPT ![a] = k],
           label = "createPR" => k = 0
    PROVE  Inv'
<1>1. prs' \in Seq(PullRequest) /\ Len(prs') = Len(prs) /\ Len(prs) \in Nat /\ row' \in Status \ {"NONE"}
      /\ objects' \subseteq {"blob", "tree", "commit"} /\ ref' \in Refs
      /\ prNumber' \in 0 .. Len(prs')
  BY PrsType DEF Inv, TypeOK
<1>2. n \in 0 .. Len(prs') /\ k \in 0 .. Len(prs') /\ Len(prs') >= Len(prs)
  BY <1>1
<1>3. UNCHANGED <<approval, asks, baseMoved>> /\ objects' = objects /\ prs' = prs /\ row' = row
  OBVIOUS
<1> HIDE DEF rows, github
<1> QED BY <1>1, <1>2, <1>3, StepInv

\* _mark and _mark_failed, after which the request is over.
LEMMA MarkInv ==
    ASSUME Inv, NEW a \in Sessions, pc[a] # "idle",
           NEW status \in {"FAILED", "STALE", "CONFLICT", "REJECTED"}, Mark(a, status),
           status = "REJECTED" => approval = "REJECTED",
           UNCHANGED <<baseMoved, ref, prs>>, {faults', acts'} \subseteq Nat,
           objects' \subseteq {"blob", "tree", "commit"},
           objects' = objects \/ approval = "APPROVED"
    PROVE  Inv'
<1>1. row # "NONE"
  BY DEF Inv, Unprepared
<1>2. prs' \in Seq(PullRequest) /\ Len(prs') = Len(prs) /\ Len(prs) \in Nat
      /\ ref' \in Refs /\ prNumber' \in 0 .. Len(prs')
      /\ row' \in Status \ {"NONE"}
  BY <1>1, PrsType DEF Inv, TypeOK, Status
<1>3. row' = "REJECTED" => row = "REJECTED" \/ approval = "REJECTED"
  OBVIOUS
<1>4. /\ pc' = [pc EXCEPT ![a] = "idle"] /\ seen' = [seen EXCEPT ![a] = "NONE"]
      /\ found' = [found EXCEPT ![a] = 0] /\ began' = [began EXCEPT ![a] = 0]
      /\ UNCHANGED <<approval, asks, baseMoved>>
  OBVIOUS
<1>5. "idle" \in Labels \ Publishing /\ "NONE" \in Status /\ 0 \in 0 .. Len(prs')
      /\ Len(prs') >= Len(prs)
  BY <1>2 DEF Labels, Publishing, Status
<1> HIDE DEF Mark
<1> QED BY <1>1, <1>2, <1>3, <1>4, <1>5, StepInv

-----------------------------------------------------------------------------
(* One lemma per group of actions                                          *)

LEMMA PrepareInv == Inv /\ Prepare => Inv'
<1> SUFFICES ASSUME Inv, Prepare PROVE Inv'
  OBVIOUS
<1>1. \A a \in Sessions : pc[a] = "idle"
  BY DEF Inv, Unprepared, Prepare
<1>2. TypeOK' /\ pc' \in [Sessions -> Labels]
  BY DEF Inv, TypeOK, Prepare, Status
<1>3. objects = {} /\ prs = <<>>
  BY DEF Inv, Unprepared, Approved, OnlyApproved, Prepare
<1> QED
  BY <1>1, <1>2, <1>3 DEF Inv, Prepare, Unprepared, Approved, Publishing, OnlyApproved, Fresh

LEMMA LoadInv ==
    ASSUME Inv, NEW a \in Sessions, NEW decision \in Decisions, Load(a, decision)
    PROVE  Inv'
<1>1. row \in Status /\ Len(prs) \in 0 .. Len(prs) /\ {faults', acts'} \subseteq Nat
  BY PrsType DEF Inv, TypeOK, Load
<1>2. decision \in Labels \ Publishing /\ decision # "mark" /\ decision # "createPR"
  BY DEF Labels, Publishing
<1>3. found' = [found EXCEPT ![a] = found[a]] /\ found[a] \in 0 .. Len(prs)
  BY DEF Inv, TypeOK, Load
<1>4. row # "NONE" /\ UNCHANGED <<rows, github>> /\ pc' = [pc EXCEPT ![a] = decision]
      /\ seen' = [seen EXCEPT ![a] = row] /\ began' = [began EXCEPT ![a] = Len(prs)]
  BY DEF Load
<1> HIDE DEF rows, github, Decisions
<1> QED BY <1>1, <1>2, <1>3, <1>4, ReadInv

\* The first decision stands: what was approved stays so.
LEMMA DecideInv ==
    ASSUME Inv, NEW a \in Sessions, NEW decision \in Decisions, Decide(a, decision)
    PROVE  Inv'
<1> USE DEF Inv, Decide
<1>1. row # "NONE" /\ row' = row
  BY DEF Unprepared
<1>2. approval = "APPROVED" => approval' = "APPROVED"
  OBVIOUS
<1>3. approval = "REJECTED" => approval' = "REJECTED"
  OBVIOUS
<1>4. /\ pc'[a] = "check" => approval' = "APPROVED"
      /\ pc'[a] = "mark" => approval' = "REJECTED"
      /\ pc'[a] \in {"check", "mark", "idle"}
      /\ \A b \in Sessions \ {a} : pc'[b] = pc[b] /\ seen'[b] = seen[b] /\ began'[b] = began[b]
      /\ pc'[a] # "idle" => seen'[a] = seen[a]
  BY DEF TypeOK
<1>5. TypeOK' /\ pc' \in [Sessions -> Labels]
  <2>1. 0 \in 0 .. Len(prs) /\ "NONE" \in Status
    BY PrsType DEF Status
  <2>2. /\ seen' \in [Sessions -> Status]
        /\ found' \in [Sessions -> 0 .. Len(prs)]
        /\ began' \in [Sessions -> 0 .. Len(prs)]
    BY <2>1, ZenonT(40) DEF TypeOK
  <2>3. pc' \in [Sessions -> Labels] /\ approval' \in Decisions \cup {"NONE", "PENDING"}
    BY DEF TypeOK, Labels
  <2>4. UNCHANGED <<row, prNumber, asks, baseMoved, objects, ref, prs, faults, acts>>
    OBVIOUS
  <2> QED BY <2>2, <2>3, <2>4 DEF TypeOK
<1>6. Unprepared'
  BY <1>1 DEF Unprepared
<1>7. Approved'
  BY <1>1, <1>2, <1>3, <1>4 DEF Approved, Publishing, OnlyApproved
<1>8. Fresh'
  BY <1>4 DEF Fresh
<1> QED BY <1>5, <1>6, <1>7, <1>8

\* The steps that end a request with a status of its own.
LEMMA MarkedInv ==
    ASSUME Inv, NEW a \in Sessions,
           \/ MarkRejected(a) \/ BaseStale(a) \/ ReadFailed(a)
           \/ BranchConflict(a) \/ BranchMissing(a)
           \/ PullRequestMissing(a) \/ PullRequestConflict(a)
    PROVE  Inv'
<1>1. pc[a] # "idle" /\ UNCHANGED github /\ {faults', acts'} \subseteq Nat
  BY DEF MarkRejected, BaseStale, ReadFailed, ReadFails, BranchConflict, BranchMissing,
     PullRequestMissing, PullRequestConflict, Inv, TypeOK
<1>2. PICK status \in {"FAILED", "STALE", "CONFLICT", "REJECTED"} :
         Mark(a, status) /\ (status = "REJECTED" => approval = "REJECTED")
  <2> HIDE DEF Mark
  <2> QED
    BY DEF MarkRejected, BaseStale, ReadFailed, ReadFails, BranchConflict, BranchMissing,
       PullRequestMissing, PullRequestConflict, Inv, Approved
<1>3. objects \subseteq {"blob", "tree", "commit"}
  BY DEF Inv, TypeOK
<1> HIDE DEF Mark
<1> QED BY <1>1, <1>2, <1>3, MarkInv

\* The steps of publish that only read.
LEMMA PublishReadInv ==
    ASSUME Inv, NEW a \in Sessions,
           \/ Check(a) \/ BaseCurrent(a)
           \/ BranchIsOurs(a, "branch") \/ BranchIsOurs(a, "reread") \/ NoBranch(a)
           \/ NoPullRequest(a) \/ \E i \in Numbers : FoundPullRequest(a, i)
    PROVE  Inv'
<1>1. row # "NONE" /\ UNCHANGED <<rows, github>> /\ {faults', acts'} \subseteq Nat
  BY DEF Inv, TypeOK, Unprepared, Check, BaseCurrent, BranchIsOurs, NoBranch, NoPullRequest,
     FoundPullRequest
<1>2. seen[a] \in Status /\ (pc[a] # "idle" => seen[a] # "NONE")
      /\ found[a] \in 0 .. Len(prs) /\ began[a] \in 0 .. Len(prs) /\ Len(prs) \in Nat
      /\ seen = [seen EXCEPT ![a] = seen[a]] /\ found = [found EXCEPT ![a] = found[a]]
      /\ began = [began EXCEPT ![a] = began[a]]
  BY PrsType DEF Inv, TypeOK, Approved
<1>3. pc[a] \in Publishing => approval = "APPROVED"
  BY DEF Inv, Approved
<1>4. CASE Leave(a)
  <2>1. "idle" \in Labels \ Publishing /\ "NONE" \in Status /\ 0 \in 0 .. Len(prs)
    BY <1>2 DEF Labels, Publishing, Status
  <2> HIDE DEF rows, github
  <2> QED BY <1>1, <1>4, <2>1, ReadInv
<1>5. CASE ~Leave(a)
  <2>1. pc[a] # "idle" /\ approval = "APPROVED"
    BY <1>3, <1>5 DEF Check, BaseCurrent, BranchIsOurs, NoBranch, NoPullRequest, FoundPullRequest,
       Publishing, Labels
  <2>2. CASE \E i \in Numbers : FoundPullRequest(a, i)
    <3>1. PICK i \in DOMAIN prs : pc' = [pc EXCEPT ![a] = "match"] /\ seen' = seen
             /\ found' = [found EXCEPT ![a] = i] /\ began' = began
      BY <2>2 DEF FoundPullRequest
    <3>2. i \in 0 .. Len(prs) /\ "match" \in Labels
      BY <3>1, PrsType, LenProperties DEF Inv, Labels
    <3> HIDE DEF rows, github
    <3> QED BY <1>1, <1>2, <2>1, <3>1, <3>2, ReadInv, ZenonT(40)
  <2>3. CASE ~\E i \in Numbers : FoundPullRequest(a, i)
    <3>1. PICK label \in {"begin", "branch", "findPR", "createBranch", "createPR"} :
             Proceed(a, label) /\ (label = "createPR" => prs = <<>>)
      BY <1>5, <2>3 DEF Check, BaseCurrent, BranchIsOurs, NoBranch, NoPullRequest
    <3>2. label \in Labels /\ label # "mark" /\ label # "idle"
      BY DEF Labels
    <3>3. label = "createPR" => began[a] = 0
      BY <1>2, <3>1
    <3>4. pc' = [pc EXCEPT ![a] = label] /\ UNCHANGED <<seen, found, began>>
      BY <3>1
    <3> HIDE DEF rows, github
    <3> QED BY <1>1, <1>2, <2>1, <3>2, <3>3, <3>4, ReadInv
  <2> QED BY <2>2, <2>3
<1> QED BY <1>4, <1>5

LEMMA CrashInv ==
    ASSUME Inv, NEW a \in Sessions, Crash(a)
    PROVE  Inv'
<1>1. row # "NONE" /\ UNCHANGED <<rows, github>> /\ {faults', acts'} \subseteq Nat
  BY DEF Inv, TypeOK, Unprepared, Crash
<1>2. "idle" \in Labels \ Publishing /\ "NONE" \in Status /\ 0 \in 0 .. Len(prs)
  BY PrsType DEF Labels, Publishing, Status, Inv
<1>3. /\ pc' = [pc EXCEPT ![a] = "idle"] /\ seen' = [seen EXCEPT ![a] = "NONE"]
      /\ found' = [found EXCEPT ![a] = 0] /\ began' = [began EXCEPT ![a] = 0]
  BY DEF Crash
<1> HIDE DEF rows, github
<1> QED BY <1>1, <1>2, <1>3, ReadInv

\* The steps that write the row or GitHub: Check has seen the approval.
LEMMA WriteInv ==
    ASSUME Inv, NEW a \in Sessions, pc[a] \in Publishing, UNCHANGED <<approval, asks, baseMoved>>,
           {faults', acts'} \subseteq Nat,
           row' \in Status \ {"NONE", "REJECTED"} \/ row' = row,
           objects' \subseteq {"blob", "tree", "commit"}, ref' \in Refs,
           prs' = prs \/ prs' = Opened,
           prNumber' \in 0 .. Len(prs'),
           NEW label \in Labels \ {"mark", "createPR"}, pc' = [pc EXCEPT ![a] = label],
           NEW s \in Status, seen' = [seen EXCEPT ![a] = s], label # "idle" => s # "NONE",
           NEW n \in 0 .. Len(prs'), found' = [found EXCEPT ![a] = n],
           NEW k \in 0 .. Len(prs'), began' = [began EXCEPT ![a] = k]
    PROVE  Inv'
<1>1. approval = "APPROVED" /\ row # "NONE"
  BY DEF Inv, Approved, Unprepared, Publishing
<1>2. prs' \in Seq(PullRequest) /\ Len(prs') \in Nat /\ Len(prs) \in Nat /\ Len(prs') >= Len(prs)
  BY PrsType DEF Inv
<1>3. row' \in Status \ {"NONE"} /\ (row' = "REJECTED" => row = "REJECTED")
  BY <1>1 DEF Inv, TypeOK
<1> QED BY <1>1, <1>2, <1>3, StepInv

LEMMA BeginInv ==
    ASSUME Inv, NEW a \in Sessions, Begin(a)
    PROVE  Inv'
<1> DEFINE label == IF ProofReplayable THEN "blob" ELSE "idle"
           status == IF ProofReplayable THEN "PUBLISHING" ELSE "NONE"
           n == IF ProofReplayable THEN found[a] ELSE 0
           k == IF ProofReplayable THEN began[a] ELSE 0
<1>1. pc[a] \in Publishing /\ UNCHANGED <<approval, asks, github, prNumber>>
      /\ {faults', acts'} \subseteq Nat
  BY DEF Inv, TypeOK, Begin, Publishing, Labels
<1>2. row' \in Status \ {"NONE", "REJECTED"} \/ row' = row
  BY DEF Begin, Status
<1>3. label \in Labels \ {"mark", "createPR"} /\ pc' = [pc EXCEPT ![a] = label]
  BY DEF Begin, Labels
<1>4. status \in Status /\ seen' = [seen EXCEPT ![a] = status] /\ (label # "idle" => status # "NONE")
  BY DEF Begin, Status
<1>5. n \in 0 .. Len(prs') /\ found' = [found EXCEPT ![a] = n]
      /\ k \in 0 .. Len(prs') /\ began' = [began EXCEPT ![a] = k]
  BY <1>1, PrsType DEF Begin, Inv, TypeOK
<1>6. objects' \subseteq {"blob", "tree", "commit"} /\ ref' \in Refs /\ prs' = prs
      /\ prNumber' \in 0 .. Len(prs') /\ UNCHANGED <<approval, asks, baseMoved>>
  BY <1>1 DEF Inv, TypeOK
<1> HIDE DEF label, status, n, k
<1> QED BY <1>1, <1>2, <1>3, <1>4, <1>5, <1>6, WriteInv

LEMMA UploadInv ==
    ASSUME Inv, NEW a \in Sessions, NEW i \in DOMAIN Kinds, Upload(a, i)
    PROVE  Inv'
<1>1. Kinds[i] \in {"blob", "tree", "commit"} /\ Uploading(i + 1) \in {"tree", "commit", "base"}
  BY KindLabels
<1>2. Uploading(i + 1) \in Labels \ {"mark", "createPR"} /\ pc[a] \in Publishing
  BY <1>1 DEF Upload, Labels, Publishing
<1>3. /\ objects' \subseteq {"blob", "tree", "commit"} /\ ref' \in Refs /\ prs' = prs /\ row' = row
      /\ prNumber' \in 0 .. Len(prs') /\ UNCHANGED <<approval, asks, baseMoved>>
      /\ {faults', acts'} \subseteq Nat
  BY <1>1 DEF Inv, TypeOK, Upload
<1>4. /\ seen[a] \in Status \ {"NONE"} /\ seen' = [seen EXCEPT ![a] = seen[a]]
      /\ found[a] \in 0 .. Len(prs') /\ found' = [found EXCEPT ![a] = found[a]]
      /\ began[a] \in 0 .. Len(prs') /\ began' = [began EXCEPT ![a] = began[a]]
      /\ pc' = [pc EXCEPT ![a] = Uploading(i + 1)]
  BY <1>1, <1>2 DEF Inv, TypeOK, Upload, Approved, Publishing
<1> QED BY <1>2, <1>3, <1>4, WriteInv

LEMMA UploadFailsInv ==
    ASSUME Inv, NEW a \in Sessions, NEW i \in DOMAIN Kinds, UploadFails(a, i)
    PROVE  Inv'
<1>1. Kinds[i] \in {"blob", "tree", "commit"}
  BY KindLabels
<1>2. pc[a] \in Publishing /\ pc[a] # "idle"
  BY <1>1 DEF UploadFails, Labels, Publishing
<1>3. approval = "APPROVED"
  BY <1>2 DEF Inv, Approved
<1>4. Mark(a, "FAILED") /\ UNCHANGED <<baseMoved, ref, prs>>
      /\ objects' \subseteq {"blob", "tree", "commit"} /\ {faults', acts'} \subseteq Nat
  BY <1>1 DEF Inv, TypeOK, UploadFails
<1> HIDE DEF Mark
<1> QED BY <1>2, <1>3, <1>4, MarkInv

LEMMA BranchInv ==
    ASSUME Inv, NEW a \in Sessions, CreateBranch(a) \/ BranchUncertain(a)
    PROVE  Inv'
<1>1. PICK label \in {"findPR", "reread"} : Proceed(a, label)
  BY DEF CreateBranch, BranchUncertain
<1>2. label \in Labels \ {"mark", "createPR"} /\ pc[a] \in Publishing
  BY DEF CreateBranch, BranchUncertain, Labels, Publishing
<1>3. /\ objects' \subseteq {"blob", "tree", "commit"} /\ ref' \in Refs /\ prs' = prs /\ row' = row
      /\ prNumber' \in 0 .. Len(prs') /\ UNCHANGED <<approval, asks, baseMoved>>
      /\ {faults', acts'} \subseteq Nat
  <2>1. CASE CreateBranch(a)
    BY <2>1 DEF Inv, TypeOK, CreateBranch, Refs
  <2>2. CASE BranchUncertain(a)
    <3>1. ref' \in Refs /\ {faults', acts'} \subseteq Nat
      BY <2>2 DEF Inv, TypeOK, BranchUncertain, Refs
    <3> QED BY <2>2, <3>1 DEF Inv, TypeOK, BranchUncertain
  <2> QED BY <2>1, <2>2
<1>4. /\ seen[a] \in Status \ {"NONE"} /\ seen' = [seen EXCEPT ![a] = seen[a]]
      /\ found[a] \in 0 .. Len(prs') /\ found' = [found EXCEPT ![a] = found[a]]
      /\ began[a] \in 0 .. Len(prs') /\ began' = [began EXCEPT ![a] = began[a]]
      /\ pc' = [pc EXCEPT ![a] = label]
  BY <1>1, <1>2, <1>3 DEF Inv, TypeOK, Approved, Publishing
<1> QED BY <1>2, <1>3, <1>4, WriteInv

LEMMA PullRequestInv ==
    ASSUME Inv, NEW a \in Sessions, CreatePullRequest(a) \/ CreationUncertain(a)
    PROVE  Inv'
<1>1. pc[a] \in Publishing /\ (prs' = prs \/ prs' = Opened)
  BY DEF CreatePullRequest, CreationUncertain, Labels, Publishing
<1>2. Len(prs') \in Nat /\ Len(prs') >= Len(prs) /\ 0 .. Len(prs) \subseteq 0 .. Len(prs')
  BY <1>1, PrsType DEF Inv
<1>3. /\ objects' \subseteq {"blob", "tree", "commit"} /\ ref' \in Refs /\ row' = row
      /\ prNumber' \in 0 .. Len(prs') /\ UNCHANGED <<approval, asks, baseMoved>>
      /\ {faults', acts'} \subseteq Nat
  <2>1. {faults', acts'} \subseteq Nat
    BY DEF Inv, TypeOK, CreatePullRequest, CreationUncertain
  <2>2. UNCHANGED <<row, prNumber, approval, asks, baseMoved, objects, ref>>
    BY DEF CreatePullRequest, CreationUncertain
  <2> QED BY <1>2, <2>1, <2>2 DEF Inv, TypeOK
<1>4. /\ seen[a] \in Status \ {"NONE"} /\ seen' = [seen EXCEPT ![a] = seen[a]]
      /\ began[a] \in 0 .. Len(prs') /\ began' = [began EXCEPT ![a] = began[a]]
  BY <1>1, <1>2 DEF Inv, TypeOK, Approved, Publishing, CreatePullRequest, CreationUncertain
<1>5. PICK label \in {"match", "refindPR"}, n \in 0 .. Len(prs') :
         pc' = [pc EXCEPT ![a] = label] /\ found' = [found EXCEPT ![a] = n]
  <2>1. CASE CreatePullRequest(a)
    <3>1. Len(prs') \in 0 .. Len(prs')
      BY <1>2
    <3> QED BY <2>1, <3>1 DEF CreatePullRequest
  <2>2. CASE CreationUncertain(a)
    BY <1>2, <2>2 DEF CreationUncertain, Inv, TypeOK
  <2> QED BY <2>1, <2>2
<1>6. label \in Labels \ {"mark", "createPR"}
  BY DEF Labels
<1> QED BY <1>1, <1>3, <1>4, <1>5, <1>6, WriteInv

LEMMA PublishedInv ==
    ASSUME Inv, NEW a \in Sessions, Published(a)
    PROVE  Inv'
<1>1. /\ pc[a] \in Publishing /\ UNCHANGED <<approval, asks, github>> /\ prs' = prs
      /\ {faults', acts'} \subseteq Nat /\ row' \in Status \ {"NONE", "REJECTED"}
  BY DEF Inv, TypeOK, Published, Publishing, Labels, Status
<1>2. objects' \subseteq {"blob", "tree", "commit"} /\ ref' \in Refs /\ prNumber' \in 0 .. Len(prs')
      /\ baseMoved' = baseMoved
  BY DEF Inv, TypeOK, Published
<1>3. "idle" \in Labels \ {"mark", "createPR"} /\ "NONE" \in Status /\ 0 \in 0 .. Len(prs')
  BY <1>1, PrsType DEF Labels, Status, Inv
<1>4. /\ pc' = [pc EXCEPT ![a] = "idle"] /\ seen' = [seen EXCEPT ![a] = "NONE"]
      /\ found' = [found EXCEPT ![a] = 0] /\ began' = [began EXCEPT ![a] = 0]
  BY DEF Published
<1> HIDE DEF Leave
<1> QED BY <1>1, <1>2, <1>3, <1>4, WriteInv

\* What people do changes no row of the program's, and nothing it uploaded.
LEMMA EnvironmentInv == Inv /\ Environment => Inv'
<1> SUFFICES ASSUME Inv, Environment PROVE Inv'
  OBVIOUS
<1>1. UNCHANGED <<row, prNumber, approval, objects, pc, seen, found, began>>
  BY DEF Environment, Act, MoveBase, PushBranch, NewRule, ClosePullRequest, EditPullRequest
<1>2. prs' \in Seq(PullRequest) /\ Len(prs') = Len(prs)
  <2> USE PrsType, LenProperties DEF Inv
  <2>1. CASE MoveBase \/ NewRule
    BY <2>1 DEF MoveBase, NewRule
  <2>2. CASE PushBranch
    <3>1. \A i \in 1 .. Len(prs) : prs[i] \in PullRequest /\ [prs[i] EXCEPT !.head = "other"] \in PullRequest
      <4>1. \A i \in 1 .. Len(prs) : prs[i] \in PullRequest
        BY ElementOfSeq
      <4>2. \A q \in PullRequest : [q EXCEPT !.head = "other"] \in PullRequest
        BY DEF PullRequest, Refs
      <4> QED BY <4>1, <4>2
    <3>2. DOMAIN prs = 1 .. Len(prs)
      OBVIOUS
    <3>3. prs' = [i \in 1 .. Len(prs) |-> IF prs[i].open THEN [prs[i] EXCEPT !.head = "other"] ELSE prs[i]]
      BY <2>2, <3>2 DEF PushBranch
    <3>4. \A i \in 1 .. Len(prs) : prs'[i] \in PullRequest
      BY <3>1, <3>3
    <3> QED BY <3>3, <3>4, IsASeq
  <2>3. ASSUME NEW i \in Numbers, ClosePullRequest(i) \/ EditPullRequest(i)
        PROVE  prs' \in Seq(PullRequest) /\ Len(prs') = Len(prs)
    <3>1. i \in 1 .. Len(prs) /\ prs[i] \in PullRequest
      BY <2>3, ElementOfSeq DEF ClosePullRequest, EditPullRequest
    <3>2. PICK q \in PullRequest : prs' = [prs EXCEPT ![i] = q]
      BY <2>3, <3>1 DEF ClosePullRequest, EditPullRequest, PullRequest
    <3> QED BY <3>1, <3>2, ExceptSeq
  <2> QED BY <2>1, <2>2, <2>3 DEF Environment
<1>3. ref' \in Refs /\ {faults', acts'} \subseteq Nat
  BY DEF Inv, TypeOK, Refs, Environment, Act, MoveBase, PushBranch, NewRule, ClosePullRequest,
     EditPullRequest
<1>4. asks' \in BOOLEAN /\ baseMoved' \in BOOLEAN
  <2>1. asks \in BOOLEAN /\ baseMoved \in BOOLEAN
    BY DEF Inv, TypeOK
  <2>2. (asks' = asks \/ asks' = ~asks) /\ (baseMoved' = baseMoved \/ baseMoved' = TRUE)
    BY Zenon DEF Environment, MoveBase, PushBranch, NewRule, ClosePullRequest, EditPullRequest
  <2> QED BY Zenon, <2>1, <2>2
<1>5. TypeOK' /\ pc' \in [Sessions -> Labels]
  BY <1>1, <1>2, <1>3, <1>4 DEF Inv, TypeOK, PullRequest
<1>6. prs' # <<>> => prs # <<>>
  BY <1>2, PrsType, EmptySeq DEF Inv
<1> QED
  BY <1>1, <1>5, <1>6 DEF Inv, Unprepared, Approved, OnlyApproved, Fresh

-----------------------------------------------------------------------------
LEMMA NextInv == Inv /\ [Next]_vars => Inv'
<1> SUFFICES ASSUME Inv, [Next]_vars PROVE Inv'
  OBVIOUS
<1>1. CASE UNCHANGED vars
  BY <1>1 DEF vars, Inv, TypeOK, Unprepared, Approved, OnlyApproved, Fresh
<1>2. ASSUME NEW a \in Sessions, Handle(a) PROVE Inv'
  BY <1>2, DecideInv, MarkedInv, PublishReadInv, BeginInv, UploadInv, UploadFailsInv, BranchInv,
     PullRequestInv, PublishedInv DEF Handle
<1>3. ASSUME NEW a \in Sessions, NEW decision \in Decisions, Load(a, decision) PROVE Inv'
  BY <1>3, LoadInv
<1> QED BY <1>1, <1>2, <1>3, PrepareInv, CrashInv, EnvironmentInv DEF Next

THEOREM PublicationInvariant == Spec => []Inv
<1>1. Init => Inv
  BY InitInv
<1>2. Inv /\ [Next]_vars => Inv'
  BY NextInv
<1> QED BY <1>1, <1>2, PTL DEF Spec

\* Type correctness of the publication, whatever the requests and GitHub do.
THEOREM PublicationTypeOK == Spec => []TypeOK
<1>1. Inv => TypeOK
  BY DEF Inv
<1> QED BY <1>1, PublicationInvariant, PTL

\* Nothing is uploaded and no pull request is opened without the approval,
\* and a rejection is never overtaken, for any number of requests.
THEOREM OnlyApprovedReachesGitHub == Spec => []OnlyApproved
<1>1. Inv => OnlyApproved
  BY DEF Inv, Approved
<1> QED BY <1>1, PublicationInvariant, PTL

\* A request that begins after a pull request exists opens no other, however
\* many answers are lost and requests die.
THEOREM RetryOpensNoSecond == Spec => NoSecondPullRequest
<1>1. Inv /\ [Next]_vars => [\A a \in Sessions :
          Len(prs') > Len(prs) /\ pc[a] = "createPR" /\ pc'[a] # "createPR" => began[a] = 0]_vars
  BY DEF Inv, Fresh
<1> QED BY <1>1, PublicationInvariant, PTL DEF Spec, NoSecondPullRequest

\* What the code records as published is what it has just compared.
THEOREM PublishedIsCompared == Spec => PublishedMatches
<1> DEFINE Compared == row' # row /\ row' = "PUBLISHED" => prs[prNumber'].head = "ours" /\ prs[prNumber'].ours
<1>1. ASSUME NEW a \in Sessions, Published(a) PROVE Compared
  BY <1>1 DEF Published, Matches
<1>2. ASSUME NEW a \in Sessions, Handle(a), ~Published(a) PROVE row' = row \/ row' # "PUBLISHED"
  BY <1>2 DEF Handle, Decide, MarkRejected, Check, Begin, BaseStale, BaseCurrent, ReadFailed,
     ReadFails, Upload, UploadFails, BranchIsOurs, BranchConflict, NoBranch, CreateBranch,
     BranchUncertain, BranchMissing, FoundPullRequest, NoPullRequest, CreatePullRequest,
     CreationUncertain, PullRequestMissing, PullRequestConflict
<1>3. ASSUME Prepare \/ Environment \/ UNCHANGED vars PROVE Compared
  <2>1. row' = row \/ row' # "PUBLISHED"
    BY <1>3 DEF Prepare, Environment, MoveBase, PushBranch, NewRule, ClosePullRequest,
       EditPullRequest, vars
  <2> QED BY <2>1
<1>4. ASSUME NEW a \in Sessions, Crash(a) \/ \E decision \in Decisions : Load(a, decision)
      PROVE Compared
  BY <1>4 DEF Crash, Load
<1>5. [Next]_vars => Compared
  <2>1. ASSUME NEW a \in Sessions, Handle(a) PROVE Compared
    BY <1>1, <1>2, <2>1
  <2> HIDE DEF Compared, Decisions
  <2> QED BY Zenon, <1>3, <1>4, <2>1 DEF Next
<1>6. [Next]_vars => [Compared]_vars
  BY <1>5
<1> QED BY <1>6, PTL DEF Spec, PublishedMatches
=============================================================================
