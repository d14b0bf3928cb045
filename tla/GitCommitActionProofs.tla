------------------------ MODULE GitCommitActionProofs ------------------------
(***************************************************************************)
(* Proofs about GitCommitAction.tla, for any number of prepared actions,   *)
(* requests and other people's commits.                                    *)
(*                                                                         *)
(* The argument: the branch only grows, and a request that is about to     *)
(* move it serves an action that is approved for good (Allowed).  The      *)
(* compare-and-swap admits only a history on which the target still held   *)
(* the preimage when the action was prepared, so neither its own commit    *)
(* nor another action's can be the last of it (Prepared).  What a request  *)
(* goes on to record was on the branch before (Made).                      *)
(***************************************************************************)
EXTENDS GitCommitAction, TLAPS

\* A request past the commit of APPLYING.
Applying == {"read", "swap", "writeIndex", "recordApplied", "recordFailed"}

EndsInAction(history) == Len(history) > 0 /\ history[Len(history)] \in Actions

\* What the counters bound: the version of the other index entries.
Counted ==
    /\ crashes + edits <= MaxFaults
    /\ index.rest <= edits
    /\ \A a \in Sessions : held[a].rest <= edits

Serving == \A a \in Sessions : pc[a] # "idle" => on[a] \in Actions

\* A decision that was taken stays, and so does what it lets a request do.
Allowed ==
    /\ \A a \in Sessions : pc[a] \in Applying \cup {"check", "start"} =>
          approval[on[a]] = "APPROVED"
    /\ \A a \in Sessions : pc[a] = "mark" => approval[on[a]] = "REJECTED"
    /\ \A c \in Actions : row[c] = "REJECTED" => approval[c] = "REJECTED"

\* An approval is asked for a prepared action only.
Started == \A c \in Actions : approval[c] # "NONE" => row[c] # "NONE"

\* What is recorded APPLIED, or about to be, is on the branch.
Made ==
    /\ \A a \in Sessions : pc[a] \in {"writeIndex", "recordApplied"} => Contains(log, on[a])
    /\ AppliedIsCommitted

\* An action's commit is on the branch only by its approval.
Committed == \A c \in Actions : Contains(log, c) => approval[c] = "APPROVED"

\* The preimage an action was prepared on.
Prepared ==
    /\ \A c \in Actions : ~Contains(prepared[c].log, c) /\ ~EndsInAction(prepared[c].log)
    /\ EndsInAction(log) => tree = "candidate"

Typed == TypeOK /\ Counted /\ Serving

Inv == Typed /\ Allowed /\ Started /\ Made /\ Committed /\ Prepared /\ OneCommit

-----------------------------------------------------------------------------
(* Histories                                                               *)

LEMMA AppendContains ==
    ASSUME NEW S, NEW s \in Seq(S), NEW e \in S
    PROVE  \A x : Contains(Append(s, e), x) <=> Contains(s, x) \/ x = e
<1>1. /\ Len(Append(s, e)) = Len(s) + 1
      /\ Len(s) \in Nat
      /\ \A i \in 1 .. Len(s) : Append(s, e)[i] = s[i]
      /\ Append(s, e)[Len(s) + 1] = e
  OBVIOUS
<1> QED BY <1>1 DEF Contains

\* A commit on top of a history it is not part of, not both actions.
LEMMA AppendOnce ==
    ASSUME NEW s \in Seq(Actions \cup UserCommits), NEW e \in Actions \cup UserCommits,
           IsInjective(s), ~Contains(s, e),
           \A i \in 1 .. Len(s) - 1 : ~({s[i], s[i + 1]} \subseteq Actions),
           e \in Actions => ~EndsInAction(s)
    PROVE  /\ IsInjective(Append(s, e))
           /\ \A i \in 1 .. Len(Append(s, e)) - 1 :
                ~({Append(s, e)[i], Append(s, e)[i + 1]} \subseteq Actions)
<1>1. /\ Len(Append(s, e)) = Len(s) + 1
      /\ Len(s) \in Nat
      /\ DOMAIN s = 1 .. Len(s)
      /\ DOMAIN Append(s, e) = 1 .. Len(s) + 1
      /\ \A i \in 1 .. Len(s) : Append(s, e)[i] = s[i]
      /\ Append(s, e)[Len(s) + 1] = e
  OBVIOUS
<1>2. IsInjective(Append(s, e))
  BY <1>1 DEF IsInjective, Contains
<1>3. ASSUME NEW i \in 1 .. Len(Append(s, e)) - 1
      PROVE  ~({Append(s, e)[i], Append(s, e)[i + 1]} \subseteq Actions)
  <2>0. i \in 1 .. Len(s)
    BY <1>1
  <2>1. CASE i = Len(s)
    BY <2>1, <1>1 DEF EndsInAction
  <2>2. CASE i # Len(s)
    <3>1. i \in 1 .. Len(s) - 1 /\ i + 1 \in 1 .. Len(s)
      <4> DEFINE n == Len(s)
      <4>1. n \in Nat /\ i \in 1 .. n /\ i # n
        BY <2>0, <2>2, <1>1
      <4> HIDE DEF n
      <4>2. i \in 1 .. n - 1 /\ i + 1 \in 1 .. n
        BY <4>1
      <4> QED BY <4>2 DEF n
    <3> QED BY <3>1, <1>1
  <2> QED BY <2>1, <2>2
<1> QED BY <1>2, <1>3

-----------------------------------------------------------------------------
(* One step: what it does to each variable the invariant relates           *)

\* A decision is final, and an approval is asked once its row exists.
Final(c) ==
    /\ approval[c] \in {"APPROVED", "REJECTED"} => approval'[c] = approval[c]
    /\ approval'[c] # "NONE" => approval[c] # "NONE" \/ row[c] # "NONE"

LEMMA DecisionsAreFinal ==
    ASSUME TypeOK, [Next]_vars
    PROVE  \A c \in Actions : Final(c)
<1>1. ASSUME NEW a \in Sessions, NEW decision \in Decisions, Decide(a, decision)
      PROVE  \A c \in Actions : Final(c)
  BY <1>1 DEF Decide, Decisions, TypeOK, Final
<1>2. ASSUME NEW c \in Actions, CreateApproval(c) \/ \E decision \in Decisions : DecideUnbound(c, decision)
      PROVE  \A x \in Actions : Final(x)
  BY <1>2 DEF CreateApproval, DecideUnbound, TypeOK, Final
<1>3. approval' = approval => \A c \in Actions : Final(c)
  BY DEF Final
<1> QED
  BY <1>1, <1>2, <1>3 DEF Next, Handle, Environment, vars, rows, Prepare, Bind, Load, MarkRejected,
       Check, Start, Recover, BuildCommit, Stale, Swap, WriteIndex, RecordApplied, RecordFailed,
       Crash, UserCommit, UserStage, EditWorktree, SwitchBranch, NewRule

LEMMA TypedStep ==
    ASSUME Typed, [Next]_vars
    PROVE  Typed'
<1> USE GitAssumption DEF Typed, TypeOK, Counted, Serving, rows, repo, counters, Goto, Return, Status, Indexes, Clean
<1>1. ASSUME NEW c \in Actions, Prepare(c)
       PROVE  Typed'
  BY <1>1 DEF Prepare
<1>2. ASSUME NEW c \in Actions, CreateApproval(c)
       PROVE  Typed'
  BY <1>2 DEF CreateApproval
<1>3. ASSUME NEW c \in Actions, Bind(c)
       PROVE  Typed'
  BY <1>3 DEF Bind
<1>4. ASSUME NEW c \in Actions, NEW decision \in Decisions, DecideUnbound(c, decision)
       PROVE  Typed'
  BY <1>4 DEF DecideUnbound, Decisions
<1>5. ASSUME NEW c \in Actions, NEW decision \in Decisions, NEW a \in Sessions, Load(a, c, decision)
       PROVE  Typed'
  BY <1>5 DEF Load, Decisions
<1>6. ASSUME NEW a \in Sessions, NEW decision \in Decisions, Decide(a, decision)
       PROVE  Typed'
  <2>1. pc' = [pc EXCEPT ![a] = "check"] \/ pc' = [pc EXCEPT ![a] = "mark"] \/ Return(a)
    BY <1>6 DEF Decide
  <2>2. UNCHANGED <<on, seen, held>> \/ Return(a)
    BY <1>6 DEF Decide
  <2>3. approval' \in [Actions -> {"NONE", "PENDING", "APPROVED", "REJECTED"}]
    BY <1>6 DEF Decide, Decisions
  <2>4. pc[a] # "idle" /\ UNCHANGED <<row, prepared, bound, asks, repo, counters>>
    BY <1>6 DEF Decide, Decisions
  <2>5. pc' \in [Sessions -> Decisions \cup {"idle", "mark", "check", "start", "read", "swap",
                            "writeIndex", "recordApplied", "recordFailed"}]
    BY <2>1 DEF Decisions
  <2>6. /\ on' \in [Sessions -> Actions \cup {NoAction}] /\ seen' \in [Sessions -> Status]
        /\ held' \in [Sessions -> Indexes] /\ \A x \in Sessions : held'[x].rest <= edits'
    <3>1. edits' = edits
      BY <2>4
    <3>2. CASE UNCHANGED <<on, seen, held>>
      BY <3>1, <3>2
    <3>3. CASE Return(a)
      BY <3>1, <3>3
    <3> QED BY <2>2, <2>4, <3>2, <3>3
  <2>7. Serving'
    BY <2>1, <2>2, <2>4
  <2> QED BY <2>3, <2>4, <2>5, <2>6, <2>7
<1>7. ASSUME NEW a \in Sessions, MarkRejected(a)
       PROVE  Typed'
  BY <1>7 DEF MarkRejected
<1>8. ASSUME NEW a \in Sessions, Check(a)
       PROVE  Typed'
  <2>1. \/ pc' = [pc EXCEPT ![a] = "start"] /\ UNCHANGED <<on, seen, held>>
        \/ Return(a)
    BY <1>8 DEF Check
  <2>2. pc[a] # "idle" /\ UNCHANGED <<rows, repo, counters>>
    BY <1>8 DEF Check
  <2>3. pc' \in [Sessions -> Decisions \cup {"idle", "mark", "check", "start", "read", "swap",
                            "writeIndex", "recordApplied", "recordFailed"}]
    BY <2>1 DEF Decisions
  <2>4. /\ on' \in [Sessions -> Actions \cup {NoAction}] /\ seen' \in [Sessions -> Status]
        /\ held' \in [Sessions -> Indexes] /\ \A x \in Sessions : held'[x].rest <= edits'
    <3>1. edits' = edits
      BY <2>2
    <3>2. CASE UNCHANGED <<on, seen, held>>
      BY <3>1, <3>2
    <3>3. CASE Return(a)
      BY <3>1, <3>3
    <3> QED BY <2>1, <2>2, <3>2, <3>3
  <2>5. Serving'
    BY <2>1, <2>2
  <2> QED BY <2>2, <2>3, <2>4, <2>5
<1>9. ASSUME NEW a \in Sessions, Start(a)
       PROVE  Typed'
  BY <1>9 DEF Start
<1>10. ASSUME NEW a \in Sessions, Recover(a)
       PROVE  Typed'
  BY <1>10 DEF Recover
<1>11. ASSUME NEW a \in Sessions, BuildCommit(a)
       PROVE  Typed'
  BY <1>11 DEF BuildCommit
<1>12. ASSUME NEW a \in Sessions, Stale(a)
       PROVE  Typed'
  BY <1>12 DEF Stale
<1>13. ASSUME NEW a \in Sessions, Swap(a)
       PROVE  Typed'
  <2>1. log' \in Seq(Actions \cup UserCommits) /\ tree' \in {"base", "candidate"}
    <3>1. prepared[on[a]].log \in Seq(Actions \cup UserCommits) /\ on[a] \in Actions
      BY <1>13 DEF Swap
    <3>2. Expected(on[a]) \in Seq(Actions \cup UserCommits)
      BY <3>1 DEF Expected
    <3> QED BY <1>13, <3>2 DEF Swap
  <2>2. pc' = [pc EXCEPT ![a] = "writeIndex"] \/ pc' = [pc EXCEPT ![a] = "recordFailed"]
    BY <1>13 DEF Swap
  <2>3. pc[a] # "idle" /\ UNCHANGED <<rows, onBranch, index, worktree, on, seen, held, counters>>
    BY <1>13 DEF Swap
  <2> QED BY <2>1, <2>2, <2>3
<1>14. ASSUME NEW a \in Sessions, WriteIndex(a)
       PROVE  Typed'
  BY <1>14 DEF WriteIndex
<1>15. ASSUME NEW a \in Sessions, RecordApplied(a)
       PROVE  Typed'
  BY <1>15 DEF RecordApplied
<1>16. ASSUME NEW a \in Sessions, RecordFailed(a)
       PROVE  Typed'
  BY <1>16 DEF RecordFailed
<1>17. ASSUME NEW a \in Sessions, Crash(a)
       PROVE  Typed'
  BY <1>17 DEF Crash
<1>18. ASSUME NEW u \in UserCommits, UserCommit(u)
       PROVE  Typed'
  <2>1. log' \in Seq(Actions \cup UserCommits) /\ tree' \in {"base", "candidate"}
    BY <1>18 DEF UserCommit
  <2>2. index' \in Indexes /\ index'.rest <= edits' /\ crashes' + edits' <= MaxFaults
    <3>1. edits' = edits + 1 /\ crashes' = crashes /\ crashes + edits < MaxFaults
      BY <1>18 DEF UserCommit, Edit
    <3>2. index' = [target |-> index.target, rest |-> index.rest + 1]
      BY <1>18 DEF UserCommit
    <3> QED BY <3>1, <3>2
  <2>3. UNCHANGED <<rows, onBranch, worktree, pc, on, seen, held, crashes>> /\ edits' = edits + 1
    BY <1>18 DEF UserCommit, Edit
  <2> QED BY <2>1, <2>2, <2>3, SMTT(40)
<1>19. ASSUME UserStage
       PROVE  Typed'
  BY <1>19 DEF UserStage, Edit
<1>20. ASSUME EditWorktree
       PROVE  Typed'
  BY <1>20, SMTT(40) DEF EditWorktree, Edit
<1>21. ASSUME SwitchBranch
       PROVE  Typed'
  BY <1>21, SMTT(40) DEF SwitchBranch, Edit
<1>22. ASSUME NewRule
       PROVE  Typed'
  BY <1>22, SMTT(40) DEF NewRule, Edit
<1>23. UNCHANGED vars => Typed'
  BY DEF vars
<1> QED
  BY <1>1, <1>2, <1>3, <1>4, <1>5, <1>6, <1>7, <1>8, <1>9, <1>10, <1>11, <1>12, <1>13, <1>14,
     <1>15, <1>16, <1>17, <1>18, <1>19, <1>20, <1>21, <1>22, <1>23 DEF Next, Handle, Environment

\* A row is never unmade, a rejection and a success are recorded by the
\* requests that have come to them, and a preview is made once, on the
\* preimage.
RowStep(c) ==
    /\ row[c] # "NONE" => row'[c] # "NONE"
    /\ row'[c] = "REJECTED" => row[c] = "REJECTED" \/ \E a \in Sessions : pc[a] = "mark" /\ on[a] = c
    /\ row'[c] = "APPLIED" =>
          row[c] = "APPLIED" \/ \E a \in Sessions : pc[a] = "recordApplied" /\ on[a] = c
    /\ \/ prepared'[c] = prepared[c]
       \/ row[c] = "NONE" /\ prepared'[c].log = log /\ tree = "base"

LEMMA RowSteps ==
    ASSUME Typed, [Next]_vars
    PROVE  \A c \in Actions : RowStep(c)
<1> USE DEF Typed, TypeOK, Serving, RowStep
<1>1. ASSUME NEW c \in Actions, Prepare(c)
      PROVE  \A x \in Actions : RowStep(x)
  BY <1>1 DEF Prepare
<1>2. ASSUME NEW a \in Sessions, MarkRejected(a)
      PROVE  \A c \in Actions : RowStep(c)
  BY <1>2 DEF MarkRejected
<1>3. ASSUME NEW a \in Sessions, Start(a)
      PROVE  \A c \in Actions : RowStep(c)
  BY <1>3 DEF Start
<1>4. ASSUME NEW a \in Sessions, RecordApplied(a)
      PROVE  \A c \in Actions : RowStep(c)
  BY <1>4 DEF RecordApplied
<1>5. ASSUME NEW a \in Sessions, RecordFailed(a)
      PROVE  \A c \in Actions : RowStep(c)
  BY <1>5 DEF RecordFailed
<1>6. UNCHANGED <<row, prepared>> => \A c \in Actions : RowStep(c)
  OBVIOUS
<1> QED
  BY <1>1, <1>2, <1>3, <1>4, <1>5, <1>6 DEF Next, Handle, Environment, vars, rows, repo, counters,
     Edit,
       CreateApproval, Bind, Load, DecideUnbound, Decide, Check, Recover,
       BuildCommit, Stale, Swap, WriteIndex, Crash, UserCommit, UserStage,
       EditWorktree, SwitchBranch, NewRule

\* What a step does to the branch: nothing, the commit of an action on the
\* history it was prepared on, or somebody's own.
Commits(a) ==
    /\ pc[a] = "swap" /\ log = prepared[on[a]].log
    /\ log' = Append(log, on[a]) /\ tree' = "candidate"
    /\ UNCHANGED <<row, prepared, approval>>

BranchStep ==
    \/ UNCHANGED <<log, tree>>
    \/ \E a \in Sessions : Commits(a)
    \/ \E u \in UserCommits :
          ~Contains(log, u) /\ log' = Append(log, u) /\ UNCHANGED <<row, prepared, approval>>

LEMMA BranchSteps ==
    ASSUME [Next]_vars
    PROVE  BranchStep
<1>1. ASSUME NEW a \in Sessions, Swap(a)
      PROVE  BranchStep
  BY <1>1 DEF Swap, BranchStep, Commits, Expected, rows
<1>2. ASSUME NEW u \in UserCommits, UserCommit(u)
      PROVE  BranchStep
  BY <1>2 DEF UserCommit, BranchStep, rows
<1>3. UNCHANGED <<log, tree>> => BranchStep
  BY DEF BranchStep
<1> QED BY <1>1, <1>2, <1>3 DEF Next, Handle, Environment, vars, rows, repo, counters, Edit,
       Prepare, CreateApproval, Bind, Load, DecideUnbound, Decide,
       MarkRejected, Check, Start, Recover, BuildCommit, Stale, WriteIndex,
       RecordApplied, RecordFailed, Crash, UserStage, EditWorktree,
       SwitchBranch, NewRule

\* How a request comes where it is.
SessionStep(a) ==
    /\ pc'[a] \in Applying \cup {"check", "start"} =>
          /\ pc[a] # "idle" /\ on'[a] = on[a]
          /\ pc[a] \in Applying \cup {"check", "start"} \/ approval'[on[a]] = "APPROVED"
    /\ pc'[a] = "mark" =>
          /\ pc[a] # "idle" /\ on'[a] = on[a]
          /\ pc[a] = "mark" \/ approval'[on[a]] = "REJECTED"
    /\ pc'[a] \in {"writeIndex", "recordApplied"} =>
          pc[a] \in {"writeIndex", "recordApplied"} \/ Contains(log', on[a])

LEMMA SessionSteps ==
    ASSUME Typed, [Next]_vars
    PROVE  \A a \in Sessions : SessionStep(a)
<1> USE DEF Typed, TypeOK, Serving, SessionStep, Applying, Goto, Return
<1>1. ASSUME NEW c \in Actions, NEW decision \in Decisions, NEW a \in Sessions, Load(a, c, decision)
      PROVE  \A x \in Sessions : SessionStep(x)
  BY <1>1 DEF Load, Decisions
<1>2. ASSUME NEW a \in Sessions, NEW decision \in Decisions, Decide(a, decision)
      PROVE  \A x \in Sessions : SessionStep(x)
  BY <1>2 DEF Decide, Decisions
<1>3. ASSUME NEW a \in Sessions, MarkRejected(a)
      PROVE  \A x \in Sessions : SessionStep(x)
  BY <1>3 DEF MarkRejected
<1>4. ASSUME NEW a \in Sessions, Check(a)
      PROVE  \A x \in Sessions : SessionStep(x)
  BY <1>4 DEF Check
<1>5. ASSUME NEW a \in Sessions, Start(a)
      PROVE  \A x \in Sessions : SessionStep(x)
  BY <1>5 DEF Start
<1>6. ASSUME NEW a \in Sessions, Recover(a)
      PROVE  \A x \in Sessions : SessionStep(x)
  <2>1. on[a] \in Actions /\ prepared[on[a]].log \in Seq(Actions \cup UserCommits)
    BY <1>6 DEF Recover
  <2>2. Contains(log', on[a])
    <3>1. Contains(Expected(on[a]), on[a])
      BY <2>1, AppendContains DEF Expected
    <3> QED BY <1>6, <3>1 DEF Recover, repo
  <2> QED BY <1>6, <2>2 DEF Recover
<1>7. ASSUME NEW a \in Sessions, BuildCommit(a)
      PROVE  \A x \in Sessions : SessionStep(x)
  BY <1>7 DEF BuildCommit
<1>8. ASSUME NEW a \in Sessions, Stale(a)
      PROVE  \A x \in Sessions : SessionStep(x)
  BY <1>8 DEF Stale
<1>9. ASSUME NEW a \in Sessions, Swap(a)
      PROVE  \A x \in Sessions : SessionStep(x)
  <2>1. on[a] \in Actions /\ prepared[on[a]].log \in Seq(Actions \cup UserCommits)
    BY <1>9 DEF Swap
  <2>2. pc'[a] = "writeIndex" => Contains(log', on[a])
    <3>1. Contains(Expected(on[a]), on[a])
      BY <2>1, AppendContains DEF Expected
    <3> QED BY <1>9, <3>1 DEF Swap
  <2>3. pc' = [pc EXCEPT ![a] = "writeIndex"] \/ pc' = [pc EXCEPT ![a] = "recordFailed"]
    BY <1>9 DEF Swap
  <2>4. pc[a] = "swap" /\ UNCHANGED <<on, approval>>
    BY <1>9 DEF Swap, rows
  <2> QED BY <2>2, <2>3, <2>4
<1>10. ASSUME NEW a \in Sessions, WriteIndex(a)
      PROVE  \A x \in Sessions : SessionStep(x)
  BY <1>10 DEF WriteIndex
<1>11. ASSUME NEW a \in Sessions, RecordApplied(a)
      PROVE  \A x \in Sessions : SessionStep(x)
  BY <1>11 DEF RecordApplied
<1>12. ASSUME NEW a \in Sessions, RecordFailed(a)
      PROVE  \A x \in Sessions : SessionStep(x)
  BY <1>12 DEF RecordFailed
<1>13. ASSUME NEW a \in Sessions, Crash(a)
      PROVE  \A x \in Sessions : SessionStep(x)
  BY <1>13 DEF Crash
<1>14. UNCHANGED <<pc, on>> => \A a \in Sessions : SessionStep(a)
  OBVIOUS
<1> QED BY <1>1, <1>2, <1>3, <1>4, <1>5, <1>6, <1>7, <1>8, <1>9, <1>10, <1>11, <1>12, <1>13, <1>14
    DEF Next, Handle, Environment, vars, rows, repo, counters, Edit,
       Prepare, CreateApproval, Bind, DecideUnbound, UserCommit, UserStage, EditWorktree,
       SwitchBranch, NewRule

-----------------------------------------------------------------------------
(* The invariant                                                           *)

LEMMA InitInv == Init => Inv
<1> SUFFICES ASSUME Init PROVE Inv
  OBVIOUS
<1>1. Typed
  <2>1. <<>> \in Seq(Actions \cup UserCommits)
    OBVIOUS
  <2>2. Clean \in Indexes /\ Clean.rest = 0
    BY GitAssumption DEF Clean, Indexes
  <2>3. TypeOK
    <3>1. \A c \in Actions : prepared[c].log = <<>> /\ prepared[c].index = Clean
      BY Zenon DEF Init
    <3>2. \A c \in Actions :
            prepared[c].log \in Seq(Actions \cup UserCommits) /\ prepared[c].index \in Indexes
      BY <3>1, <2>1, <2>2
    <3>3. /\ log \in Seq(Actions \cup UserCommits) /\ index \in Indexes
          /\ held \in [Sessions -> Indexes]
      BY <2>1, <2>2 DEF Init
    <3>4. {crashes, edits} \subseteq Nat /\ bound \subseteq Actions
      BY DEF Init
    <3>5. asks \in BOOLEAN /\ onBranch \in BOOLEAN /\ worktree \in BOOLEAN
      BY DEF Init
    <3> QED BY <3>2, <3>3, <3>4, <3>5 DEF Init, TypeOK, Status
  <2>4. Counted /\ Serving
    BY <2>2, GitAssumption DEF Init, Counted, Serving
  <2> QED BY <2>3, <2>4 DEF Typed
<1>2. \A x : ~Contains(<<>>, x) /\ ~EndsInAction(<<>>)
  BY DEF Contains, EndsInAction
<1>3. Allowed /\ Started /\ Made /\ Committed /\ Prepared
  BY <1>2 DEF Init, Allowed, Applying, Started, Made, AppliedIsCommitted, Committed, Prepared
<1>4. OneCommit
  BY DEF Init, OneCommit, IsInjective
<1> QED BY <1>1, <1>3, <1>4 DEF Inv

\* The commit of an approved action: what it was built on.
LEMMA CommitFacts ==
    ASSUME Inv, NEW a \in Sessions, Commits(a)
    PROVE  /\ on[a] \in Actions
           /\ approval[on[a]] = "APPROVED"
           /\ ~Contains(log, on[a]) /\ ~EndsInAction(log)
<1>1. on[a] \in Actions
  BY DEF Inv, Typed, Serving, Commits
<1> QED BY <1>1 DEF Inv, Commits, Allowed, Applying, Prepared

\* What the branch holds it keeps.
LEMMA BranchGrows ==
    ASSUME Inv, [Next]_vars
    PROVE  /\ \A x : Contains(log, x) => Contains(log', x)
           /\ \A x \in Actions : Contains(log', x) =>
                 Contains(log, x) \/ \E a \in Sessions : Commits(a) /\ on[a] = x
<1> USE BranchSteps DEF BranchStep
<1>1. log \in Seq(Actions \cup UserCommits)
  BY DEF Inv, Typed, TypeOK
<1>2. CASE UNCHANGED <<log, tree>>
  BY <1>2
<1>3. ASSUME NEW a \in Sessions, Commits(a)
      PROVE  \A x : Contains(log', x) <=> Contains(log, x) \/ x = on[a]
  BY <1>1, <1>3, CommitFacts, AppendContains DEF Commits
<1>4. ASSUME NEW u \in UserCommits, log' = Append(log, u)
      PROVE  \A x : Contains(log', x) <=> Contains(log, x) \/ x = u
  BY <1>1, <1>4, AppendContains
<1> QED BY <1>2, <1>3, <1>4, GitAssumption

LEMMA NextInv == Inv /\ [Next]_vars => Inv'
<1> SUFFICES ASSUME Inv, [Next]_vars PROVE Inv'
  OBVIOUS
<1>t. Typed'
  BY TypedStep DEF Inv
<1>n. TypeOK /\ Serving
  BY DEF Inv, Typed
<1>d. \A c \in Actions : Final(c)
  BY DecisionsAreFinal, <1>n
<1>r. \A c \in Actions : RowStep(c)
  BY RowSteps DEF Inv
<1>s. \A a \in Sessions : SessionStep(a)
  BY SessionSteps DEF Inv
<1>1. Allowed'
  <2>1. ASSUME NEW a \in Sessions, pc'[a] \in Applying \cup {"check", "start"}
        PROVE  approval'[on'[a]] = "APPROVED"
    BY <2>1, <1>s, <1>d, <1>n DEF SessionStep, Final, Inv, Allowed, Serving
  <2>2. ASSUME NEW a \in Sessions, pc'[a] = "mark"
        PROVE  approval'[on'[a]] = "REJECTED"
    BY <2>2, <1>s, <1>d, <1>n DEF SessionStep, Final, Inv, Allowed, Serving
  <2>3. ASSUME NEW c \in Actions, row'[c] = "REJECTED"
        PROVE  approval'[c] = "REJECTED"
    BY <2>3, <1>r, <1>d DEF RowStep, Final, Inv, Allowed
  <2> QED BY <2>1, <2>2, <2>3 DEF Allowed
<1>2. Started'
  BY <1>r, <1>d DEF RowStep, Final, Inv, Started
<1>3. Made'
  <2>1. ASSUME NEW a \in Sessions, pc'[a] \in {"writeIndex", "recordApplied"}
        PROVE  Contains(log', on'[a])
    BY <2>1, <1>s, BranchGrows DEF SessionStep, Inv, Made, Applying
  <2>2. ASSUME NEW c \in Actions, row'[c] = "APPLIED"
        PROVE  Contains(log', c)
    BY <2>2, <1>r, BranchGrows DEF RowStep, Inv, Made, AppliedIsCommitted
  <2> QED BY <2>1, <2>2 DEF Made, AppliedIsCommitted
<1>4. Committed'
  <2> SUFFICES ASSUME NEW c \in Actions, Contains(log', c) PROVE approval'[c] = "APPROVED"
    BY DEF Committed
  <2>1. approval[c] = "APPROVED"
    BY BranchGrows, CommitFacts DEF Inv, Committed
  <2> QED BY <2>1, <1>d DEF Final
<1>5. Prepared'
  <2>1. ASSUME NEW c \in Actions
        PROVE  ~Contains(prepared'[c].log, c) /\ ~EndsInAction(prepared'[c].log)
    <3>1. row[c] = "NONE" => ~Contains(log, c)
      BY DEF Inv, Started, Committed
    <3> QED BY <3>1, <1>r DEF RowStep, Inv, Prepared
  <2>2. EndsInAction(log') => tree' = "candidate"
    <3>1. CASE UNCHANGED <<log, tree>>
      BY <3>1 DEF Inv, Prepared
    <3>2. ASSUME NEW u \in UserCommits, log' = Append(log, u)
          PROVE  ~EndsInAction(log')
      <4>1. Len(log') = Len(log) + 1 /\ log'[Len(log) + 1] = u
        BY <3>2, <1>n DEF TypeOK
      <4> QED BY <4>1, GitAssumption DEF EndsInAction
    <3> QED BY <3>1, <3>2, BranchSteps DEF BranchStep, Commits
  <2> QED BY <2>1, <2>2 DEF Prepared
<1>6. OneCommit'
  <2>1. CASE UNCHANGED <<log, tree>>
    BY <2>1 DEF Inv, OneCommit
  <2>2. ASSUME NEW e \in Actions \cup UserCommits, log' = Append(log, e), ~Contains(log, e),
               e \in Actions => ~EndsInAction(log)
        PROVE  OneCommit'
    BY <2>2, <1>n, AppendOnce DEF Inv, OneCommit, TypeOK
  <2> QED BY <2>1, <2>2, BranchSteps, CommitFacts, GitAssumption DEF BranchStep, Commits
<1> QED BY <1>t, <1>1, <1>2, <1>3, <1>4, <1>5, <1>6 DEF Inv

\* Everything above holds in every behaviour.
THEOREM GitCommitInvariant == Spec => []Inv
<1>1. Init => Inv
  BY InitInv
<1>2. Inv /\ [Next]_vars => Inv'
  BY NextInv
<1> QED BY <1>1, <1>2, PTL DEF Spec

\* A commit of one run reaches the branch once, whatever is prepared and
\* approved how often (set_if_equals in local.apply).
THEOREM GitOneCommit == Spec => []OneCommit
BY GitCommitInvariant, PTL DEF Inv

\* An action recorded APPLIED has its commit on the branch (approve_and_apply).
THEOREM GitAppliedIsCommitted == Spec => []AppliedIsCommitted
BY GitCommitInvariant, PTL DEF Inv, Made

\* A rejected action is never committed, and a row is marked REJECTED only
\* by its decision (decide_approval).
THEOREM GitRejectedStays == Spec => []RejectedStays
<1>1. Inv => RejectedStays
  BY DEF Inv, Committed, Allowed, RejectedStays
<1> QED BY <1>1, GitCommitInvariant, PTL

\* Whatever moves the branch is somebody's own commit, or that of an approved
\* action on exactly the history its preview was made for (local.apply).
THEOREM GitCommitIsReviewed == Spec => CommitIsReviewed
<1>1. Inv /\ [Next]_vars =>
        [log' # log =>
            \/ \E u \in UserCommits : log' = Append(log, u)
            \/ \E c \in Actions :
                log' = Append(log, c) /\ log = prepared[c].log /\ approval[c] = "APPROVED"]_vars
  BY BranchSteps, CommitFacts DEF BranchStep, Commits
<1> QED BY <1>1, GitCommitInvariant, PTL DEF Spec, CommitIsReviewed

-----------------------------------------------------------------------------
(* The index.  Nothing that is written to it takes the target back to its  *)
(* preimage, and a request records its action only after its own write.    *)

IndexWritten ==
    /\ \A a \in Sessions : pc[a] = "recordApplied" => index.target = "candidate"
    /\ IndexFollowsHead

\* What a step does to the target's entry.
LEMMA IndexSteps ==
    ASSUME Typed, [Next]_vars
    PROVE  /\ index.target = "candidate" => index'.target = "candidate"
           /\ \A a \in Sessions : pc'[a] = "recordApplied" =>
                 pc[a] = "recordApplied" \/ index'.target = "candidate"
<1> USE DEF Typed, TypeOK, Indexes, Goto, Return
<1>1. ASSUME NEW a \in Sessions, WriteIndex(a)
      PROVE  index'.target = "candidate"
  BY <1>1 DEF WriteIndex
<1>2. CASE Environment
  <2>1. index' = index \/ index' = [index EXCEPT !.rest = @ + 1]
    BY <1>2 DEF Environment, UserStage, UserCommit, EditWorktree, SwitchBranch, NewRule, repo
  <2>2. pc' = pc
    BY <1>2 DEF Environment, UserStage, UserCommit, EditWorktree, SwitchBranch, NewRule, Edit
  <2> QED BY <2>1, <2>2
<1>3. ASSUME NEW a \in Sessions, Handle(a) \/ Crash(a), ~WriteIndex(a)
      PROVE  index' = index /\ \A b \in Sessions : pc'[b] = "recordApplied" => pc[b] = "recordApplied"
  BY <1>3 DEF Handle, Decide, MarkRejected, Check, Start, Recover, BuildCommit, Stale, Swap,
     RecordApplied, RecordFailed, Crash, rows, repo
<1>4. ASSUME NEW c \in Actions, Prepare(c) \/ CreateApproval(c) \/ Bind(c)
      PROVE  UNCHANGED <<index, pc>>
  BY <1>4 DEF Prepare, CreateApproval, Bind, repo
<1>5. ASSUME NEW c \in Actions, NEW decision \in Decisions, DecideUnbound(c, decision)
      PROVE  UNCHANGED <<index, pc>>
  BY <1>5 DEF DecideUnbound, repo
<1>6. ASSUME NEW c \in Actions, NEW decision \in Decisions, NEW a \in Sessions, Load(a, c, decision)
      PROVE  index' = index /\ \A b \in Sessions : pc'[b] = "recordApplied" => pc[b] = "recordApplied"
  BY <1>6 DEF Load, Decisions, repo
<1> QED BY <1>1, <1>2, <1>3, <1>4, <1>5, <1>6 DEF Next, vars

LEMMA NextIndexWritten == Inv /\ IndexWritten /\ [Next]_vars => IndexWritten'
<1> SUFFICES ASSUME Inv, IndexWritten, [Next]_vars PROVE IndexWritten'
  OBVIOUS
<1>1. ASSUME NEW c \in Actions, row'[c] = "APPLIED" PROVE index'.target = "candidate"
  BY <1>1, RowSteps, IndexSteps DEF RowStep, Inv, IndexWritten, IndexFollowsHead
<1> QED BY <1>1, IndexSteps DEF Inv, IndexWritten, IndexFollowsHead

\* Once an action is recorded APPLIED the index holds what its commit put
\* into the tree, whichever attempt made the commit and whichever recovered
\* it (_write_index_entries).
THEOREM GitIndexFollowsHead == Spec => []IndexFollowsHead
<1>1. Init => IndexWritten
  BY DEF Init, IndexWritten, IndexFollowsHead
<1>2. IndexWritten => IndexFollowsHead
  BY DEF IndexWritten
<1> QED BY <1>1, <1>2, NextIndexWritten, GitCommitInvariant, PTL DEF Spec
=============================================================================
