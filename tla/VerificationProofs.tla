------------------------- MODULE VerificationProofs -------------------------
(***************************************************************************)
(* Proofs about the verification service and its installation tools        *)
(* (VerificationWorker.tla, VerificationInstaller.tla), for any number of  *)
(* clients, runs and invocations, and every failure and death they model.  *)
(*                                                                         *)
(* The worker: a snapshot has one owner at a time, the pending capability  *)
(* or the run under way, so a blocked worker has neither (Alone); what a   *)
(* run is known to have done only grows (Traced), so a recorded pass stays *)
(* earned; and current.json is written before the run is accepted and      *)
(* removed after its result is (Files), so a death at any point leaves one *)
(* of them.  The tools: the service is stopped at every step that replaces *)
(* what it runs from, and the predecessor is moved before it is replaced   *)
(* (Steps).                                                                *)
(***************************************************************************)
EXTENDS VerificationInstaller, TLAPS

\* A snapshot is prepared or a run is under way, never both, and a worker
\* that is blocked or not there has neither.
Alone ==
    /\ pending # None => job = None
    /\ blocked => pending = None /\ (job # None => job.stage = "recorded")
    /\ service # "active" => pending = None /\ job = None

\* What is known of a run before, and after, its probe was cleaned up.
Concluding == {"conclude", "recorded"}
Traced ==
    /\ pending # None => evidence[pending.run] = "staged"
    /\ job # None =>
        /\ job.stage \notin Concluding => evidence[job.run] = "staged"
        /\ job.stage \in Concluding => evidence[job.run] # "none"
        /\ job.stage \in Concluding /\ job.destroyed =>
              /\ job.run \notin snapshots
              /\ evidence[job.run] = IF job.checks THEN "contained" ELSE "refuted"
        /\ job.stage = "recorded" => recentFile = JobResult(job) /\ blocked = Uncontained(job)

\* Run r was contained, and its snapshot is gone.
Contained(r) == evidence[r] = "contained" /\ r \notin snapshots

Earned(result) == result # None /\ result.state = "passed" => Contained(result.run)

\* Clients have runs of their own.
Distinct ==
    /\ \A c \in Peer : client[c].phase \in {"prepared", "accepted"} => client[c].run # "none"
    /\ \A c \in Peer : client[c].run # "none" => evidence[client[c].run] # "none"
    /\ \A c, d \in Peer : c # d /\ client[c].run # "none" => client[c].run # client[d].run
    /\ \A c \in Peer : client[c].state = "passed" =>
          client[c].run # "none" /\ Contained(client[c].run)

\* The files name the run accepted last, and so does the memory of a worker
\* that serves.
Files ==
    /\ currentFile # "none" => currentFile = accepted
    /\ job # None => currentFile = job.run
    /\ accepted # "none" => currentFile = accepted \/ recentFile.run = accepted
    /\ service = "active" /\ accepted # "none" =>
          (job # None /\ job.run = accepted) \/ recent.run = accepted

WInv == WorkerTypeOK /\ Alone /\ Traced /\ Earned(recent) /\ Earned(recentFile) /\ Distinct
        /\ Files /\ SnapshotIsOwned

USE DEF None, memory, disk, history, Becomes, Thread, LockIsFree, Serving
-----------------------------------------------------------------------------
LEMMA WorkerInitInv == WorkerInit => WInv
<1> SUFFICES ASSUME WorkerInit PROVE WInv
  OBVIOUS
<1>1. blocked \in BOOLEAN /\ blocked = FALSE
  BY Zenon DEF WorkerInit
<1>2. /\ service \in {"active", "inactive"}
      /\ pending = None /\ job = None /\ recent = None /\ recentFile = None
      /\ currentFile = "none" /\ accepted = "none" /\ snapshots = {} /\ orphans = {}
      /\ client = [c \in Peer |-> [phase |-> "idle", run |-> "none", state |-> "none"]]
      /\ evidence = [r \in Run |-> "none"]
  BY DEF WorkerInit
<1>3. WorkerTypeOK
  BY <1>1, <1>2 DEF WorkerTypeOK, Results, State
<1>4. Alone /\ Traced /\ Earned(recent) /\ Earned(recentFile) /\ Files /\ SnapshotIsOwned
  BY <1>1, <1>2 DEF Alone, Traced, Earned, Files, SnapshotIsOwned
<1>5. Distinct
  BY <1>2 DEF Distinct
<1> QED BY <1>3, <1>4, <1>5 DEF WInv

\* What the discarding of an expired capability leaves.
LEMMA DiscardType ==
    ASSUME WorkerTypeOK, NEW after \in AfterDiscard
    PROVE  /\ after.pending \in [run : Run, peer : Peer, expired : BOOLEAN] \union {None}
           /\ after.blocked \in BOOLEAN
           /\ after.snapshots \subseteq Run
           /\ after.pending # None => after.pending = pending
<1>1. CASE after = [pending |-> None, blocked |-> blocked, snapshots |-> snapshots \ {pending.run}]
  BY <1>1 DEF WorkerTypeOK
<1>2. CASE after = [pending |-> None, blocked |-> TRUE, snapshots |-> snapshots]
  BY <1>2 DEF WorkerTypeOK
<1>3. CASE after = [pending |-> pending, blocked |-> blocked, snapshots |-> snapshots]
  BY <1>3 DEF WorkerTypeOK
<1> QED BY <1>1, <1>2, <1>3 DEF AfterDiscard

LEMMA KillInv ==
    ASSUME WInv, NEW next \in {"failed", "inactive", "foundation"}, Kill(next)
    PROVE  WInv'
<1> USE RunAssumption DEF WInv, Kill
<1>1. WorkerTypeOK'
  <2>1. blocked' \in BOOLEAN /\ recent' \in Results
    BY DEF Results
  <2>2. UNCHANGED <<currentFile, recentFile, snapshots, client, evidence, orphans, accepted>>
    OBVIOUS
  <2> QED BY <2>1, <2>2 DEF WorkerTypeOK
<1>2. Alone'
  BY DEF Alone, WorkerTypeOK, Job, NewJob
<1>3. Traced'
  BY DEF Traced, Alone, WorkerTypeOK, Job, NewJob, Concluding, JobResult, Result, Uncontained
<1>4. Earned(recent)' /\ Earned(recentFile)'
  BY DEF Earned, Contained, Traced, Alone, WorkerTypeOK, Job, Results, Concluding, JobResult,
     Result, Passed, Uncontained
<1>5. Distinct'
  BY DEF Distinct, Contained, Traced, Alone, WorkerTypeOK, Concluding
<1>6. Files'
  BY DEF Files, Traced, Alone, WorkerTypeOK, Job, NewJob, Concluding, JobResult, Result
<1>7. SnapshotIsOwned'
  BY DEF SnapshotIsOwned, Traced, Alone, WorkerTypeOK, Job, NewJob, Concluding, Uncontained
<1> QED BY <1>1, <1>2, <1>3, <1>4, <1>5, <1>6, <1>7

LEMMA LaunchInv ==
    ASSUME WInv, service # "active", Launch
    PROVE  WInv'
<1> USE RunAssumption DEF WInv, Launch, Reconciled
<1>1. WorkerTypeOK'
  <2>1. Reconciled \in Results
    BY DEF WorkerTypeOK, Results, Result, State
  <2>2. blocked' \in BOOLEAN /\ snapshots' \subseteq Run /\ orphans' \subseteq Run
    BY DEF WorkerTypeOK
  <2>3. UNCHANGED <<client, evidence, accepted>>
    OBVIOUS
  <2> HIDE DEF Reconciled
  <2> QED BY <2>1, <2>2, <2>3 DEF WorkerTypeOK
<1>2. Alone'
  BY DEF Alone, WorkerTypeOK, Job, NewJob
<1>3. Traced'
  BY DEF Traced, Alone, WorkerTypeOK, Job, NewJob, Concluding, JobResult, Result, Uncontained
<1>4. Earned(recent)' /\ Earned(recentFile)'
  BY DEF Earned, Contained, Traced, Alone, WorkerTypeOK, Job, Results, Concluding, JobResult,
     Result, Passed, Uncontained
<1>5. Distinct'
  BY DEF Distinct, Contained, Traced, Alone, WorkerTypeOK, Concluding
<1>6. Files'
  BY DEF Files, Traced, Alone, WorkerTypeOK, Job, NewJob, Concluding, JobResult, Result
<1>7. SnapshotIsOwned'
  BY DEF SnapshotIsOwned, Traced, Alone, WorkerTypeOK, Job, NewJob, Concluding, Uncontained
<1> QED BY <1>1, <1>2, <1>3, <1>4, <1>5, <1>6, <1>7

LEMMA CapabilityExpiresInv ==
    ASSUME WInv, CapabilityExpires
    PROVE  WInv'
<1> USE RunAssumption DEF WInv, CapabilityExpires
<1>1. WorkerTypeOK'
  <2>1. pending' \in [run : Run, peer : Peer, expired : BOOLEAN] \union {None}
    BY DEF WorkerTypeOK
  <2> QED BY <2>1 DEF WorkerTypeOK
<1>2. Alone'
  BY DEF Alone, WorkerTypeOK, Job, NewJob
<1>3. Traced'
  BY DEF Traced, Alone, WorkerTypeOK, Job, NewJob, Concluding, JobResult, Result, Uncontained
<1>4. Earned(recent)' /\ Earned(recentFile)'
  BY DEF Earned, Contained, Traced, Alone, WorkerTypeOK, Job, Results, Concluding, JobResult,
     Result, Passed, Uncontained
<1>5. Distinct'
  BY DEF Distinct, Contained, Traced, Alone, WorkerTypeOK, Concluding
<1>6. Files'
  BY DEF Files, Traced, Alone, WorkerTypeOK, Job, NewJob, Concluding, JobResult, Result
<1>7. SnapshotIsOwned'
  BY DEF SnapshotIsOwned, Traced, Alone, WorkerTypeOK, Job, NewJob, Concluding, Uncontained
<1> QED BY <1>1, <1>2, <1>3, <1>4, <1>5, <1>6, <1>7

LEMMA HealthInv ==
    ASSUME WInv, NEW c \in Peer, Health(c)
    PROVE  WInv'
<1> USE RunAssumption DEF WInv, Health, AfterDiscard
<1>1. WorkerTypeOK'
  <2> HIDE DEF AfterDiscard
  <2>1. PICK after \in AfterDiscard :
           blocked' = after.blocked /\ pending' = after.pending /\ snapshots' = after.snapshots
    OBVIOUS
  <2>2. blocked' \in BOOLEAN /\ snapshots' \subseteq Run
        /\ pending' \in [run : Run, peer : Peer, expired : BOOLEAN] \union {None}
    BY <2>1, DiscardType DEF WorkerTypeOK
  <2>3. client' \in [Peer -> [phase : {"idle", "healthy", "prepared", "accepted", "over"},
                           run   : Run \union {"none"},
                           state : State \union {"none", "error", "stale_source"}]]
    BY <2>1 DEF WorkerTypeOK, State
  <2>4. UNCHANGED <<service, job, recent, disk, history>>
    OBVIOUS
  <2> QED BY <2>2, <2>3, <2>4 DEF WorkerTypeOK
<1>2. Alone'
  BY DEF Alone, WorkerTypeOK, Job, NewJob
<1>3. Traced'
  BY DEF Traced, Alone, WorkerTypeOK, Job, NewJob, Concluding, JobResult, Result, Uncontained
<1>4. Earned(recent)' /\ Earned(recentFile)'
  BY DEF Earned, Contained, Traced, Alone, WorkerTypeOK, Job, Results, Concluding, JobResult,
     Result, Passed, Uncontained
<1>5. Distinct'
  BY DEF Distinct, Contained, Traced, Alone, WorkerTypeOK, Concluding
<1>6. Files'
  BY DEF Files, Traced, Alone, WorkerTypeOK, Job, NewJob, Concluding, JobResult, Result
<1>7. SnapshotIsOwned'
  BY DEF SnapshotIsOwned, Traced, Alone, WorkerTypeOK, Job, NewJob, Concluding, Uncontained
<1> QED BY <1>1, <1>2, <1>3, <1>4, <1>5, <1>6, <1>7

LEMMA PrepareInv ==
    ASSUME WInv, NEW c \in Peer, Prepare(c)
    PROVE  WInv'
<1> USE RunAssumption DEF WInv, Prepare, AfterDiscard, MayPrepare, Fresh, Staged, StagingFails
<1>1. WorkerTypeOK'
  <2> HIDE DEF AfterDiscard, MayPrepare
  <2>1. PICK after \in AfterDiscard :
           /\ blocked' = after.blocked
           /\ \/ /\ Becomes(c, "over", "none", "error")
                 /\ pending' = after.pending /\ snapshots' = after.snapshots
                 /\ UNCHANGED <<evidence, orphans>>
              \/ \E r \in Fresh : Staged(c, r, after) \/ StagingFails(c, r, after)
    OBVIOUS
  <2>2. blocked' \in BOOLEAN /\ after.snapshots \subseteq Run
        /\ after.pending \in [run : Run, peer : Peer, expired : BOOLEAN] \union {None}
    BY <2>1, DiscardType
  <2>6. snapshots' \subseteq Run
    BY <2>1, <2>2
  <2>7. pending' \in [run : Run, peer : Peer, expired : BOOLEAN] \union {None}
    <3>1. CASE \E r \in Fresh : Staged(c, r, after)
      BY <3>1
    <3>2. CASE pending' = after.pending
      BY <2>2, <3>2
    <3> QED BY <2>1, <3>1, <3>2
  <2>3. client' \in [Peer -> [phase : {"idle", "healthy", "prepared", "accepted", "over"},
                           run   : Run \union {"none"},
                           state : State \union {"none", "error", "stale_source"}]]
    BY <2>1 DEF WorkerTypeOK, State
  <2>4. /\ evidence' \in [Run -> {"none", "staged", "unstaged", "escaped", "refuted", "contained"}]
        /\ orphans' \subseteq Run
    BY <2>1 DEF WorkerTypeOK
  <2>5. UNCHANGED <<service, job, recent, disk, accepted>>
    OBVIOUS
  <2> QED BY <2>2, <2>3, <2>4, <2>5, <2>6, <2>7 DEF WorkerTypeOK
<1>2. Alone'
  BY DEF Alone, WorkerTypeOK, Job, NewJob
<1>3. Traced'
  BY DEF Traced, Alone, WorkerTypeOK, Job, NewJob, Concluding, JobResult, Result, Uncontained
<1>4. Earned(recent)' /\ Earned(recentFile)'
  BY DEF Earned, Contained, Traced, Alone, WorkerTypeOK, Job, Results, Concluding, JobResult,
     Result, Passed, Uncontained
<1>5. Distinct'
  BY DEF Distinct, Contained, Traced, Alone, WorkerTypeOK, Concluding
<1>6. Files'
  BY DEF Files, Traced, Alone, WorkerTypeOK, Job, NewJob, Concluding, JobResult, Result
<1>7. SnapshotIsOwned'
  BY DEF SnapshotIsOwned, Traced, Alone, WorkerTypeOK, Job, NewJob, Concluding, Uncontained
<1> QED BY <1>1, <1>2, <1>3, <1>4, <1>5, <1>6, <1>7

LEMMA VerifyInv ==
    ASSUME WInv, NEW c \in Peer, Verify(c)
    PROVE  WInv'
<1> USE RunAssumption DEF WInv, Verify, AfterDiscard, Authorized
<1>1. WorkerTypeOK'
  <2> HIDE DEF AfterDiscard
  <2>1. PICK after \in AfterDiscard :
           /\ blocked' = after.blocked /\ snapshots' = after.snapshots
           /\ pending' \in {after.pending, None}
           /\ \/ UNCHANGED <<job, currentFile, history>>
              \/ /\ after.pending # None
                 /\ \/ currentFile' = after.pending.run /\ job' = NewJob(after.pending.run)
                       /\ accepted' = after.pending.run /\ UNCHANGED <<evidence, orphans>>
                    \/ orphans' = orphans \union {after.pending.run}
                       /\ UNCHANGED <<job, currentFile, evidence, accepted>>
    OBVIOUS
  <2>2. /\ blocked' \in BOOLEAN /\ snapshots' \subseteq Run
        /\ pending' \in [run : Run, peer : Peer, expired : BOOLEAN] \union {None}
    BY <2>1, DiscardType DEF WorkerTypeOK
  <2>3. after.pending # None => after.pending.run \in Run
    BY <2>1, DiscardType DEF WorkerTypeOK
  <2>4. \A r \in Run : NewJob(r) \in Job
    BY DEF NewJob, Job, Termination
  <2>5. /\ job' \in Job \union {None} /\ currentFile' \in Run \union {"none"}
        /\ accepted' \in Run \union {"none"} /\ orphans' \subseteq Run /\ evidence' = evidence
    BY <2>1, <2>3, <2>4 DEF WorkerTypeOK
  <2>6. client' \in [Peer -> [phase : {"idle", "healthy", "prepared", "accepted", "over"},
                           run   : Run \union {"none"},
                           state : State \union {"none", "error", "stale_source"}]]
    <3>1. PICK phase \in {"over", "accepted"}, r \in Run \union {"none"}, state \in {"none", "error"} :
             client' = [client EXCEPT ![c] = [phase |-> phase, run |-> r, state |-> state]]
      BY DiscardType DEF WorkerTypeOK
    <3> QED BY <3>1 DEF WorkerTypeOK, State
  <2>7. UNCHANGED <<service, recent, recentFile>>
    OBVIOUS
  <2> QED BY <2>2, <2>5, <2>6, <2>7 DEF WorkerTypeOK
<1>2. Alone'
  BY DEF Alone, WorkerTypeOK, Job, NewJob
<1>3. Traced'
  BY DEF Traced, Alone, WorkerTypeOK, Job, NewJob, Concluding, JobResult, Result, Uncontained
<1>4. Earned(recent)' /\ Earned(recentFile)'
  BY DEF Earned, Contained, Traced, Alone, WorkerTypeOK, Job, Results, Concluding, JobResult,
     Result, Passed, Uncontained
<1>5. Distinct'
  BY DEF Distinct, Contained, Traced, Alone, WorkerTypeOK, Concluding
<1>6. Files'
  BY DEF Files, Traced, Alone, WorkerTypeOK, Job, NewJob, Concluding, JobResult, Result
<1>7. SnapshotIsOwned'
  BY DEF SnapshotIsOwned, Traced, Alone, WorkerTypeOK, Job, NewJob, Concluding, Uncontained
<1> QED BY <1>1, <1>2, <1>3, <1>4, <1>5, <1>6, <1>7

LEMMA PollInv ==
    ASSUME WInv, NEW c \in Peer, Poll(c)
    PROVE  WInv'
<1> USE RunAssumption DEF WInv, Poll, AfterDiscard, Answer, Reported
<1>1. WorkerTypeOK'
  <2> HIDE DEF AfterDiscard, Answer
  <2>1. PICK after \in AfterDiscard :
           pending' = after.pending /\ blocked' = after.blocked /\ snapshots' = after.snapshots
    OBVIOUS
  <2>2. /\ blocked' \in BOOLEAN /\ snapshots' \subseteq Run
        /\ pending' \in [run : Run, peer : Peer, expired : BOOLEAN] \union {None}
    BY <2>1, DiscardType DEF WorkerTypeOK
  <2>3. Answer(client[c].run) \in State \union {"running", "unknown_run"}
    BY DEF Answer, WorkerTypeOK, Results, State, Distinct
  <2>4. PICK state \in State \union {"error", "stale_source"} :
           client' = [client EXCEPT ![c] = [phase |-> "over", run |-> client[c].run, state |-> state]]
    BY <2>3 DEF State
  <2>5. client' \in [Peer -> [phase : {"idle", "healthy", "prepared", "accepted", "over"},
                           run   : Run \union {"none"},
                           state : State \union {"none", "error", "stale_source"}]]
    BY <2>4 DEF WorkerTypeOK
  <2>6. UNCHANGED <<service, job, recent, disk, history>>
    OBVIOUS
  <2> QED BY <2>2, <2>5, <2>6 DEF WorkerTypeOK
<1>2. Alone'
  BY DEF Alone, WorkerTypeOK, Job, NewJob
<1>3. Traced'
  BY DEF Traced, Alone, WorkerTypeOK, Job, NewJob, Concluding, JobResult, Result, Uncontained
<1>4. Earned(recent)' /\ Earned(recentFile)'
  BY DEF Earned, Contained, Traced, Alone, WorkerTypeOK, Job, Results, Concluding, JobResult,
     Result, Passed, Uncontained
<1>5. Distinct'
  <2>1. evidence' = evidence /\ snapshots' \subseteq snapshots
    BY DEF WorkerTypeOK
  <2>2. client[c].run # "none" /\ client[c].phase = "accepted"
    BY DEF Distinct
  <2>3. PICK state : client' = [client EXCEPT ![c] = [phase |-> "over", run |-> client[c].run, state |-> state]]
           /\ (state = "passed" => Answer(client[c].run) = "passed")
    <3> HIDE DEF Answer
    <3> QED OBVIOUS
  <2>4. state = "passed" => Contained(client[c].run)
    BY <2>2, <2>3 DEF Earned, WorkerTypeOK, Results
  <2> HIDE DEF Answer, Poll
  <2> QED BY <2>1, <2>2, <2>3, <2>4 DEF Distinct, Contained, WorkerTypeOK
<1>6. Files'
  BY DEF Files, Traced, Alone, WorkerTypeOK, Job, NewJob, Concluding, JobResult, Result
<1>7. SnapshotIsOwned'
  BY DEF SnapshotIsOwned, Traced, Alone, WorkerTypeOK, Job, NewJob, Concluding, Uncontained
<1> QED BY <1>1, <1>2, <1>3, <1>4, <1>5, <1>6, <1>7

LEMMA CancelInv ==
    ASSUME WInv, NEW c \in Peer, Cancel(c)
    PROVE  WInv'
<1> USE RunAssumption DEF WInv, Cancel
<1>1. WorkerTypeOK'
  <2>1. job' \in Job \union {None}
    BY DEF WorkerTypeOK, Job
  <2>2. client' \in [Peer -> [phase : {"idle", "healthy", "prepared", "accepted", "over"},
                           run   : Run \union {"none"},
                           state : State \union {"none", "error", "stale_source"}]]
    BY DEF WorkerTypeOK, State
  <2>3. UNCHANGED <<service, pending, blocked, recent, disk, snapshots, history>>
    OBVIOUS
  <2> QED BY <2>1, <2>2, <2>3 DEF WorkerTypeOK
<1>2. Alone'
  BY DEF Alone, WorkerTypeOK, Job, NewJob
<1>3. Traced'
  BY DEF Traced, Alone, WorkerTypeOK, Job, NewJob, Concluding, JobResult, Result, Uncontained
<1>4. Earned(recent)' /\ Earned(recentFile)'
  BY DEF Earned, Contained, Traced, Alone, WorkerTypeOK, Job, Results, Concluding, JobResult,
     Result, Passed, Uncontained
<1>5. Distinct'
  BY DEF Distinct, Contained, Traced, Alone, WorkerTypeOK, Concluding
<1>6. Files'
  BY DEF Files, Traced, Alone, WorkerTypeOK, Job, NewJob, Concluding, JobResult, Result
<1>7. SnapshotIsOwned'
  BY DEF SnapshotIsOwned, Traced, Alone, WorkerTypeOK, Job, NewJob, Concluding, Uncontained
<1> QED BY <1>1, <1>2, <1>3, <1>4, <1>5, <1>6, <1>7

LEMMA AbandonInv ==
    ASSUME WInv, NEW c \in Peer, Abandon(c)
    PROVE  WInv'
<1> USE RunAssumption DEF WInv, Abandon
<1>1. WorkerTypeOK'
  <2>1. client' \in [Peer -> [phase : {"idle", "healthy", "prepared", "accepted", "over"},
                           run   : Run \union {"none"},
                           state : State \union {"none", "error", "stale_source"}]]
    BY DEF WorkerTypeOK, State
  <2> QED BY <2>1 DEF WorkerTypeOK
<1>2. Alone'
  BY DEF Alone, WorkerTypeOK, Job, NewJob
<1>3. Traced'
  BY DEF Traced, Alone, WorkerTypeOK, Job, NewJob, Concluding, JobResult, Result, Uncontained
<1>4. Earned(recent)' /\ Earned(recentFile)'
  BY DEF Earned, Contained, Traced, Alone, WorkerTypeOK, Job, Results, Concluding, JobResult,
     Result, Passed, Uncontained
<1>5. Distinct'
  BY DEF Distinct, Contained, Traced, Alone, WorkerTypeOK, Concluding
<1>6. Files'
  BY DEF Files, Traced, Alone, WorkerTypeOK, Job, NewJob, Concluding, JobResult, Result
<1>7. SnapshotIsOwned'
  BY DEF SnapshotIsOwned, Traced, Alone, WorkerTypeOK, Job, NewJob, Concluding, Uncontained
<1> QED BY <1>1, <1>2, <1>3, <1>4, <1>5, <1>6, <1>7

LEMMA ProbeEndsInv ==
    ASSUME WInv, ProbeEnds
    PROVE  WInv'
<1> USE RunAssumption DEF WInv, ProbeEnds
<1>1. WorkerTypeOK'
  <2>1. job' \in Job \union {None}
    BY DEF WorkerTypeOK, Job
  <2>2. UNCHANGED <<service, pending, blocked, recent, disk, snapshots, client, history>>
    OBVIOUS
  <2> QED BY <2>1, <2>2 DEF WorkerTypeOK
<1>2. Alone'
  BY DEF Alone, WorkerTypeOK, Job, NewJob
<1>3. Traced'
  BY DEF Traced, Alone, WorkerTypeOK, Job, NewJob, Concluding, JobResult, Result, Uncontained
<1>4. Earned(recent)' /\ Earned(recentFile)'
  BY DEF Earned, Contained, Traced, Alone, WorkerTypeOK, Job, Results, Concluding, JobResult,
     Result, Passed, Uncontained
<1>5. Distinct'
  BY DEF Distinct, Contained, Traced, Alone, WorkerTypeOK, Concluding
<1>6. Files'
  BY DEF Files, Traced, Alone, WorkerTypeOK, Job, NewJob, Concluding, JobResult, Result
<1>7. SnapshotIsOwned'
  BY DEF SnapshotIsOwned, Traced, Alone, WorkerTypeOK, Job, NewJob, Concluding, Uncontained
<1> QED BY <1>1, <1>2, <1>3, <1>4, <1>5, <1>6, <1>7

LEMMA CleanUpInv ==
    ASSUME WInv, CleanUp
    PROVE  WInv'
<1> USE RunAssumption DEF WInv, CleanUp
<1>1. WorkerTypeOK'
  <2>1. job' \in Job \union {None} /\ snapshots' \subseteq Run
    BY DEF WorkerTypeOK, Job
  <2>2. evidence' \in [Run -> {"none", "staged", "unstaged", "escaped", "refuted", "contained"}]
    BY DEF WorkerTypeOK
  <2>3. UNCHANGED <<service, pending, blocked, recent, disk, client, orphans, accepted>>
    OBVIOUS
  <2> QED BY <2>1, <2>2, <2>3 DEF WorkerTypeOK
<1>2. Alone'
  BY DEF Alone, WorkerTypeOK, Job, NewJob
<1>3. Traced'
  <2>1. job # None /\ job.run \in Run /\ pending = None
    BY DEF Alone, WorkerTypeOK, Job
  <2>2. PICK empty \in BOOLEAN, destroyed \in BOOLEAN :
          /\ job' = [job EXCEPT !.stage = "conclude", !.empty = empty, !.destroyed = destroyed]
          /\ snapshots' = IF destroyed THEN snapshots \ {job.run} ELSE snapshots
          /\ evidence' = [evidence EXCEPT ![job.run] =
                IF ~destroyed THEN "escaped" ELSE IF job.checks THEN "contained" ELSE "refuted"]
    OBVIOUS
  <2>3. job'.run = job.run /\ job'.stage = "conclude" /\ job'.destroyed = destroyed
        /\ job'.checks = job.checks /\ job' # None
    BY <2>1, <2>2 DEF WorkerTypeOK, Job
  <2>4. evidence'[job.run] = IF ~destroyed THEN "escaped" ELSE IF job.checks THEN "contained" ELSE "refuted"
    BY <2>1, <2>2 DEF WorkerTypeOK
  <2> QED BY <2>1, <2>2, <2>3, <2>4 DEF Traced, Concluding
<1>4. Earned(recent)' /\ Earned(recentFile)'
  <2>1. job.run \in Run /\ evidence[job.run] = "staged" /\ snapshots' \subseteq snapshots
        /\ UNCHANGED <<recent, recentFile>>
    BY DEF Traced, Concluding, WorkerTypeOK, Job
  <2>2. \A r \in Run : evidence[r] = "contained" => evidence'[r] = "contained"
    BY <2>1 DEF WorkerTypeOK
  <2>3. \A r \in Run : Contained(r) => Contained(r)'
    BY <2>1, <2>2 DEF Contained
  <2> QED BY <2>1, <2>3 DEF Earned, WorkerTypeOK, Results
<1>5. Distinct'
  BY DEF Distinct, Contained, Traced, Alone, WorkerTypeOK, Concluding
<1>6. Files'
  BY DEF Files, Traced, Alone, WorkerTypeOK, Job, NewJob, Concluding, JobResult, Result
<1>7. SnapshotIsOwned'
  BY DEF SnapshotIsOwned, Traced, Alone, WorkerTypeOK, Job, NewJob, Concluding, Uncontained
<1> QED BY <1>1, <1>2, <1>3, <1>4, <1>5, <1>6, <1>7

LEMMA RecordInv ==
    ASSUME WInv, Record
    PROVE  WInv'
<1> USE RunAssumption DEF WInv, Record
<1>1. WorkerTypeOK'
  <2>1. job \in Job /\ JobResult(job) \in Results
    BY DEF WorkerTypeOK, Job, JobResult, Result, Results, State, Termination
  <2>2. Uncontained(job) \in BOOLEAN
    BY DEF Uncontained
  <2>3. blocked' \in BOOLEAN
    BY <2>2
  <2>4. job' \in Job \union {None}
    BY <2>1 DEF Job
  <2>5. recent' \in Results /\ recentFile' \in Results
    BY <2>1 DEF WorkerTypeOK
  <2>6. UNCHANGED <<service, pending, currentFile, snapshots, client, history>>
    OBVIOUS
  <2> QED BY <2>3, <2>4, <2>5, <2>6 DEF WorkerTypeOK
<1>2. Alone'
  BY DEF Alone, WorkerTypeOK, Job, NewJob
<1>3. Traced'
  <2>1. job \in Job /\ job # None /\ job.stage = "conclude"
        /\ UNCHANGED <<pending, evidence, snapshots>> /\ pending = None
    BY DEF WorkerTypeOK, Alone
  <2>2. CASE job' = None
    BY <2>1, <2>2 DEF Traced
  <2>3. CASE job' # None
    <3>1. job' = [job EXCEPT !.stage = "recorded"] /\ blocked' = Uncontained(job)
          /\ recentFile' = JobResult(job)
      BY <2>3
    <3>2. /\ job'.run = job.run /\ job'.stage = "recorded" /\ job'.checks = job.checks
          /\ job'.empty = job.empty /\ job'.destroyed = job.destroyed
          /\ job'.termination = job.termination
      BY <2>1, <3>1 DEF Job
    <3>3. JobResult(job)' = JobResult(job) /\ Uncontained(job)' = Uncontained(job)
      BY <3>2 DEF JobResult, Result, Passed, Uncontained
    <3>4. blocked' = Uncontained(job)' /\ recentFile' = JobResult(job)'
      BY <3>1, <3>3
    <3> QED BY <2>1, <3>2, <3>4 DEF Traced, Concluding
  <2> QED BY <2>2, <2>3
<1>4. Earned(recent)' /\ Earned(recentFile)'
  <2>1. job \in Job /\ job # None /\ job.stage = "conclude" /\ UNCHANGED <<evidence, snapshots>>
    BY DEF WorkerTypeOK
  <2>2. Earned(JobResult(job))
    BY <2>1 DEF Traced, Concluding, Earned, Contained, JobResult, Result, Passed, Job, Termination
  <2>3. recent' \in {recent, JobResult(job)} /\ recentFile' \in {recentFile, JobResult(job)}
    OBVIOUS
  <2> QED BY <2>1, <2>2, <2>3 DEF Earned, Contained
<1>5. Distinct'
  BY DEF Distinct, Contained, Traced, Alone, WorkerTypeOK, Concluding
<1>6. Files'
  BY DEF Files, Traced, Alone, WorkerTypeOK, Job, NewJob, Concluding, JobResult, Result
<1>7. SnapshotIsOwned'
  <2>1. snapshots' = snapshots /\ orphans' = orphans /\ pending' = pending /\ job # None
    OBVIOUS
  <2>2. CASE blocked'
    BY <2>2 DEF SnapshotIsOwned
  <2>3. CASE ~blocked'
    <3>1. job' = [job EXCEPT !.stage = "recorded"] /\ job'.run = job.run
      BY <2>3 DEF WorkerTypeOK, Job
    <3>2. ~blocked
      BY DEF Alone
    <3> QED BY <2>1, <3>1, <3>2 DEF SnapshotIsOwned
  <2> QED BY <2>2, <2>3
<1> QED BY <1>1, <1>2, <1>3, <1>4, <1>5, <1>6, <1>7

LEMMA ConcludeInv ==
    ASSUME WInv, Conclude
    PROVE  WInv'
<1> USE RunAssumption DEF WInv, Conclude
<1>1. WorkerTypeOK'
  <2>1. job \in Job /\ JobResult(job) \in Results
    BY DEF WorkerTypeOK, Job, JobResult, Result, Results, State, Termination
  <2>2. blocked' \in BOOLEAN
    BY DEF WorkerTypeOK
  <2>3. job' \in Job \union {None} /\ recent' \in Results /\ currentFile' \in Run \union {"none"}
    BY <2>1 DEF WorkerTypeOK
  <2>4. UNCHANGED <<service, pending, recentFile, snapshots, client, history>>
    OBVIOUS
  <2> QED BY <2>2, <2>3, <2>4 DEF WorkerTypeOK
<1>2. Alone'
  BY DEF Alone, WorkerTypeOK, Job, NewJob
<1>3. Traced'
  BY DEF Traced, Alone, WorkerTypeOK, Job, NewJob, Concluding, JobResult, Result, Uncontained
<1>4. Earned(recent)' /\ Earned(recentFile)'
  BY DEF Earned, Contained, Traced, Alone, WorkerTypeOK, Job, Results, Concluding, JobResult,
     Result, Passed, Uncontained
<1>5. Distinct'
  BY DEF Distinct, Contained, Traced, Alone, WorkerTypeOK, Concluding
<1>6. Files'
  BY DEF Files, Traced, Alone, WorkerTypeOK, Job, NewJob, Concluding, JobResult, Result
<1>7. SnapshotIsOwned'
  <2>1. job # None /\ job.stage = "recorded" /\ blocked = Uncontained(job)
        /\ UNCHANGED <<snapshots, orphans, pending>> /\ job' = None
    BY DEF Traced, Concluding
  <2>2. CASE blocked \/ blocked'
    BY <2>2 DEF SnapshotIsOwned, WorkerTypeOK
  <2>3. CASE ~blocked /\ ~blocked'
    <3>1. job.run \notin snapshots
      BY <2>1, <2>3 DEF Uncontained, Traced, Concluding
    <3> QED BY <2>1, <2>3, <3>1 DEF SnapshotIsOwned, WorkerTypeOK
  <2> QED BY <2>2, <2>3
<1> QED BY <1>1, <1>2, <1>3, <1>4, <1>5, <1>6, <1>7

LEMMA WorkerNextInv == WInv /\ [WorkerNext]_workerVars => WInv'
<1> SUFFICES ASSUME WInv, [WorkerNext]_workerVars PROVE WInv'
  OBVIOUS
<1>1. CASE UNCHANGED workerVars
  BY <1>1 DEF workerVars, WInv, WorkerTypeOK, Alone, Traced, Earned, Contained, Distinct, Files,
     SnapshotIsOwned, JobResult, Passed, Uncontained
<1>2. CASE Crash
  BY <1>2, KillInv DEF Crash
<1>3. CASE Restart
  BY <1>3, LaunchInv DEF Restart
<1>4. CASE JobStep
  BY <1>4, ProbeEndsInv, CleanUpInv, RecordInv, ConcludeInv DEF JobStep
<1>5. ASSUME NEW c \in Peer, ClientStep(c) PROVE WInv'
  BY <1>5, HealthInv, PrepareInv, VerifyInv, PollInv, CancelInv, AbandonInv DEF ClientStep
<1> QED BY <1>1, <1>2, <1>3, <1>4, <1>5, CapabilityExpiresInv DEF WorkerNext

-----------------------------------------------------------------------------
(* The installation tools.                                                 *)

\* Steps at which the service is stopped.
Stopped == {"move", "promote", "unit", "start", "quarantine", "replace", "restore_unit",
            "restore_start"}
Provisioning == {"base", "control", "enable"}

\* What the tools know at each of their steps.
Steps ==
    /\ service \in {"active", "failed"} => running = target /\ unit # "none" /\ ~(tool.at \in Stopped)
    /\ tool.at \in {"start", "confirm"} => unit = "candidate"
    /\ tool.at = "enable" => unit = "foundation"
    /\ tool.at \in {"restore_unit", "restore_start"} => target = "predecessor"
    /\ tool.at = "restore_start" => unit = "predecessor"
    /\ tool.at = "stop" => tool.found = target
    /\ tool.at \notin {"off"} \union Provisioning => tool.outcome = "none"
    /\ tool.at = "promote" => backup \/ target # "predecessor"
    /\ tool.at \in {"quarantine", "replace"} => backup

HInv == TypeOK /\ Steps /\ ServiceRunsInstalled

USE DEF At, Goto, Ends, Idle, Stopped, Provisioning, VerifiedAs
-----------------------------------------------------------------------------
(* What the tools do to the worker: they leave it alone, stop it, or start *)
(* it when it is not there.                                                *)

StartsOrStops ==
    \/ UNCHANGED workerVars
    \/ \E next \in {"failed", "inactive", "foundation"} : Kill(next)
    \/ service # "active" /\ Launch

LEMMA StartServiceIs == StartService => StartsOrStops
BY DEF StartService, StartsOrStops, TrustFails

LEMMA ToolStepIs == ToolStep => StartsOrStops
<1> SUFFICES ASSUME ToolStep PROVE StartsOrStops
  OBVIOUS
<1>1. CASE StartService \/ StopService \/ UNCHANGED workerVars
  BY <1>1, StartServiceIs DEF StopService, StartsOrStops
<1> HIDE DEF At, Goto, Ends, Idle, VerifiedAs
<1>2. StartService \/ StopService \/ UNCHANGED workerVars
  BY DEF ToolStep, ProvisionAccounts, ProvisionBase, ProvisionUnit, ProvisionEnable, InstallBegins,
     Stop, Move, Promote, WriteUnit, Start, Confirm, Restore, RestoreStops, Quarantine, Replace,
     RestoreUnit, Serve, ToolDies
<1> QED BY <1>1, <1>2

LEMMA NextWInv == WInv /\ [Next]_vars => WInv'
<1> SUFFICES ASSUME WInv, [Next]_vars PROVE WInv'
  OBVIOUS
<1>1. CASE ToolStep
  BY <1>1, ToolStepIs, KillInv, LaunchInv, WorkerNextInv DEF StartsOrStops
<1> QED BY <1>1, WorkerNextInv DEF Next, vars

LEMMA WorkerInvariant == Spec => []WInv
<1>1. Init => WInv
  BY WorkerInitInv DEF Init
<1> QED BY <1>1, NextWInv, PTL DEF Spec

\* No copy of the source outlives its use unnoticed, with any number of
\* clients and runs, wherever the worker, a client or a tool dies.
THEOREM SnapshotsAreOwned == Spec => []SnapshotIsOwned
<1>1. WInv => SnapshotIsOwned
  BY DEF WInv
<1> QED BY <1>1, WorkerInvariant, PTL

\* A verification that a client sees as passed was contained, its snapshot
\* is gone, and it is the client's own.
THEOREM PassIsEarned == Spec => []PassedIsEarned
<1>1. WInv => PassedIsEarned
  BY DEF WInv, Distinct, Contained, PassedIsEarned
<1> QED BY <1>1, WorkerInvariant, PTL

\* A serving worker never answers "unknown_run" for the run it accepted last.
THEOREM LastRunIsAnswerable == Spec => []AcceptedIsAnswerable
<1>1. WInv => AcceptedIsAnswerable
  <2>1. WInv => recent \in Results /\ accepted \in Run \union {"none"}
    BY DEF WInv, WorkerTypeOK
  <2> QED
    BY <2>1, RunAssumption DEF WInv, Files, AcceptedIsAnswerable, Answer, Results, State,
       Termination
<1> QED BY <1>1, WorkerInvariant, PTL

\* A blocked worker starts nothing until it is restarted.
THEOREM BlockedStaysClosed == Spec => BlockedFailsClosed
<1> DEFINE Closed == service = "active" /\ blocked /\ LockIsFree /\ service' = "active" =>
                        blocked' /\ pending' = None /\ job' = None
<1>1. ASSUME WInv, StartsOrStops PROVE Closed
  <2> SUFFICES ASSUME service = "active", blocked, LockIsFree, service' = "active"
               PROVE  blocked' /\ pending' = None /\ job' = None
    OBVIOUS
  <2>1. UNCHANGED workerVars
    BY <1>1 DEF StartsOrStops, Kill
  <2> QED BY <1>1, <2>1 DEF workerVars, WInv, Alone
<1>2. ASSUME WInv, WorkerNext PROVE Closed
  <2> SUFFICES ASSUME service = "active", blocked, LockIsFree, service' = "active"
               PROVE  blocked' /\ pending' = None /\ job' = None
    OBVIOUS
  <2>1. pending = None /\ job = None
    BY <1>2 DEF WInv, Alone
  <2>2. PICK c \in Peer : ClientStep(c)
    BY <1>2, <2>1 DEF WorkerNext, Crash, Kill, Restart, CapabilityExpires, JobStep, ProbeEnds,
       CleanUp,
       Record, Conclude
  <2>3. blocked = TRUE
    BY <1>2 DEF WInv, WorkerTypeOK
  <2>4. \A after \in AfterDiscard : after.pending = None /\ after.blocked = TRUE
    BY <2>1, <2>3 DEF AfterDiscard
  <2>5. UNCHANGED job /\ pending' = None
    BY <2>1, <2>2, <2>4 DEF ClientStep, Health, Prepare, MayPrepare, Verify, Authorized, Poll,
       Cancel, Abandon
  <2>6. blocked' = TRUE
    BY <2>2, <2>3, <2>4 DEF ClientStep, Health, Prepare, MayPrepare, Verify, Authorized, Poll,
       Cancel, Abandon
  <2> QED BY <2>1, <2>5, <2>6
<1>3. WInv /\ [Next]_vars => [Closed]_workerVars
  BY <1>1, <1>2, ToolStepIs DEF Next, vars, workerVars
<1> QED BY <1>3, WorkerInvariant, PTL DEF Spec, BlockedFailsClosed

\* The steps and the outcomes of a tool.
Places == {"off", "base", "control", "enable", "stop", "move", "promote", "unit", "start",
           "confirm", "restore", "quarantine", "replace", "restore_unit", "restore_start",
           "recover"}
Outcomes == {"none", "refused", "provisioned", "upgraded", "failed", "rollback_failed", "died"}

LEMMA ToolGoes == ASSUME tool \in Tool, NEW s \in Places PROVE [tool EXCEPT !.at = s] \in Tool
BY DEF Tool, Places

LEMMA ToolEnds == ASSUME tool \in Tool, NEW o \in Outcomes PROVE Idle(o, tool.found) \in Tool
BY DEF Tool, Outcomes

-----------------------------------------------------------------------------
(* What the tools do to the service.                                       *)

\* systemctl stop, and systemctl start, as the tools see them.
ServiceStops == service' = "inactive" /\ running' = "none"
ServiceStarts ==
    \/ service = "active" /\ unit # "foundation" /\ service' = "active" /\ running' = running
    \/ unit = "foundation" /\ service' = "foundation" /\ running' = "foundation"
    \/ service # "active" /\ unit # "foundation" /\ service' \in {"active", "failed"} /\ running' = target
ServiceStays == service' = service /\ running' = running

LEMMA StopIs == StopService => ServiceStops
BY DEF StopService, Kill, ServiceStops

LEMMA StartIs == StartService => ServiceStarts
BY DEF StartService, Kill, TrustFails, Launch, workerVars, ServiceStarts

LEMMA RunningType == TypeOK /\ (ServiceStops \/ ServiceStarts \/ ServiceStays) =>
    running' \in {"none", "foundation", "predecessor", "candidate", "absent"}
BY DEF TypeOK, ServiceStops, ServiceStarts, ServiceStays

LEMMA ProvisionAccountsHost == HInv /\ WorkerTypeOK' /\ ProvisionAccounts => HInv'
<1> SUFFICES ASSUME HInv, WorkerTypeOK', ProvisionAccounts PROVE HInv'
  OBVIOUS
<1>1. TypeOK'
  <2>1. tool' \in Tool
    BY ToolGoes, ToolEnds DEF HInv, TypeOK, Places, Outcomes, ProvisionAccounts, Begins
  <2>2. base' \in BOOLEAN /\ backup' \in BOOLEAN
    BY Zenon DEF HInv, TypeOK, ProvisionAccounts, Begins
  <2>3. accounts' \in {"none", "partial", "full"} /\ target' \in {"absent", "predecessor", "candidate"}
    BY DEF HInv, TypeOK, ProvisionAccounts, Begins
  <2>4. unit' \in {"none", "torn", "foundation", "predecessor", "candidate"}
    BY DEF HInv, TypeOK, ProvisionAccounts, Begins
  <2>5. running' \in {"none", "foundation", "predecessor", "candidate", "absent"}
    BY RunningType DEF HInv, ProvisionAccounts, Begins, ServiceStays, workerVars
  <2>6. invocations' \in 0 .. MaxInvocations
    BY InvocationsAssumption DEF HInv, TypeOK, ProvisionAccounts, Begins
  <2> QED BY <2>1, <2>2, <2>3, <2>4, <2>5, <2>6 DEF TypeOK
<1>2. Steps'
  BY DEF HInv, TypeOK, Tool, Steps, ProvisionAccounts, Begins, workerVars
<1>3. ServiceRunsInstalled'
  BY DEF HInv, TypeOK, Tool, Steps, ServiceRunsInstalled, ProvisionAccounts, Begins, workerVars
<1> QED BY <1>1, <1>2, <1>3 DEF HInv

LEMMA ProvisionBaseHost == HInv /\ WorkerTypeOK' /\ ProvisionBase => HInv'
<1> SUFFICES ASSUME HInv, WorkerTypeOK', ProvisionBase PROVE HInv'
  OBVIOUS
<1>1. TypeOK'
  <2>1. tool' \in Tool
    BY ToolGoes, ToolEnds DEF HInv, TypeOK, Places, Outcomes, ProvisionBase
  <2>2. base' \in BOOLEAN /\ backup' \in BOOLEAN
    BY Zenon DEF HInv, TypeOK, ProvisionBase
  <2>3. accounts' \in {"none", "partial", "full"} /\ target' \in {"absent", "predecessor", "candidate"}
    BY DEF HInv, TypeOK, ProvisionBase
  <2>4. unit' \in {"none", "torn", "foundation", "predecessor", "candidate"}
    BY DEF HInv, TypeOK, ProvisionBase
  <2>5. running' \in {"none", "foundation", "predecessor", "candidate", "absent"}
    BY RunningType DEF HInv, ProvisionBase, ServiceStays, workerVars
  <2>6. invocations' \in 0 .. MaxInvocations
    BY InvocationsAssumption DEF HInv, TypeOK, ProvisionBase
  <2> QED BY <2>1, <2>2, <2>3, <2>4, <2>5, <2>6 DEF TypeOK
<1>2. Steps'
  BY DEF HInv, TypeOK, Tool, Steps, ProvisionBase, workerVars
<1>3. ServiceRunsInstalled'
  BY DEF HInv, TypeOK, Tool, Steps, ServiceRunsInstalled, ProvisionBase, workerVars
<1> QED BY <1>1, <1>2, <1>3 DEF HInv

LEMMA ProvisionUnitHost == HInv /\ WorkerTypeOK' /\ ProvisionUnit => HInv'
<1> SUFFICES ASSUME HInv, WorkerTypeOK', ProvisionUnit PROVE HInv'
  OBVIOUS
<1>1. TypeOK'
  <2>1. tool' \in Tool
    BY ToolGoes, ToolEnds DEF HInv, TypeOK, Places, Outcomes, ProvisionUnit
  <2>2. base' \in BOOLEAN /\ backup' \in BOOLEAN
    BY Zenon DEF HInv, TypeOK, ProvisionUnit
  <2>3. accounts' \in {"none", "partial", "full"} /\ target' \in {"absent", "predecessor", "candidate"}
    BY DEF HInv, TypeOK, ProvisionUnit
  <2>4. unit' \in {"none", "torn", "foundation", "predecessor", "candidate"}
    BY DEF HInv, TypeOK, ProvisionUnit
  <2>5. running' \in {"none", "foundation", "predecessor", "candidate", "absent"}
    BY RunningType DEF HInv, ProvisionUnit, ServiceStays, workerVars
  <2>6. invocations' \in 0 .. MaxInvocations
    BY InvocationsAssumption DEF HInv, TypeOK, ProvisionUnit
  <2> QED BY <2>1, <2>2, <2>3, <2>4, <2>5, <2>6 DEF TypeOK
<1>2. Steps'
  BY DEF HInv, TypeOK, Tool, Steps, ProvisionUnit, workerVars
<1>3. ServiceRunsInstalled'
  BY DEF HInv, TypeOK, Tool, Steps, ServiceRunsInstalled, ProvisionUnit, workerVars
<1> QED BY <1>1, <1>2, <1>3 DEF HInv

LEMMA ProvisionEnableHost == HInv /\ WorkerTypeOK' /\ ProvisionEnable => HInv'
<1> SUFFICES ASSUME HInv, WorkerTypeOK', ProvisionEnable PROVE HInv'
  OBVIOUS
<1>1. TypeOK'
  <2>1. tool' \in Tool
    BY ToolGoes, ToolEnds DEF HInv, TypeOK, Places, Outcomes, ProvisionEnable
  <2>2. base' \in BOOLEAN /\ backup' \in BOOLEAN
    BY Zenon DEF HInv, TypeOK, ProvisionEnable
  <2>3. accounts' \in {"none", "partial", "full"} /\ target' \in {"absent", "predecessor", "candidate"}
    BY DEF HInv, TypeOK, ProvisionEnable
  <2>4. unit' \in {"none", "torn", "foundation", "predecessor", "candidate"}
    BY DEF HInv, TypeOK, ProvisionEnable
  <2>5. running' \in {"none", "foundation", "predecessor", "candidate", "absent"}
    BY StartIs, RunningType DEF HInv, ProvisionEnable, ServiceStays, workerVars
  <2>6. invocations' \in 0 .. MaxInvocations
    BY InvocationsAssumption DEF HInv, TypeOK, ProvisionEnable
  <2> QED BY <2>1, <2>2, <2>3, <2>4, <2>5, <2>6 DEF TypeOK
<1>2. Steps'
  BY StartIs DEF HInv, TypeOK, Tool, Steps, ProvisionEnable, ServiceStarts, workerVars
<1>3. ServiceRunsInstalled'
  BY StartIs DEF HInv, TypeOK, Tool, Steps, ServiceRunsInstalled, ProvisionEnable, ServiceStarts,
     workerVars
<1> QED BY <1>1, <1>2, <1>3 DEF HInv

LEMMA InstallBeginsHost == HInv /\ WorkerTypeOK' /\ InstallBegins => HInv'
<1> SUFFICES ASSUME HInv, WorkerTypeOK', InstallBegins PROVE HInv'
  OBVIOUS
<1>1. TypeOK'
  <2>1. tool' \in Tool
    <3>1. tool \in Tool /\ target \in {"absent", "predecessor", "candidate"}
      BY DEF HInv, TypeOK
    <3>2. \A o \in Outcomes, found \in {"absent", "predecessor", "candidate"} : Idle(o, found) \in Tool
      BY DEF Tool, Outcomes
    <3>3. [at |-> "stop", found |-> target, moved |-> FALSE, outcome |-> "none"] \in Tool
      BY <3>1 DEF Tool
    <3> QED BY <3>1, <3>2, <3>3 DEF InstallBegins, Outcomes
  <2>2. base' \in BOOLEAN /\ backup' \in BOOLEAN
    BY Zenon DEF HInv, TypeOK, InstallBegins, Begins, UnitIsTrusted, UnitOf,
       FoundationIsVerified, host
  <2>3. accounts' \in {"none", "partial", "full"} /\ target' \in {"absent", "predecessor", "candidate"}
    BY DEF HInv, TypeOK, InstallBegins, Begins, UnitIsTrusted, UnitOf, FoundationIsVerified, host
  <2>4. unit' \in {"none", "torn", "foundation", "predecessor", "candidate"}
    BY DEF HInv, TypeOK, InstallBegins, Begins, UnitIsTrusted, UnitOf, FoundationIsVerified, host
  <2>5. running' \in {"none", "foundation", "predecessor", "candidate", "absent"}
    BY RunningType DEF HInv, InstallBegins, Begins, UnitIsTrusted, UnitOf, FoundationIsVerified,
       host, ServiceStays, workerVars
  <2>6. invocations' \in 0 .. MaxInvocations
    BY InvocationsAssumption DEF HInv, TypeOK, InstallBegins, Begins, UnitIsTrusted, UnitOf,
       FoundationIsVerified, host
  <2> QED BY <2>1, <2>2, <2>3, <2>4, <2>5, <2>6 DEF TypeOK
<1>2. Steps'
  BY DEF HInv, TypeOK, Tool, Steps, InstallBegins, Begins, UnitIsTrusted, UnitOf,
     FoundationIsVerified, host, workerVars
<1>3. ServiceRunsInstalled'
  BY DEF HInv, TypeOK, Tool, Steps, ServiceRunsInstalled, InstallBegins, Begins, UnitIsTrusted,
     UnitOf, FoundationIsVerified, host, workerVars
<1> QED BY <1>1, <1>2, <1>3 DEF HInv

LEMMA StopHost == HInv /\ WorkerTypeOK' /\ Stop => HInv'
<1> SUFFICES ASSUME HInv, WorkerTypeOK', Stop PROVE HInv'
  OBVIOUS
<1>1. TypeOK'
  <2>1. tool' \in Tool
    BY ToolGoes, ToolEnds DEF HInv, TypeOK, Places, Outcomes, Stop, Fails, Recovery
  <2>2. base' \in BOOLEAN /\ backup' \in BOOLEAN
    BY Zenon DEF HInv, TypeOK, Stop, Fails, Recovery
  <2>3. accounts' \in {"none", "partial", "full"} /\ target' \in {"absent", "predecessor", "candidate"}
    BY DEF HInv, TypeOK, Stop, Fails, Recovery
  <2>4. unit' \in {"none", "torn", "foundation", "predecessor", "candidate"}
    BY DEF HInv, TypeOK, Stop, Fails, Recovery
  <2>5. running' \in {"none", "foundation", "predecessor", "candidate", "absent"}
    BY StopIs, RunningType DEF HInv, Stop, Fails, Recovery, ServiceStays, workerVars
  <2>6. invocations' \in 0 .. MaxInvocations
    BY InvocationsAssumption DEF HInv, TypeOK, Stop, Fails, Recovery
  <2> QED BY <2>1, <2>2, <2>3, <2>4, <2>5, <2>6 DEF TypeOK
<1>2. Steps'
  BY StopIs DEF HInv, TypeOK, Tool, Steps, Stop, Fails, Recovery, ServiceStops, workerVars
<1>3. ServiceRunsInstalled'
  BY StopIs DEF HInv, TypeOK, Tool, Steps, ServiceRunsInstalled, Stop, Fails, Recovery,
     ServiceStops, workerVars
<1> QED BY <1>1, <1>2, <1>3 DEF HInv

LEMMA MoveHost == HInv /\ WorkerTypeOK' /\ Move => HInv'
<1> SUFFICES ASSUME HInv, WorkerTypeOK', Move PROVE HInv'
  OBVIOUS
<1>1. TypeOK'
  <2>1. tool' \in Tool
    <3>1. tool \in Tool
      BY DEF HInv, TypeOK
    <3>2. [tool EXCEPT !.at = "promote", !.moved = TRUE] \in Tool
      BY <3>1 DEF Tool
    <3> QED BY <3>1, <3>2, ToolGoes, ToolEnds DEF Places, Outcomes, Move, Fails, Recovery
  <2>2. base' \in BOOLEAN /\ backup' \in BOOLEAN
    BY Zenon DEF HInv, TypeOK, Move, MovePredecessor, Fails, Recovery
  <2>3. accounts' \in {"none", "partial", "full"} /\ target' \in {"absent", "predecessor", "candidate"}
    BY DEF HInv, TypeOK, Move, MovePredecessor, Fails, Recovery
  <2>4. unit' \in {"none", "torn", "foundation", "predecessor", "candidate"}
    BY DEF HInv, TypeOK, Move, MovePredecessor, Fails, Recovery
  <2>5. running' \in {"none", "foundation", "predecessor", "candidate", "absent"}
    BY RunningType DEF HInv, Move, MovePredecessor, Fails, Recovery, ServiceStays, workerVars
  <2>6. invocations' \in 0 .. MaxInvocations
    BY InvocationsAssumption DEF HInv, TypeOK, Move, MovePredecessor, Fails, Recovery
  <2> QED BY <2>1, <2>2, <2>3, <2>4, <2>5, <2>6 DEF TypeOK
<1>2. ASSUME Fails, UNCHANGED <<target, backup>> PROVE Steps' /\ ServiceRunsInstalled'
  BY <1>2 DEF HInv, TypeOK, Tool, Steps, ServiceRunsInstalled, Move, Fails, Recovery, workerVars
<1>3. ASSUME MovePredecessor, tool' = [tool EXCEPT !.at = "promote", !.moved = TRUE]
      PROVE  Steps' /\ ServiceRunsInstalled'
  <2>1. backup'
    BY <1>3 DEF MovePredecessor
  <2>2. service' \notin {"active", "failed"} /\ tool.outcome = "none"
    BY DEF HInv, Steps, Move, workerVars
  <2>3. tool'.at = "promote" /\ tool'.outcome = "none"
    BY <1>3, <2>2 DEF HInv, TypeOK, Tool
  <2> QED BY <2>1, <2>2, <2>3 DEF Steps, ServiceRunsInstalled
<1> QED BY <1>1, <1>2, <1>3 DEF HInv, Move

LEMMA PromoteHost == HInv /\ WorkerTypeOK' /\ Promote => HInv'
<1> SUFFICES ASSUME HInv, WorkerTypeOK', Promote PROVE HInv'
  OBVIOUS
<1>1. TypeOK'
  <2>1. tool' \in Tool
    BY ToolGoes, ToolEnds DEF HInv, TypeOK, Places, Outcomes, Promote, Fails, Recovery
  <2>2. base' \in BOOLEAN /\ backup' \in BOOLEAN
    BY Zenon DEF HInv, TypeOK, Promote, Fails, Recovery
  <2>3. accounts' \in {"none", "partial", "full"} /\ target' \in {"absent", "predecessor", "candidate"}
    BY DEF HInv, TypeOK, Promote, Fails, Recovery
  <2>4. unit' \in {"none", "torn", "foundation", "predecessor", "candidate"}
    BY DEF HInv, TypeOK, Promote, Fails, Recovery
  <2>5. running' \in {"none", "foundation", "predecessor", "candidate", "absent"}
    BY RunningType DEF HInv, Promote, Fails, Recovery, ServiceStays, workerVars
  <2>6. invocations' \in 0 .. MaxInvocations
    BY InvocationsAssumption DEF HInv, TypeOK, Promote, Fails, Recovery
  <2> QED BY <2>1, <2>2, <2>3, <2>4, <2>5, <2>6 DEF TypeOK
<1>2. Steps'
  BY DEF HInv, TypeOK, Tool, Steps, Promote, Fails, Recovery, workerVars
<1>3. ServiceRunsInstalled'
  BY DEF HInv, TypeOK, Tool, Steps, ServiceRunsInstalled, Promote, Fails, Recovery, workerVars
<1> QED BY <1>1, <1>2, <1>3 DEF HInv

LEMMA WriteUnitHost == HInv /\ WorkerTypeOK' /\ WriteUnit => HInv'
<1> SUFFICES ASSUME HInv, WorkerTypeOK', WriteUnit PROVE HInv'
  OBVIOUS
<1>1. TypeOK'
  <2>1. tool' \in Tool
    BY ToolGoes, ToolEnds DEF HInv, TypeOK, Places, Outcomes, WriteUnit, Fails, Recovery
  <2>2. base' \in BOOLEAN /\ backup' \in BOOLEAN
    BY Zenon DEF HInv, TypeOK, WriteUnit, Fails, Recovery
  <2>3. accounts' \in {"none", "partial", "full"} /\ target' \in {"absent", "predecessor", "candidate"}
    BY DEF HInv, TypeOK, WriteUnit, Fails, Recovery
  <2>4. unit' \in {"none", "torn", "foundation", "predecessor", "candidate"}
    BY DEF HInv, TypeOK, WriteUnit, Fails, Recovery
  <2>5. running' \in {"none", "foundation", "predecessor", "candidate", "absent"}
    BY RunningType DEF HInv, WriteUnit, Fails, Recovery, ServiceStays, workerVars
  <2>6. invocations' \in 0 .. MaxInvocations
    BY InvocationsAssumption DEF HInv, TypeOK, WriteUnit, Fails, Recovery
  <2> QED BY <2>1, <2>2, <2>3, <2>4, <2>5, <2>6 DEF TypeOK
<1>2. Steps'
  BY DEF HInv, TypeOK, Tool, Steps, WriteUnit, Fails, Recovery, workerVars
<1>3. ServiceRunsInstalled'
  BY DEF HInv, TypeOK, Tool, Steps, ServiceRunsInstalled, WriteUnit, Fails, Recovery, workerVars
<1> QED BY <1>1, <1>2, <1>3 DEF HInv

LEMMA StartHost == HInv /\ WorkerTypeOK' /\ Start => HInv'
<1> SUFFICES ASSUME HInv, WorkerTypeOK', Start PROVE HInv'
  OBVIOUS
<1>1. TypeOK'
  <2>1. tool' \in Tool
    BY ToolGoes, ToolEnds DEF HInv, TypeOK, Places, Outcomes, Start, Fails, Recovery
  <2>2. base' \in BOOLEAN /\ backup' \in BOOLEAN
    BY Zenon DEF HInv, TypeOK, Start, Fails, Recovery
  <2>3. accounts' \in {"none", "partial", "full"} /\ target' \in {"absent", "predecessor", "candidate"}
    BY DEF HInv, TypeOK, Start, Fails, Recovery
  <2>4. unit' \in {"none", "torn", "foundation", "predecessor", "candidate"}
    BY DEF HInv, TypeOK, Start, Fails, Recovery
  <2>5. running' \in {"none", "foundation", "predecessor", "candidate", "absent"}
    BY StartIs, RunningType DEF HInv, Start, Fails, Recovery, ServiceStays, workerVars
  <2>6. invocations' \in 0 .. MaxInvocations
    BY InvocationsAssumption DEF HInv, TypeOK, Start, Fails, Recovery
  <2> QED BY <2>1, <2>2, <2>3, <2>4, <2>5, <2>6 DEF TypeOK
<1>2. Steps'
  BY StartIs DEF HInv, TypeOK, Tool, Steps, Start, Fails, Recovery, ServiceStarts, workerVars
<1>3. ServiceRunsInstalled'
  BY StartIs DEF HInv, TypeOK, Tool, Steps, ServiceRunsInstalled, Start, Fails, Recovery,
     ServiceStarts, workerVars
<1> QED BY <1>1, <1>2, <1>3 DEF HInv

LEMMA ConfirmHost == HInv /\ WorkerTypeOK' /\ Confirm => HInv'
<1> SUFFICES ASSUME HInv, WorkerTypeOK', Confirm PROVE HInv'
  OBVIOUS
<1>1. TypeOK'
  <2>1. tool' \in Tool
    BY ToolGoes, ToolEnds DEF HInv, TypeOK, Places, Outcomes, Confirm, host, Fails, Recovery
  <2>2. base' \in BOOLEAN /\ backup' \in BOOLEAN
    BY Zenon DEF HInv, TypeOK, Confirm, host, Fails, Recovery
  <2>3. accounts' \in {"none", "partial", "full"} /\ target' \in {"absent", "predecessor", "candidate"}
    BY DEF HInv, TypeOK, Confirm, host, Fails, Recovery
  <2>4. unit' \in {"none", "torn", "foundation", "predecessor", "candidate"}
    BY DEF HInv, TypeOK, Confirm, host, Fails, Recovery
  <2>5. running' \in {"none", "foundation", "predecessor", "candidate", "absent"}
    BY RunningType DEF HInv, Confirm, host, Fails, Recovery, ServiceStays, workerVars
  <2>6. invocations' \in 0 .. MaxInvocations
    BY InvocationsAssumption DEF HInv, TypeOK, Confirm, host, Fails, Recovery
  <2> QED BY <2>1, <2>2, <2>3, <2>4, <2>5, <2>6 DEF TypeOK
<1>2. Steps'
  BY DEF HInv, TypeOK, Tool, Steps, Confirm, host, Fails, Recovery, workerVars
<1>3. ServiceRunsInstalled'
  BY DEF HInv, TypeOK, Tool, Steps, ServiceRunsInstalled, Confirm, host, Fails, Recovery, workerVars
<1> QED BY <1>1, <1>2, <1>3 DEF HInv

LEMMA RestoreHost == HInv /\ WorkerTypeOK' /\ Restore => HInv'
<1> SUFFICES ASSUME HInv, WorkerTypeOK', Restore PROVE HInv'
  OBVIOUS
<1>1. TypeOK'
  <2>1. tool' \in Tool
    BY ToolGoes, ToolEnds DEF HInv, TypeOK, Places, Outcomes, Restore, BackupIsVerified,
       RestoreStops, RollbackFails
  <2>2. base' \in BOOLEAN /\ backup' \in BOOLEAN
    BY Zenon DEF HInv, TypeOK, Restore, BackupIsVerified, RestoreStops, RollbackFails
  <2>3. accounts' \in {"none", "partial", "full"} /\ target' \in {"absent", "predecessor", "candidate"}
    BY DEF HInv, TypeOK, Restore, BackupIsVerified, RestoreStops, RollbackFails
  <2>4. unit' \in {"none", "torn", "foundation", "predecessor", "candidate"}
    BY DEF HInv, TypeOK, Restore, BackupIsVerified, RestoreStops, RollbackFails
  <2>5. running' \in {"none", "foundation", "predecessor", "candidate", "absent"}
    BY StopIs, RunningType DEF HInv, Restore, BackupIsVerified, RestoreStops, RollbackFails,
       ServiceStays, workerVars
  <2>6. invocations' \in 0 .. MaxInvocations
    BY InvocationsAssumption DEF HInv, TypeOK, Restore, BackupIsVerified, RestoreStops,
       RollbackFails
  <2> QED BY <2>1, <2>2, <2>3, <2>4, <2>5, <2>6 DEF TypeOK
<1>2. Steps'
  BY StopIs DEF HInv, TypeOK, Tool, Steps, Restore, BackupIsVerified, RestoreStops, RollbackFails,
     ServiceStops, workerVars
<1>3. ServiceRunsInstalled'
  BY StopIs DEF HInv, TypeOK, Tool, Steps, ServiceRunsInstalled, Restore, BackupIsVerified,
     RestoreStops, RollbackFails, ServiceStops, workerVars
<1> QED BY <1>1, <1>2, <1>3 DEF HInv

LEMMA QuarantineHost == HInv /\ WorkerTypeOK' /\ Quarantine => HInv'
<1> SUFFICES ASSUME HInv, WorkerTypeOK', Quarantine PROVE HInv'
  OBVIOUS
<1>1. TypeOK'
  <2>1. tool' \in Tool
    BY ToolGoes, ToolEnds DEF HInv, TypeOK, Places, Outcomes, Quarantine, RollbackFails
  <2>2. base' \in BOOLEAN /\ backup' \in BOOLEAN
    BY Zenon DEF HInv, TypeOK, Quarantine, RollbackFails
  <2>3. accounts' \in {"none", "partial", "full"} /\ target' \in {"absent", "predecessor", "candidate"}
    BY DEF HInv, TypeOK, Quarantine, RollbackFails
  <2>4. unit' \in {"none", "torn", "foundation", "predecessor", "candidate"}
    BY DEF HInv, TypeOK, Quarantine, RollbackFails
  <2>5. running' \in {"none", "foundation", "predecessor", "candidate", "absent"}
    BY RunningType DEF HInv, Quarantine, RollbackFails, ServiceStays, workerVars
  <2>6. invocations' \in 0 .. MaxInvocations
    BY InvocationsAssumption DEF HInv, TypeOK, Quarantine, RollbackFails
  <2> QED BY <2>1, <2>2, <2>3, <2>4, <2>5, <2>6 DEF TypeOK
<1>2. Steps'
  BY DEF HInv, TypeOK, Tool, Steps, Quarantine, RollbackFails, workerVars
<1>3. ServiceRunsInstalled'
  BY DEF HInv, TypeOK, Tool, Steps, ServiceRunsInstalled, Quarantine, RollbackFails, workerVars
<1> QED BY <1>1, <1>2, <1>3 DEF HInv

LEMMA ReplaceHost == HInv /\ WorkerTypeOK' /\ Replace => HInv'
<1> SUFFICES ASSUME HInv, WorkerTypeOK', Replace PROVE HInv'
  OBVIOUS
<1>1. TypeOK'
  <2>1. tool' \in Tool
    BY ToolGoes, ToolEnds DEF HInv, TypeOK, Places, Outcomes, Replace, RollbackFails
  <2>2. base' \in BOOLEAN /\ backup' \in BOOLEAN
    BY Zenon DEF HInv, TypeOK, Replace, RollbackFails
  <2>3. accounts' \in {"none", "partial", "full"} /\ target' \in {"absent", "predecessor", "candidate"}
    BY DEF HInv, TypeOK, Replace, RollbackFails
  <2>4. unit' \in {"none", "torn", "foundation", "predecessor", "candidate"}
    BY DEF HInv, TypeOK, Replace, RollbackFails
  <2>5. running' \in {"none", "foundation", "predecessor", "candidate", "absent"}
    BY RunningType DEF HInv, Replace, RollbackFails, ServiceStays, workerVars
  <2>6. invocations' \in 0 .. MaxInvocations
    BY InvocationsAssumption DEF HInv, TypeOK, Replace, RollbackFails
  <2> QED BY <2>1, <2>2, <2>3, <2>4, <2>5, <2>6 DEF TypeOK
<1>2. ASSUME RollbackFails, UNCHANGED <<target, backup>> PROVE Steps' /\ ServiceRunsInstalled'
  BY <1>2 DEF HInv, TypeOK, Tool, Steps, ServiceRunsInstalled, Replace, RollbackFails, workerVars
<1>3. ASSUME target' = "predecessor", Goto("restore_unit") PROVE Steps' /\ ServiceRunsInstalled'
  BY <1>3 DEF HInv, TypeOK, Tool, Steps, ServiceRunsInstalled, Replace, workerVars
<1> QED BY <1>1, <1>2, <1>3 DEF HInv, Replace

LEMMA RestoreUnitHost == HInv /\ WorkerTypeOK' /\ RestoreUnit => HInv'
<1> SUFFICES ASSUME HInv, WorkerTypeOK', RestoreUnit PROVE HInv'
  OBVIOUS
<1>1. TypeOK'
  <2>1. tool' \in Tool
    BY ToolGoes, ToolEnds DEF HInv, TypeOK, Places, Outcomes, RestoreUnit, RollbackFails
  <2>2. base' \in BOOLEAN /\ backup' \in BOOLEAN
    BY Zenon DEF HInv, TypeOK, RestoreUnit, RollbackFails
  <2>3. accounts' \in {"none", "partial", "full"} /\ target' \in {"absent", "predecessor", "candidate"}
    BY DEF HInv, TypeOK, RestoreUnit, RollbackFails
  <2>4. unit' \in {"none", "torn", "foundation", "predecessor", "candidate"}
    BY DEF HInv, TypeOK, RestoreUnit, RollbackFails
  <2>5. running' \in {"none", "foundation", "predecessor", "candidate", "absent"}
    BY RunningType DEF HInv, RestoreUnit, RollbackFails, ServiceStays, workerVars
  <2>6. invocations' \in 0 .. MaxInvocations
    BY InvocationsAssumption DEF HInv, TypeOK, RestoreUnit, RollbackFails
  <2> QED BY <2>1, <2>2, <2>3, <2>4, <2>5, <2>6 DEF TypeOK
<1>2. Steps'
  BY DEF HInv, TypeOK, Tool, Steps, RestoreUnit, RollbackFails, workerVars
<1>3. ServiceRunsInstalled'
  BY DEF HInv, TypeOK, Tool, Steps, ServiceRunsInstalled, RestoreUnit, RollbackFails, workerVars
<1> QED BY <1>1, <1>2, <1>3 DEF HInv

LEMMA ServeHost == HInv /\ WorkerTypeOK' /\ Serve => HInv'
<1> SUFFICES ASSUME HInv, WorkerTypeOK', Serve PROVE HInv'
  OBVIOUS
<1>1. TypeOK'
  <2>1. tool' \in Tool
    BY ToolGoes, ToolEnds DEF HInv, TypeOK, Places, Outcomes, Serve, RollbackFails
  <2>2. base' \in BOOLEAN /\ backup' \in BOOLEAN
    BY Zenon DEF HInv, TypeOK, Serve, RollbackFails
  <2>3. accounts' \in {"none", "partial", "full"} /\ target' \in {"absent", "predecessor", "candidate"}
    BY DEF HInv, TypeOK, Serve, RollbackFails
  <2>4. unit' \in {"none", "torn", "foundation", "predecessor", "candidate"}
    BY DEF HInv, TypeOK, Serve, RollbackFails
  <2>5. running' \in {"none", "foundation", "predecessor", "candidate", "absent"}
    BY StartIs, RunningType DEF HInv, Serve, RollbackFails, ServiceStays, workerVars
  <2>6. invocations' \in 0 .. MaxInvocations
    BY InvocationsAssumption DEF HInv, TypeOK, Serve, RollbackFails
  <2> QED BY <2>1, <2>2, <2>3, <2>4, <2>5, <2>6 DEF TypeOK
<1>2. Steps'
  BY StartIs DEF HInv, TypeOK, Tool, Steps, Serve, RollbackFails, ServiceStarts, workerVars
<1>3. ServiceRunsInstalled'
  BY StartIs DEF HInv, TypeOK, Tool, Steps, ServiceRunsInstalled, Serve, RollbackFails,
     ServiceStarts, workerVars
<1> QED BY <1>1, <1>2, <1>3 DEF HInv

LEMMA ToolDiesHost == HInv /\ WorkerTypeOK' /\ ToolDies => HInv'
<1> SUFFICES ASSUME HInv, WorkerTypeOK', ToolDies PROVE HInv'
  OBVIOUS
<1>1. TypeOK'
  <2>1. tool' \in Tool
    BY ToolGoes, ToolEnds DEF HInv, TypeOK, Places, Outcomes, ToolDies, host
  <2>2. base' \in BOOLEAN /\ backup' \in BOOLEAN
    BY Zenon DEF HInv, TypeOK, ToolDies, host
  <2>3. accounts' \in {"none", "partial", "full"} /\ target' \in {"absent", "predecessor", "candidate"}
    BY DEF HInv, TypeOK, ToolDies, host
  <2>4. unit' \in {"none", "torn", "foundation", "predecessor", "candidate"}
    BY DEF HInv, TypeOK, ToolDies, host
  <2>5. running' \in {"none", "foundation", "predecessor", "candidate", "absent"}
    BY RunningType DEF HInv, ToolDies, host, ServiceStays, workerVars
  <2>6. invocations' \in 0 .. MaxInvocations
    BY InvocationsAssumption DEF HInv, TypeOK, ToolDies, host
  <2> QED BY <2>1, <2>2, <2>3, <2>4, <2>5, <2>6 DEF TypeOK
<1>2. Steps'
  BY DEF HInv, TypeOK, Tool, Steps, ToolDies, host, workerVars
<1>3. ServiceRunsInstalled'
  BY DEF HInv, TypeOK, Tool, Steps, ServiceRunsInstalled, ToolDies, host, workerVars
<1> QED BY <1>1, <1>2, <1>3 DEF HInv

-----------------------------------------------------------------------------
(* The host under the worker's own steps, and what follows.                *)

\* The worker dies and is started again from the same release: it never touches
\* what the tools do.
LEMMA WorkerNextHost ==
    HInv /\ WorkerTypeOK' /\ WorkerNext /\ UNCHANGED <<host, tool, invocations>> => HInv'
<1> SUFFICES ASSUME HInv, WorkerTypeOK', WorkerNext, UNCHANGED <<host, tool, invocations>> PROVE HInv'
  OBVIOUS
<1>1. UNCHANGED <<accounts, base, target, backup, unit, running>>
  BY DEF host
<1>2. service' = service \/ (service = "active" /\ service' = "failed")
                         \/ (service = "failed" /\ service' = "active")
  BY DEF WorkerNext, Crash, Kill, Restart, Launch, CapabilityExpires, JobStep, ProbeEnds, CleanUp,
     Record, Conclude, ClientStep, Health, Prepare, Verify, Poll, Cancel, Abandon
<1>3. TypeOK'
  BY <1>1 DEF HInv, TypeOK
<1>4. Steps' /\ ServiceRunsInstalled'
  BY <1>1, <1>2 DEF HInv, Steps, ServiceRunsInstalled
<1> QED BY <1>3, <1>4 DEF HInv

LEMMA NextHInv == WInv /\ HInv /\ [Next]_vars => HInv'
<1> SUFFICES ASSUME WInv, HInv, [Next]_vars PROVE HInv'
  OBVIOUS
<1>1. WorkerTypeOK'
  BY NextWInv DEF WInv
<1>2. CASE UNCHANGED vars
  <2>1. UNCHANGED <<service, accounts, base, target, backup, unit, running, tool, invocations>>
    BY <1>2 DEF vars, host, workerVars
  <2> QED BY <1>1, <2>1 DEF HInv, TypeOK, Steps, ServiceRunsInstalled
<1>3. CASE ToolStep
  BY <1>1, <1>3, ProvisionAccountsHost, ProvisionBaseHost, ProvisionUnitHost, ProvisionEnableHost,
     InstallBeginsHost, StopHost, MoveHost, PromoteHost, WriteUnitHost, StartHost, ConfirmHost,
     RestoreHost, QuarantineHost, ReplaceHost, RestoreUnitHost, ServeHost, ToolDiesHost DEF ToolStep
<1> QED BY <1>1, <1>2, <1>3, WorkerNextHost DEF Next

LEMMA InitHInv == Init => HInv
<1> SUFFICES ASSUME Init PROVE HInv
  OBVIOUS
<1>1. WorkerTypeOK
  BY WorkerInitInv DEF Init, WInv
<1>2. tool \in Tool /\ tool.at = "off" /\ tool.outcome = "none"
  BY DEF Init, Tool
<1>3. TypeOK
  <2>1. base \in BOOLEAN /\ backup \in BOOLEAN
    BY Zenon DEF Init
  <2>2. accounts \in {"none", "partial", "full"} /\ target \in {"absent", "predecessor", "candidate"}
    BY DEF Init
  <2>3. /\ unit \in {"none", "torn", "foundation", "predecessor", "candidate"}
        /\ running \in {"none", "foundation", "predecessor", "candidate", "absent"}
    BY DEF Init
  <2>4. invocations \in 0 .. MaxInvocations
    BY InvocationsAssumption DEF Init
  <2> QED BY <1>1, <1>2, <2>1, <2>2, <2>3, <2>4 DEF TypeOK
<1>4. Steps /\ ServiceRunsInstalled
  BY <1>2 DEF Init, WorkerInit, Steps, ServiceRunsInstalled
<1> QED BY <1>3, <1>4 DEF HInv

LEMMA HostInvariant == Spec => []HInv
<1>1. Init => HInv
  BY InitHInv
<1> QED BY <1>1, NextHInv, WorkerInvariant, PTL DEF Spec

\* Every field of the worker, its files and its clients, and everything the
\* tools change on the host, stays in its range.
THEOREM VerificationTypeOK == Spec => []TypeOK
<1>1. HInv => TypeOK
  BY DEF HInv
<1> QED BY <1>1, HostInvariant, PTL

\* What the service runs is what is installed, and the reviewed outcome a tool
\* prints is the one on the host.
THEOREM InstalledIsServed == Spec => []ServiceRunsInstalled
<1>1. HInv => ServiceRunsInstalled
  BY DEF HInv
<1> QED BY <1>1, HostInvariant, PTL

\* The approved predecessor, once on the host, is never lost, whatever step of
\* the upgrade or of its rollback fails or is the last one.
THEOREM PredecessorSurvives == Spec => PredecessorIsKept
<1> DEFINE Kept == target = "predecessor" \/ backup => target' = "predecessor" \/ backup'
<1>1. ASSUME HInv, ToolStep PROVE Kept
  <2>1. CASE UNCHANGED <<target, backup>>
    BY <2>1
  <2>2. CASE Move
    <3>1. UNCHANGED <<target, backup>> \/ backup'
      BY <2>2 DEF Move, MovePredecessor
    <3> QED BY <3>1
  <2>3. CASE Promote
    BY <1>1, <2>3 DEF HInv, Steps, Promote
  <2>4. CASE Quarantine
    BY <1>1, <2>4 DEF HInv, Steps, Quarantine
  <2>5. CASE Replace
    BY <2>5 DEF Replace
  <2> QED
    BY <1>1, <2>1, <2>2, <2>3, <2>4, <2>5 DEF ToolStep, ProvisionAccounts, ProvisionBase,
       ProvisionUnit,
       ProvisionEnable, InstallBegins, Stop, WriteUnit, Start, Confirm, Restore, RestoreUnit, Serve,
       ToolDies, host
<1>2. HInv /\ [Next]_vars => [Kept]_vars
  BY <1>1 DEF Next, vars, host
<1> QED BY <1>2, HostInvariant, PTL DEF Spec, PredecessorIsKept
=============================================================================
