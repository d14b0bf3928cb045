------------------------- MODULE VerificationWorker -------------------------
(***************************************************************************)
(* The verification sandbox worker (infra/verification/i044a-v2/worker/    *)
(* i044a.py over i044b-v2/worker/worker.py) and the clients that ask it to *)
(* verify the source tree (client/i044a_client.py, and                     *)
(* infrastructure/verification_sandbox.py of the API).                     *)
(*                                                                         *)
(* A request is one critical section of Worker.request; the probe of an    *)
(* accepted run is a thread of its own, which takes the lock only for its  *)
(* last section.  The process may die at any point; systemd then kills the *)
(* whole control group (KillMode=control-group, so no probe survives) and  *)
(* starts the worker again, which reconciles what current.json, recent.json*)
(* and the snapshot directories say.  A snapshot is identified with the run*)
(* it was staged for: its digest is the one of that run.                   *)
(* VerificationInstaller.tla stops, replaces and starts this service.      *)
(***************************************************************************)
EXTENDS Naturals, FiniteSets

CONSTANTS
    Peer,   \* client processes: each makes one verification
    Run     \* the identities uuid4 gives to prepared snapshots

\* "none" stands for the absence of a run.
ASSUME RunAssumption == "none" \notin Run

VARIABLES
    service,     \* "active", "failed" (systemd restarts it), "inactive", or
                 \* "foundation" (the foundation's worker, which executes nothing)
    pending,     \* Worker.pending: the snapshot prepared for a peer, or None
    job,         \* Worker.active and the locals of its execute_probe, or None
    blocked,     \* Worker.blocked
    recent,      \* Worker.recent: the last terminal result, or None
    currentFile, \* the run named by current.json, or None
    recentFile,  \* the result in recent.json, or None
    snapshots,   \* the runs with a snapshot directory on disk
    client,      \* where each peer's verification stands
    evidence,    \* what really became of each run (history)
    orphans,     \* snapshots that an unrecorded failure left on disk (history)
    accepted     \* the run accepted last (history)

memory  == <<pending, job, blocked, recent>>
disk    == <<currentFile, recentFile>>
history == <<evidence, orphans, accepted>>
workerVars == <<service, memory, disk, snapshots, client, history>>

None == [run |-> "none"]

Termination == {"exited", "timeout", "failed", "output_limit", "cancelled"}
State == {"passed", "reconciled"} \union Termination

Result(r, state) == [run |-> r, state |-> state]
Results == [run : Run, state : State] \union {None}

Job == [run : Run, stage : {"probe", "cleanup", "conclude", "recorded"}, cancel : BOOLEAN,
        termination : Termination, checks : BOOLEAN, empty : BOOLEAN, destroyed : BOOLEAN]

NewJob(r) == [run |-> r, stage |-> "probe", cancel |-> FALSE, termination |-> "failed",
              checks |-> FALSE, empty |-> FALSE, destroyed |-> FALSE]

WorkerInit ==
    /\ service \in {"active", "inactive"}
    /\ pending = None /\ job = None /\ blocked = FALSE /\ recent = None
    /\ currentFile = "none" /\ recentFile = None
    /\ snapshots = {}
    /\ client = [c \in Peer |-> [phase |-> "idle", run |-> "none", state |-> "none"]]
    /\ evidence = [r \in Run |-> "none"]
    /\ orphans = {}
    /\ accepted = "none"

-----------------------------------------------------------------------------
(* The life of the process.                                                *)

\* The process dies, by itself or because systemctl stops it: its memory is
\* gone and the control group is empty.
Kill(next) ==
    /\ service' = next
    /\ pending' = None /\ job' = None /\ blocked' = FALSE /\ recent' = None
    /\ UNCHANGED <<disk, snapshots, client, history>>

Crash == service = "active" /\ Kill("failed")

\* Mutant: the result that was recorded before the crash is kept.
ReconciledKeepsRecorded ==
    IF recentFile = None /\ currentFile # "none" THEN Result(currentFile, "reconciled")
    ELSE recentFile

\* Worker.__init__: a run that current.json names was under way, so whatever
\* recent.json says of it, it ends as reconciled.
Reconciled == IF currentFile # "none" THEN Result(currentFile, "reconciled") ELSE recentFile

\* The snapshots of an earlier process are destroyed; one that cannot be
\* blocks the worker (kept is what remains of them).  When __init__ fails to
\* write, the process ends with recent.json already reconciled or current.json
\* still there: the next start does the same, so it is a later Launch.
Launch ==
    /\ service' = "active"
    /\ pending' = None /\ job' = None
    /\ recent' = Reconciled /\ recentFile' = Reconciled
    /\ currentFile' = "none"
    /\ \E kept \in {{}, snapshots} :
          /\ snapshots' = kept
          /\ blocked' = (kept # {})
          /\ orphans' = orphans \intersect kept
    /\ UNCHANGED <<client, evidence, accepted>>

\* Restart=on-failure.
Restart == service = "failed" /\ Launch

-----------------------------------------------------------------------------
(* Requests: each holds the lock from its first read to its answer.        *)

\* The thread of the job holds the lock between its two durable writes.
LockIsFree == job # None => job.stage # "recorded"

\* Mutant: the snapshot that could not be destroyed is forgotten.
AfterDiscardUnnoticed ==
    IF pending # None /\ pending.expired
    THEN {[pending |-> None, blocked |-> blocked, snapshots |-> kept] :
             kept \in {snapshots, snapshots \ {pending.run}}}
    ELSE {[pending |-> pending, blocked |-> blocked, snapshots |-> snapshots]}

\* The discarding of an expired capability, which every request begins with:
\* the worker's pending, blocked and snapshots after it.
AfterDiscard ==
    IF pending # None /\ pending.expired
    THEN {[pending |-> None, blocked |-> blocked, snapshots |-> snapshots \ {pending.run}],
          [pending |-> None, blocked |-> TRUE,    snapshots |-> snapshots]}
    ELSE {[pending |-> pending, blocked |-> blocked, snapshots |-> snapshots]}

\* The two seconds of CAPABILITY_LIFETIME have passed.
CapabilityExpires ==
    /\ service = "active"
    /\ pending # None /\ ~pending.expired
    /\ pending' = [pending EXCEPT !.expired = TRUE]
    /\ UNCHANGED <<service, job, blocked, recent, disk, snapshots, client, history>>

Serving(c, phase) ==
    /\ service = "active"
    /\ LockIsFree
    /\ client[c].phase = phase

Becomes(c, phase, r, state) ==
    client' = [client EXCEPT ![c] = [phase |-> phase, run |-> r, state |-> state]]

\* health: the client goes on only with a worker that is ready.
Health(c) ==
    /\ Serving(c, "idle")
    /\ \E after \in AfterDiscard :
          /\ pending' = after.pending
          /\ blocked' = after.blocked
          /\ snapshots' = after.snapshots
          /\ IF after.blocked THEN Becomes(c, "over", "none", "error")
             ELSE Becomes(c, "healthy", "none", "none")
    /\ UNCHANGED <<service, job, recent, disk, history>>

\* Mutant: a snapshot may be prepared while a run is under way.
MayPrepareDuringRun(after) == ~after.blocked /\ after.pending = None

MayPrepare(after) == ~after.blocked /\ job = None /\ after.pending = None

Fresh == {r \in Run : evidence[r] = "none"}

\* stage_snapshot copies the tree under its bounds and makes it read-only.
Staged(c, r, after) ==
    /\ Becomes(c, "prepared", r, "none")
    /\ pending' = [run |-> r, peer |-> c, expired |-> FALSE]
    /\ snapshots' = after.snapshots \union {r}
    /\ evidence' = [evidence EXCEPT ![r] = "staged"]
    /\ UNCHANGED orphans

\* It fails; the clean-up of what was copied may fail too, unnoticed.
StagingFails(c, r, after) ==
    /\ Becomes(c, "over", "none", "error")
    /\ pending' = after.pending
    /\ evidence' = [evidence EXCEPT ![r] = "unstaged"]
    /\ \E left \in {{}, {r}} :
          /\ snapshots' = after.snapshots \union left
          /\ orphans' = orphans \union left

\* prepare: "busy" or "unavailable", or a snapshot and a capability for this
\* peer.
Prepare(c) ==
    /\ Serving(c, "healthy")
    /\ \E after \in AfterDiscard :
          /\ blocked' = after.blocked
          /\ \/ /\ ~MayPrepare(after)
                /\ Becomes(c, "over", "none", "error")
                /\ pending' = after.pending
                /\ snapshots' = after.snapshots
                /\ UNCHANGED <<evidence, orphans>>
             \/ /\ MayPrepare(after)
                /\ \E r \in Fresh : Staged(c, r, after) \/ StagingFails(c, r, after)
    /\ UNCHANGED <<service, job, recent, disk, accepted>>

\* verify: the capability is this peer's and is not used up.  Only the peer
\* that prepared the snapshot knows it.
Authorized(c, after) == after.pending # None /\ after.pending.peer = c
                        /\ after.pending.run = client[c].run

Verify(c) ==
    /\ Serving(c, "prepared")
    /\ \E after \in AfterDiscard :
          /\ blocked' = after.blocked
          /\ snapshots' = after.snapshots
          /\ \/ /\ ~Authorized(c, after)
                /\ Becomes(c, "over", "none", "error")
                /\ pending' = after.pending
                /\ UNCHANGED <<job, currentFile, history>>
             \/ /\ Authorized(c, after)
                /\ pending' = None
                /\ \/ /\ currentFile' = after.pending.run
                      /\ job' = NewJob(after.pending.run)
                      /\ accepted' = after.pending.run
                      /\ Becomes(c, "accepted", after.pending.run, "none")
                      /\ UNCHANGED <<evidence, orphans>>
                   \/ \* write_state fails: nothing owns the snapshot any more.
                      /\ orphans' = orphans \union {after.pending.run}
                      /\ Becomes(c, "over", "none", "error")
                      /\ UNCHANGED <<job, currentFile, evidence, accepted>>
    /\ UNCHANGED <<service, recent, recentFile>>

\* The answer of the worker to a result request for run r.
Answer(r) ==
    IF job # None /\ job.run = r THEN "running"
    ELSE IF recent.run = r THEN recent.state ELSE "unknown_run"

\* What the adapter makes of a terminal state: it hashes the tree again, and a
\* tree that changed since the snapshot is reported instead of the state.
Reported(state) == {state, "stale_source"}

\* result: the client goes on until the answer is terminal.  A reconciled
\* result has no source_digest, so the client refuses it like an unknown run.
Poll(c) ==
    /\ Serving(c, "accepted")
    /\ Answer(client[c].run) # "running"
    /\ \E after \in AfterDiscard :
          /\ pending' = after.pending
          /\ blocked' = after.blocked
          /\ snapshots' = after.snapshots
    /\ IF Answer(client[c].run) \in {"unknown_run", "reconciled"}
       THEN Becomes(c, "over", client[c].run, "error")
       ELSE \E state \in Reported(Answer(client[c].run)) :
               Becomes(c, "over", client[c].run, state)
    /\ UNCHANGED <<service, job, recent, disk, history>>

\* cancel and cleanup, of this client after fifteen seconds of polling or of
\* another one that knows the run.
Cancel(c) ==
    /\ Serving(c, "accepted")
    /\ job # None /\ job.run = client[c].run
    /\ job' = [job EXCEPT !.cancel = TRUE]
    /\ \E phase \in {"accepted", "over"} :
          Becomes(c, phase, client[c].run, IF phase = "over" THEN "error" ELSE "none")
    /\ UNCHANGED <<service, pending, blocked, recent, disk, snapshots, history>>

\* The client dies, its answer is lost, or the worker is not there to answer.
Abandon(c) ==
    /\ client[c].phase \notin {"idle", "over"}
    /\ Becomes(c, "over", client[c].run, "error")
    /\ UNCHANGED <<service, memory, disk, snapshots, history>>

-----------------------------------------------------------------------------
(* The thread of the job: execute_probe.                                   *)

Thread(stage) == service = "active" /\ job # None /\ job.stage = stage

\* The probe ends: it exits, is stopped by its deadline, its output or the
\* cancel event (which is looked at before each poll, so an exit may still
\* win), or could not be launched.
ProbeEnds ==
    /\ Thread("probe")
    /\ \E termination \in Termination, checks \in BOOLEAN :
          /\ termination = "cancelled" => job.cancel
          /\ job' = [job EXCEPT !.stage = "cleanup", !.termination = termination,
                                !.checks = checks]
    /\ UNCHANGED <<service, pending, blocked, recent, disk, snapshots, client, history>>

\* kill_population, then destroy_snapshot if nothing is left running in it.
CleanUp ==
    /\ Thread("cleanup")
    /\ \E empty, destroyed \in BOOLEAN :
          /\ destroyed => empty
          /\ job' = [job EXCEPT !.stage = "conclude", !.empty = empty, !.destroyed = destroyed]
          /\ snapshots' = IF destroyed THEN snapshots \ {job.run} ELSE snapshots
          /\ evidence' = [evidence EXCEPT ![job.run] =
                IF ~destroyed THEN "escaped"
                ELSE IF job.checks THEN "contained" ELSE "refuted"]
    /\ UNCHANGED <<service, pending, blocked, recent, disk, client, orphans, accepted>>

\* Mutant: a probe that left its snapshot behind still passes.
PassedUnclean(j) == j.checks /\ j.empty /\ j.termination \in {"exited", "timeout"}

Passed(j) ==
    /\ j.checks
    /\ j.empty
    /\ j.destroyed
    /\ j.termination \in {"exited", "timeout"}

JobResult(j) == Result(j.run, IF Passed(j) THEN "passed" ELSE j.termination)

Uncontained(j) == ~j.empty \/ ~j.destroyed

\* The last section takes the lock and records the result.  If the write
\* fails, the worker blocks at once.
Record ==
    /\ Thread("conclude")
    /\ \/ /\ recentFile' = JobResult(job)
          /\ job' = [job EXCEPT !.stage = "recorded"]
          /\ blocked' = Uncontained(job)
          /\ UNCHANGED recent
       \/ /\ blocked' = TRUE
          /\ recent' = JobResult(job)
          /\ job' = None
          /\ UNCHANGED recentFile
    /\ UNCHANGED <<service, pending, currentFile, snapshots, client, history>>

\* current.json is removed unless the worker blocks; a failure blocks it.
Conclude ==
    /\ Thread("recorded")
    /\ \/ blocked' = blocked /\ currentFile' = (IF blocked THEN currentFile ELSE "none")
       \/ ~blocked /\ blocked' = TRUE /\ UNCHANGED currentFile
    /\ recent' = JobResult(job)
    /\ job' = None
    /\ UNCHANGED <<service, pending, recentFile, snapshots, client, history>>

JobStep == ProbeEnds \/ CleanUp \/ Record \/ Conclude

ClientStep(c) ==
    Health(c) \/ Prepare(c) \/ Verify(c) \/ Poll(c) \/ Cancel(c) \/ Abandon(c)

WorkerNext ==
    \/ Crash \/ Restart
    \/ CapabilityExpires
    \/ JobStep
    \/ \E c \in Peer : ClientStep(c)

-----------------------------------------------------------------------------
(* Properties of the worker.                                               *)

\* The fields of Worker, its files and its clients stay in their ranges.
WorkerTypeOK ==
    /\ service \in {"active", "failed", "inactive", "foundation"}
    /\ pending \in [run : Run, peer : Peer, expired : BOOLEAN] \union {None}
    /\ job \in Job \union {None}
    /\ blocked \in BOOLEAN
    /\ recent \in Results /\ recentFile \in Results
    /\ currentFile \in Run \union {"none"}
    /\ snapshots \subseteq Run
    /\ client \in [Peer -> [phase : {"idle", "healthy", "prepared", "accepted", "over"},
                            run   : Run \union {"none"},
                            state : State \union {"none", "error", "stale_source"}]]
    /\ evidence \in [Run -> {"none", "staged", "unstaged", "escaped", "refuted", "contained"}]
    /\ orphans \subseteq Run
    /\ accepted \in Run \union {"none"}

\* No copy of the source outlives its use unnoticed: while the worker serves,
\* a snapshot on disk is the pending one, the one of the run under way, or the
\* reason why the worker is blocked.  The exceptions are the two failures the
\* code does not record: a staging whose clean-up fails, and a verify whose
\* write of current.json fails.
SnapshotIsOwned ==
    service = "active" /\ ~blocked =>
        \A r \in snapshots : pending.run = r \/ job.run = r \/ r \in orphans

\* A worker that could not clean up starts nothing more until it is restarted:
\* it stays blocked, and neither prepares nor runs anything.  The assignment
\* to blocked at the end of execute_probe could clear an earlier block; it does
\* not because a blocked worker has neither a pending snapshot nor a run.
BlockedFailsClosed ==
    [][service = "active" /\ blocked /\ LockIsFree /\ service' = "active" =>
          blocked' /\ pending' = None /\ job' = None]_workerVars

\* A verification is reported as passed only for a run whose own probe found
\* every check true, whose population was emptied and whose snapshot was
\* destroyed, and that the client itself prepared; no two clients share it.
PassedIsEarned ==
    \A c \in Peer : client[c].state = "passed" =>
        /\ evidence[client[c].run] = "contained"
        /\ client[c].run \notin snapshots
        /\ \A d \in Peer \ {c} : client[d].run # client[c].run

\* The run that was accepted last is never forgotten, whatever write failed and
\* however often the process died: a serving worker answers "running", its
\* result, or "reconciled", never "unknown_run".
AcceptedIsAnswerable ==
    service = "active" /\ accepted # "none" => Answer(accepted) # "unknown_run"
=============================================================================
