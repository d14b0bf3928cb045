----------------------- MODULE VerificationInstaller -----------------------
(***************************************************************************)
(* The two root tools that put the verification service on a host, over    *)
(* the service itself (VerificationWorker.tla): provision.py of the I-044B *)
(* foundation and install.py of the I-044A overlay.  Both change a closed  *)
(* set of things (accounts, a release directory, its backup, the unit) in a*)
(* fixed order, stop and start the service on the way, and may fail or be  *)
(* killed between any two steps; install.py undoes an upgrade that fails.  *)
(* An operator runs one tool at a time, again and again (MaxInvocations).  *)
(* The digests, modes and owners that decide whether a directory is one of *)
(* the reviewed releases are abstracted to which release it is.            *)
(***************************************************************************)
EXTENDS VerificationWorker

CONSTANT MaxInvocations     \* bound on the runs of the two tools

ASSUME InvocationsAssumption == MaxInvocations \in Nat

VARIABLES
    accounts,    \* the three accounts: "none", "partial" or "full"
    base,        \* the foundation release is in place
    target,      \* what is in TARGET: "absent", "predecessor", "candidate"
    backup,      \* the predecessor is in its sibling backup
    unit,        \* UNIT: "none", "torn" or the unit of a release
    running,     \* the release whose worker the service was started from
    tool,        \* the tool that runs: its next step and its locals
    invocations  \* how many times a tool was started

host == <<accounts, base, target, backup, unit, running>>
vars == <<workerVars, host, tool, invocations>>

Idle(outcome, found) == [at |-> "off", found |-> found, moved |-> FALSE, outcome |-> outcome]

\* A bare host, or one that serves the approved predecessor.
Init ==
    /\ WorkerInit
    /\ \/ /\ accounts = "none" /\ base = FALSE /\ target = "absent"
          /\ unit = "none" /\ running = "none" /\ service = "inactive"
       \/ /\ accounts = "full" /\ base = TRUE /\ target = "predecessor"
          /\ unit = "predecessor" /\ running = "predecessor" /\ service = "active"
    /\ backup = FALSE
    /\ tool = Idle("none", "none")
    /\ invocations = 0

At(step) == tool.at = step
Goto(step) == tool' = [tool EXCEPT !.at = step]
Ends(outcome) == tool' = Idle(outcome, tool.found)

\* verify_release: TARGET is this reviewed release, byte for byte.
VerifiedAs(release) == target = release

\* verify_foundation: the foundation below is the reviewed one.
FoundationIsVerified == base

\* The backup is an exact predecessor (verify_predecessor_release).
BackupIsVerified == backup

Begins == At("off") /\ invocations < MaxInvocations /\ invocations' = invocations + 1

\* systemctl stop succeeds: nothing of the service runs any more.
StopService == Kill("inactive") /\ running' = "none"

\* trust_release finds the release, its storage or its cgroup not as reviewed:
\* the worker ends before it serves, and systemd starts it again.
TrustFails == Kill("failed")

\* systemctl start of the unit in place.  A unit of the overlay starts the
\* worker of whatever release is in TARGET.  Starting an active service does
\* nothing.
StartService ==
    \/ /\ service = "active" /\ unit # "foundation"
       /\ UNCHANGED <<workerVars, running>>
    \/ /\ unit = "foundation"
       /\ Kill("foundation")
       /\ running' = "foundation"
    \/ /\ service # "active" /\ unit # "foundation"
       /\ Launch \/ TrustFails
       /\ running' = target

-----------------------------------------------------------------------------
(* provision.py: install.                                                  *)

\* ensure_accounts: without all three names it creates them from the first,
\* which fails when an earlier call already created it.
ProvisionAccounts ==
    /\ Begins
    /\ \/ accounts = "full" /\ Goto("base") /\ UNCHANGED accounts
       \/ accounts = "none" /\ accounts' = "full" /\ Goto("base")
       \/ accounts = "none" /\ accounts' = "partial" /\ Ends("refused")
       \/ accounts = "partial" /\ Ends("refused") /\ UNCHANGED accounts
    /\ UNCHANGED <<workerVars, base, target, backup, unit, running>>

\* The candidate foundation is built and verified aside and renamed, or is
\* identical to the one in place.
ProvisionBase ==
    /\ At("base")
    /\ \/ base' = TRUE /\ Goto("control")
       \/ Ends("refused") /\ UNCHANGED base
    /\ UNCHANGED <<workerVars, accounts, target, backup, unit, running, invocations>>

\* install_control_file creates the unit exclusively, or requires it exact; a
\* write that fails leaves a torn file.
ProvisionUnit ==
    /\ At("control")
    /\ \/ unit \in {"none", "foundation"} /\ unit' = "foundation" /\ Goto("enable")
       \/ unit = "none" /\ unit' = "torn" /\ Ends("refused")
       \/ unit # "foundation" /\ unit # "none" /\ Ends("refused") /\ UNCHANGED unit
    /\ UNCHANGED <<workerVars, accounts, base, target, backup, running, invocations>>

\* AppArmor, the anchor and the mount, then enable --now and is-active.
ProvisionEnable ==
    /\ At("enable")
    /\ \/ StartService /\ Ends("provisioned")
       \/ Ends("refused") /\ UNCHANGED <<workerVars, running>>
    /\ UNCHANGED <<accounts, base, target, backup, unit, invocations>>

-----------------------------------------------------------------------------
(* install.py: main, up to the stop of the service.                        *)

\* The one unit that is authoritative for each state of TARGET.
UnitOf(state) == IF state = "absent" THEN "foundation" ELSE state

\* trusted_unit
UnitIsTrusted == unit = UnitOf(target)

InstallBegins ==
    /\ Begins
    /\ FoundationIsVerified
    /\ \/ /\ UnitIsTrusted
          /\ ~VerifiedAs("candidate")
          /\ tool' = [at |-> "stop", found |-> target, moved |-> FALSE, outcome |-> "none"]
       \/ /\ UnitIsTrusted
          /\ VerifiedAs("candidate")
          /\ service = "active"
          /\ tool' = Idle("upgraded", target)
       \/ \* drift, an inactive candidate, or a candidate that cannot be built
          tool' = Idle("refused", target)
    /\ UNCHANGED <<workerVars, host>>

\* What main does when a step fails, by what it knows of the predecessor.
Recovery ==
    IF tool.moved THEN "restore"
    ELSE IF tool.found = "predecessor" THEN "recover" ELSE "none"

Fails == IF Recovery = "none" THEN Ends("failed") ELSE Goto(Recovery)

\* A stop that reports an error may have stopped the service or not.
Stop ==
    /\ At("stop")
    /\ \/ StopService /\ Goto(IF tool.found = "predecessor" THEN "move" ELSE "promote")
       \/ StopService /\ Fails
       \/ Fails /\ UNCHANGED <<workerVars, running>>
    /\ UNCHANGED <<accounts, base, target, backup, unit, invocations>>

\* Mutant: the old release is removed to make room for the new one.
RemovePredecessor == target' = "absent" /\ backup' = backup

MovePredecessor == target' = "absent" /\ backup' = TRUE

Move ==
    /\ At("move")
    /\ \/ /\ MovePredecessor
          /\ tool' = [tool EXCEPT !.at = "promote", !.moved = TRUE]
       \/ Fails /\ UNCHANGED <<target, backup>>
    /\ UNCHANGED <<workerVars, accounts, base, unit, running, invocations>>

Promote ==
    /\ At("promote")
    /\ \/ target' = "candidate" /\ Goto("unit")
       \/ Fails /\ UNCHANGED target
    /\ UNCHANGED <<workerVars, accounts, base, backup, unit, running, invocations>>

WriteUnit ==
    /\ At("unit")
    /\ \/ unit' = "candidate" /\ Goto("start")
       \/ unit' \in {unit, "torn"} /\ Fails
    /\ UNCHANGED <<workerVars, accounts, base, target, backup, running, invocations>>

Start ==
    /\ At("start")
    /\ \/ StartService /\ Goto("confirm")
       \/ Fails /\ UNCHANGED <<workerVars, running>>
    /\ UNCHANGED <<accounts, base, target, backup, unit, invocations>>

\* is-active, then the final verify_release.
Confirm ==
    /\ At("confirm")
    /\ \/ service = "active" /\ VerifiedAs("candidate") /\ Ends("upgraded")
       \/ Fails
    /\ UNCHANGED <<workerVars, host, invocations>>

-----------------------------------------------------------------------------
(* restore_predecessor and recover_unchanged_predecessor.                  *)

RollbackFails == Ends("rollback_failed")

\* Mutant: the service is not stopped before the release is replaced.
RestoreStopSkipped == Goto("quarantine") /\ UNCHANGED <<workerVars, running>>

RestoreStops == StopService /\ Goto("quarantine")

\* The backup is verified again before TARGET is touched.
Restore ==
    /\ At("restore")
    /\ \/ BackupIsVerified /\ RestoreStops
       \/ RollbackFails /\ UNCHANGED <<workerVars, running>>
       \/ RollbackFails /\ StopService
    /\ UNCHANGED <<accounts, base, target, backup, unit, invocations>>

\* The failed candidate is kept aside.
Quarantine ==
    /\ At("quarantine")
    /\ \/ target' = "absent" /\ Goto("replace")
       \/ RollbackFails /\ UNCHANGED target
    /\ UNCHANGED <<workerVars, accounts, base, backup, unit, running, invocations>>

Replace ==
    /\ At("replace")
    /\ \/ target' = "predecessor" /\ backup' = FALSE /\ Goto("restore_unit")
       \/ RollbackFails /\ UNCHANGED <<target, backup>>
    /\ UNCHANGED <<workerVars, accounts, base, unit, running, invocations>>

RestoreUnit ==
    /\ At("restore_unit")
    /\ \/ unit' = "predecessor" /\ Goto("restore_start")
       \/ unit' \in {unit, "torn"} /\ RollbackFails
    /\ UNCHANGED <<workerVars, accounts, base, target, backup, running, invocations>>

\* start, is-active and the last checks, of a restored or untouched predecessor.
Serve ==
    /\ \/ At("restore_start")
       \/ At("recover") /\ VerifiedAs("predecessor") /\ unit = "predecessor"
    /\ \/ StartService /\ Ends(IF service' = "active" THEN "failed" ELSE "rollback_failed")
       \/ StartService /\ RollbackFails
       \/ RollbackFails /\ UNCHANGED <<workerVars, running>>
    /\ UNCHANGED <<accounts, base, target, backup, unit, invocations>>

\* The tool is killed between two steps.
ToolDies ==
    /\ ~At("off")
    /\ Ends("died")
    /\ UNCHANGED <<workerVars, host, invocations>>

ToolStep ==
    \/ ProvisionAccounts \/ ProvisionBase \/ ProvisionUnit \/ ProvisionEnable
    \/ InstallBegins \/ Stop \/ Move \/ Promote \/ WriteUnit \/ Start \/ Confirm
    \/ Restore \/ Quarantine \/ Replace \/ RestoreUnit \/ Serve
    \/ ToolDies

Next ==
    \/ ToolStep
    \/ WorkerNext /\ UNCHANGED <<host, tool, invocations>>

Spec == Init /\ [][Next]_vars

-----------------------------------------------------------------------------
(* Properties.                                                             *)

\* The locals of the two main functions.
Tool ==
    [at : {"off", "base", "control", "enable", "stop", "move", "promote", "unit", "start",
           "confirm", "restore", "quarantine", "replace", "restore_unit", "restore_start",
           "recover"},
     found : {"none", "absent", "predecessor", "candidate"},
     moved : BOOLEAN,
     outcome : {"none", "refused", "provisioned", "upgraded", "failed", "rollback_failed", "died"}]

\* Every variable stays in its range (Worker's fields and files, the things on
\* the host the two tools change, and the locals of their main functions).
TypeOK ==
    /\ WorkerTypeOK
    /\ accounts \in {"none", "partial", "full"}
    /\ base \in BOOLEAN /\ backup \in BOOLEAN
    /\ target \in {"absent", "predecessor", "candidate"}
    /\ unit \in {"none", "torn", "foundation", "predecessor", "candidate"}
    /\ running \in {"none", "foundation", "predecessor", "candidate", "absent"}
    /\ tool \in Tool
    /\ invocations \in 0 .. MaxInvocations

\* A worker never serves from a directory that was replaced under it: what the
\* service runs is what is installed, whatever failed, died or was rolled back,
\* and the reviewed outcome a tool prints is the one on the host (a successful
\* install leaves the candidate and its unit, a failed upgrade the predecessor
\* and its unit).
ServiceRunsInstalled ==
    /\ service = "active" => running = target /\ unit # "none"
    /\ tool.outcome = "upgraded" => target = "candidate" /\ unit = "candidate"
    /\ tool.outcome = "failed" /\ tool.found = "predecessor" =>
          target = "predecessor" /\ unit = "predecessor"

\* The approved predecessor, once on the host, is never lost: it is in TARGET or
\* in the backup that restore_predecessor verifies before it touches TARGET.
PredecessorIsKept ==
    [][target = "predecessor" \/ backup => target' = "predecessor" \/ backup']_vars
=============================================================================
