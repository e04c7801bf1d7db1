----------------------------- MODULE SelfUpdate -----------------------------
(***************************************************************************)
(* Replacement of the agent's own executable on one Windows endpoint       *)
(* (agent/internal/selfupdate, agent/internal/service/selfupdate.go).      *)
(*                                                                         *)
(* An update command journals the attempt, backs the executable up, swaps  *)
(* the new build in, journals again and asks for a restart.  The next      *)
(* start resolves the attempt: it checks the health of the build that came *)
(* up, and commits it or restores the backup, then reports the outcome.    *)
(* Every durable write is a step of its own, so a crash can come between   *)
(* any two; a failing write is a fault the code handles.                   *)
(*                                                                         *)
(* A build is a version number, and a file's digest is the build in it.    *)
(* Downloading and verifying the artifact change nothing that lasts and    *)
(* are part of BeginUpdate's guard.                                        *)
(***************************************************************************)
EXTENDS Naturals

CONSTANTS
  NumVersions,        \* builds 1 (installed) .. NumVersions
  MaxHealthAttempts,  \* selfupdate.maxHealthAttempts
  (* bounds of the model *)
  MaxUpdates,
  MaxRollbacks,       \* operator-requested rollbacks
  MaxUpdateCrashes,
  MaxFaults           \* file operations and restart requests that fail

ASSUME SelfUpdateConstants ==
  /\ NumVersions \in Nat /\ NumVersions > 0
  /\ MaxHealthAttempts \in Nat /\ MaxUpdates \in Nat /\ MaxRollbacks \in Nat
  /\ MaxUpdateCrashes \in Nat /\ MaxFaults \in Nat

Versions == 1..NumVersions
Missing  == 0                 \* no file, or no process
Partial  == NumVersions + 1   \* a file whose copy was cut short

InFlight == {"staged", "installed"}
Resolved == {"committed", "rolled_back", "failed"}

\* update-journal.json.  id is the attempt (0: an operator's rollback); the
\* backup path is derived from the version the attempt started from.
Journal ==
  [state : {"none"} \cup InFlight \cup Resolved, id : Nat, from : Nat, to : Nat,
   digest : Nat, attempts : Nat]
NoJournal == [state |-> "none", id |-> 0, from |-> Missing, to |-> Missing,
              digest |-> Missing, attempts |-> 0]

\* previous.json: the build an operator can go back to.
Previous == [state : {"none", "corrupt", "kept"}, version : Nat, digest : Nat]
NoPrevious == [state |-> "none", version |-> Missing, digest |-> Missing]
Corrupt    == [NoPrevious EXCEPT !.state = "corrupt"]

VARIABLES
  exe,          \* the build at ExePath
  journal,
  backup,       \* the backup files, by the version in their name
  previousBuild,
  running,      \* the build of the running process
  step,
  verdict,      \* the outcome Resolve returned
  restartDue,   \* a restart was requested and has not happened
  \* history
  proven,       \* builds that completed a check-in
  checks,       \* health checks begun for the current attempt
  reports,      \* outcomes the server accepted
  unrestored,   \* a backup could not be restored
  torn,         \* a crash fell inside the swap, or before it was journalled
  \* bounds
  updates, rollbacks, updateCrashes, faults

files   == <<exe, journal, backup, previousBuild>>
process == <<running, step, verdict, restartDue>>
history == <<proven, checks, reports, unrestored, torn>>
bounds  == <<updates, rollbacks, updateCrashes, faults>>
updateVars    == <<files, process, history, bounds>>

Updating  == {"backup", "swap", "swapped", "restart"}
Operating == {"restore", "restored", "reboot"}
Resolving == {"start", "check", "commit", "rollback", "rolledBack", "report", "ack"}

UpdateTypeOK ==
  /\ exe \in Versions \cup {Missing}
  /\ journal \in Journal
  /\ backup \in [Versions -> Versions \cup {Missing, Partial}]
  /\ previousBuild \in Previous
  /\ running \in Versions \cup {Missing}
  /\ step \in {"down", "loop"} \cup Updating \cup Operating \cup Resolving
  /\ verdict \in {"none"} \cup Resolved
  /\ restartDue \in BOOLEAN
  /\ proven \subseteq Versions
  /\ checks \in Nat
  /\ reports \subseteq [id : Nat, to : Nat, status : Resolved]
  /\ unrestored \in BOOLEAN /\ torn \in BOOLEAN
  /\ updates \in Nat /\ rollbacks \in Nat /\ updateCrashes \in Nat /\ faults \in Nat

\* An installed, working agent that was never updated.
UpdateInit ==
  /\ exe = 1 /\ journal = NoJournal
  /\ backup = [v \in Versions |-> Missing] /\ previousBuild = NoPrevious
  /\ running = 1 /\ step = "loop" /\ verdict = "none" /\ restartDue = FALSE
  /\ proven = {1} /\ checks = 0 /\ reports = {} /\ unrestored = FALSE
  /\ torn = FALSE
  /\ updates = 0 /\ rollbacks = 0 /\ updateCrashes = 0 /\ faults = 0

Goto(l) == step' = l /\ UNCHANGED <<running, verdict, restartDue>>

Fault(n) ==
  /\ faults + n <= MaxFaults
  /\ faults' = faults + n
  /\ UNCHANGED <<updates, rollbacks, updateCrashes>>

SaveJournal(state) == journal' = [journal EXCEPT !.state = state]

-----------------------------------------------------------------------------
(***************************************************************************)
(* restoreBackup: the retained build, checked against its digest, replaces *)
(* the executable.                                                         *)
(***************************************************************************)
Restorable(label, digest) == backup[label] = digest /\ digest \in Versions

Restore(label, digest) ==
  /\ Restorable(label, digest)
  /\ exe' = digest
  /\ UNCHANGED unrestored

\* atomicReplace fails: the executable is moved away, the new one cannot be moved in,
\* and the first is put back.  That it may fail to be put back is ignored.
ReplaceFails(n) ==
  \/ Fault(n) /\ UNCHANGED exe
  \/ Fault(n + 1) /\ exe' = Missing

\* The attempt's backup is refused, which is no fault, or not restored; n faults
\* happen in the step, the failing restore one of them.
RestoreFails(n) ==
  /\ \/ ~Restorable(journal.from, journal.digest) /\ Fault(n - 1) /\ UNCHANGED exe
     \/ Restorable(journal.from, journal.digest) /\ ReplaceFails(n)
  /\ unrestored' = TRUE

-----------------------------------------------------------------------------
(***************************************************************************)
(* executeUpdate.                                                          *)
(***************************************************************************)

\* Mutated form: only a swap that is pending blocks an update.
MutMayUpdate(v) == v > running /\ journal.state # "staged"

\* Anti-rollback, and one attempt at a time.
MayUpdate(v) == v > running /\ journal.state \notin InFlight

\* The artifact is downloaded and verified; the attempt is journalled.
BeginUpdate(v) ==
  /\ step = "loop" /\ updates < MaxUpdates
  /\ MayUpdate(v)
  /\ updates' = updates + 1
  /\ journal' = [NoJournal EXCEPT !.state = "staged", !.id = updates + 1,
                                  !.from = running, !.to = v]
  /\ checks' = 0
  /\ Goto("backup")
  /\ UNCHANGED <<exe, backup, previousBuild, proven, reports, unrestored, torn,
                 rollbacks, updateCrashes, faults>>

\* backupCurrent, then the digest of the copy is journalled.
Backup ==
  /\ step = "backup" /\ exe # Missing
  /\ backup' = [backup EXCEPT ![journal.from] = exe]
  /\ journal' = [journal EXCEPT !.digest = exe]
  /\ Goto("swap")
  /\ UNCHANGED <<exe, previousBuild, history, bounds>>

\* There is nothing to copy, the copy fails, or its digest cannot be journalled.
BackupFails ==
  /\ step = "backup" /\ Goto("loop")
  /\ \/ /\ exe = Missing /\ UNCHANGED backup
        /\ \/ Fault(0) /\ SaveJournal("failed")
           \/ Fault(1) /\ UNCHANGED journal
     \/ /\ exe # Missing
        /\ \E b \in {Partial, backup[journal.from]} :
             backup' = [backup EXCEPT ![journal.from] = b]
        /\ \/ Fault(1) /\ SaveJournal("failed")
           \/ Fault(2) /\ UNCHANGED journal
     \/ /\ exe # Missing
        /\ backup' = [backup EXCEPT ![journal.from] = exe]
        /\ Fault(1) /\ UNCHANGED journal
  /\ UNCHANGED <<exe, previousBuild, history>>

Swap ==
  /\ step = "swap"
  /\ exe' = journal.to
  /\ Goto("swapped")
  /\ UNCHANGED <<journal, backup, previousBuild, history, bounds>>

\* The replacement fails and the backup is restored on top.  Of the two failing
\* replacements one at least must also fail to be undone to leave no executable.
SwapFails ==
  /\ step = "swap" /\ Goto("loop")
  /\ \E n \in {1, 3} :
       /\ exe' = IF n = 1 THEN journal.digest ELSE Missing
       /\ \/ Fault(n) /\ SaveJournal("failed")
          \/ Fault(n + 1) /\ UNCHANGED journal
  /\ UNCHANGED <<backup, previousBuild, history>>

SaveInstalled ==
  /\ step = "swapped"
  /\ SaveJournal("installed")
  /\ Goto("restart")
  /\ UNCHANGED <<exe, backup, previousBuild, history, bounds>>

\* Mutated form: the new build stays when the journal cannot be written.
MutSaveInstalledFails ==
  /\ step = "swapped" /\ Goto("loop")
  /\ Fault(1)
  /\ UNCHANGED <<files, history>>

\* The journal cannot be written: the previous build is put back.
SaveInstalledFails ==
  /\ step = "swapped" /\ Goto("loop")
  /\ \/ Fault(1) /\ Restore(journal.from, journal.digest)
     \/ RestoreFails(2)
  /\ UNCHANGED <<journal, backup, previousBuild, proven, checks, reports, torn>>

\* Mutated form: nobody restarts the service.
MutRequestRestart ==
  /\ step = "restart"
  /\ Goto("loop")
  /\ UNCHANGED <<files, history, bounds>>

RequestRestart ==
  /\ step = "restart"
  /\ restartDue' = TRUE /\ step' = "loop"
  /\ UNCHANGED <<files, running, verdict, history, bounds>>

\* The restart cannot be requested: roll back at once.
RequestRestartFails ==
  /\ step = "restart" /\ Goto("loop")
  /\ \/ /\ Restore(journal.from, journal.digest)
        /\ \/ Fault(1) /\ SaveJournal("rolled_back")
           \/ Fault(2) /\ UNCHANGED journal
     \/ RestoreFails(2) /\ SaveJournal("failed")
     \/ RestoreFails(3) /\ UNCHANGED journal
  /\ UNCHANGED <<backup, previousBuild, proven, checks, reports, torn>>

-----------------------------------------------------------------------------
(***************************************************************************)
(* executeRollback: an operator goes back to the retained previous build.  *)
(***************************************************************************)
BeginRollback ==
  /\ step = "loop" /\ rollbacks < MaxRollbacks
  /\ previousBuild.state = "kept"
  /\ rollbacks' = rollbacks + 1
  /\ Goto("restore")
  /\ UNCHANGED <<files, history, updates, updateCrashes, faults>>

RollbackRestore ==
  /\ step = "restore"
  /\ Restore(previousBuild.version, previousBuild.digest)
  /\ Goto("restored")
  /\ UNCHANGED <<journal, backup, previousBuild, proven, checks, reports,
                 torn, bounds>>

\* A refused restore changes nothing; one that fails, and is not undone, leaves no
\* executable.
RollbackRefused ==
  /\ step = "restore" /\ Goto("loop")
  /\ \/ ~Restorable(previousBuild.version, previousBuild.digest) /\ UNCHANGED <<exe, bounds>>
     \/ Restorable(previousBuild.version, previousBuild.digest) /\ ReplaceFails(1)
  /\ UNCHANGED <<journal, backup, previousBuild, history>>

RollbackSave ==
  /\ step = "restored"
  /\ journal' = [NoJournal EXCEPT !.state = "rolled_back", !.from = running,
                   !.to = previousBuild.version, !.digest = previousBuild.digest]
  /\ Goto("reboot")
  /\ UNCHANGED <<exe, backup, previousBuild, history, bounds>>

RollbackSaveFails ==
  /\ step = "restored" /\ Goto("loop")
  /\ Fault(1)
  /\ UNCHANGED <<files, history>>

RollbackRestart ==
  /\ step = "reboot" /\ step' = "loop"
  /\ \/ restartDue' = TRUE /\ UNCHANGED bounds
     \/ Fault(1) /\ UNCHANGED restartDue
  /\ UNCHANGED <<files, running, verdict, history>>

-----------------------------------------------------------------------------
(***************************************************************************)
(* The process ends and starts again.                                      *)
(***************************************************************************)
Stopped == step' = "down" /\ running' = Missing /\ verdict' = "none"

\* The detached helper stops the service once the agent is between commands.
ServiceStopped ==
  /\ step = "loop" /\ restartDue
  /\ Stopped /\ restartDue' = FALSE
  /\ UNCHANGED <<files, history, bounds>>

Crashed ==
  /\ step # "down" /\ updateCrashes < MaxUpdateCrashes
  /\ updateCrashes' = updateCrashes + 1
  /\ Stopped
  /\ UNCHANGED <<restartDue, proven, checks, reports, unrestored, updates, rollbacks,
                 faults>>

UpdateCrash ==
  /\ Crashed
  /\ torn' = (torn \/ step = "swapped")
  /\ UNCHANGED files

\* A copy or a write in place is cut short.
CrashWhileWriting ==
  /\ Crashed
  /\ \/ /\ step = "backup" /\ exe # Missing
        /\ \E b \in {Partial, exe} : backup' = [backup EXCEPT ![journal.from] = b]
        /\ UNCHANGED previousBuild
     \/ step = "check" /\ previousBuild' = Corrupt /\ UNCHANGED backup
  /\ UNCHANGED <<exe, journal, torn>>

\* replaceRunningBinary moves the executable away before it moves the new one
\* in; the crash comes between the two renames.
CrashWhileReplacing ==
  /\ step \in {"swap", "rollback", "restore"}
  /\ Crashed
  /\ exe' = Missing /\ torn' = TRUE
  /\ UNCHANGED <<journal, backup, previousBuild>>

ServiceStart ==
  /\ step = "down" /\ exe # Missing
  /\ running' = exe /\ step' = "start"
  /\ UNCHANGED <<files, verdict, restartDue, history, bounds>>

-----------------------------------------------------------------------------
(***************************************************************************)
(* Resolve, once per start.                                                *)
(***************************************************************************)

ReportAs(v) == step' = "report" /\ verdict' = v /\ UNCHANGED <<running, restartDue>>

ResolveNothing ==
  /\ step = "start" /\ journal.state = "none"
  /\ Goto("loop")
  /\ UNCHANGED <<files, history, bounds>>

\* The attempt was interrupted before the swap was journalled.
ResolveStaged ==
  /\ step = "start" /\ journal.state = "staged"
  /\ SaveJournal("failed")
  /\ ReportAs("failed")
  /\ UNCHANGED <<exe, backup, previousBuild, history, bounds>>

ResolveTerminal ==
  /\ step = "start" /\ journal.state \in Resolved
  /\ ReportAs(journal.state)
  /\ UNCHANGED <<files, history, bounds>>

\* Mutated form: the start is counted when the health check has returned.
MutCounted(j) == j

\* This start is counted before the check, so that a crash counts as well.
Counted(j) == [j EXCEPT !.attempts = @ + 1]

\* resolveInstalled up to the health check.
ResolveInstalled ==
  /\ step = "start" /\ journal.state = "installed"
  /\ journal' = Counted(journal)
  /\ \/ /\ Goto("rollback") /\ UNCHANGED checks   \* also: the deadline has passed
     \/ /\ running = journal.to /\ journal'.attempts <= MaxHealthAttempts
        /\ Goto("check") /\ checks' = checks + 1
  /\ UNCHANGED <<exe, backup, previousBuild, proven, reports, unrestored,
                 torn, bounds>>

\* The journal cannot be written: the attempt stays as it is.
ResolveFails ==
  /\ step \in {"start", "commit", "rolledBack"}
  /\ step = "start" => journal.state \in InFlight
  /\ Goto("loop")
  /\ Fault(1)
  /\ UNCHANGED <<files, history>>

\* A completed check-in; the backup becomes the retained previous build.
HealthPasses ==
  /\ step = "check"
  /\ proven' = proven \cup {running}
  /\ \/ /\ previousBuild' = [state |-> "kept", version |-> journal.from,
                        digest |-> journal.digest]
        /\ Goto("commit") /\ UNCHANGED bounds
     \/ previousBuild' \in {Corrupt, previousBuild} /\ Goto("loop") /\ Fault(1)
  /\ UNCHANGED <<exe, journal, backup, checks, reports, unrestored, torn>>

\* Mutated form: an outcome that could not be journalled is reported.
MutCommit ==
  /\ step = "commit"
  /\ ReportAs("committed")
  /\ UNCHANGED <<files, history, bounds>>

Commit ==
  /\ step = "commit"
  /\ SaveJournal("committed")
  /\ ReportAs("committed")
  /\ UNCHANGED <<exe, backup, previousBuild, history, bounds>>

HealthFails ==
  /\ step = "check"
  /\ Goto("rollback")
  /\ UNCHANGED <<files, history, bounds>>

\* rollback restores the backup ...
Rollback ==
  /\ step = "rollback"
  /\ Restore(journal.from, journal.digest)
  /\ Goto("rolledBack")
  /\ UNCHANGED <<journal, backup, previousBuild, proven, checks, reports,
                 torn, bounds>>

\* ... or gives up,
RollbackFails ==
  /\ step = "rollback"
  /\ \/ RestoreFails(1) /\ SaveJournal("failed")
     \/ RestoreFails(2) /\ UNCHANGED journal
  /\ ReportAs("failed")
  /\ UNCHANGED <<backup, previousBuild, proven, checks, reports, torn>>

\* ... journals it and asks for a restart, which may be refused.
RolledBack ==
  /\ step = "rolledBack"
  /\ SaveJournal("rolled_back")
  /\ step' = "report" /\ verdict' = "rolled_back"
  /\ \/ restartDue' = TRUE /\ UNCHANGED bounds
     \/ Fault(1) /\ UNCHANGED restartDue
  /\ UNCHANGED <<exe, backup, previousBuild, running, history>>

\* resolveSelfUpdate reports the outcome; the answer may be lost.
Report ==
  /\ step = "report"
  /\ reports' = reports \cup {[id |-> journal.id, to |-> journal.to, status |-> verdict]}
  /\ \/ step' = "ack" \/ step' = "loop"
  /\ verdict' = "none"
  /\ UNCHANGED <<files, running, restartDue, proven, checks, unrestored, torn,
                 bounds>>

ReportLost ==
  /\ step = "report"
  /\ step' = "loop" /\ verdict' = "none"
  /\ UNCHANGED <<files, running, restartDue, history, bounds>>

\* Acknowledge: a resolved attempt is cleared once the server has it.
Acknowledge ==
  /\ step = "ack"
  /\ journal' = IF journal.state \in InFlight THEN journal ELSE NoJournal
  /\ Goto("loop")
  /\ UNCHANGED <<exe, backup, previousBuild, history, bounds>>

AcknowledgeFails ==
  /\ step = "ack"
  /\ Goto("loop")
  /\ Fault(1)
  /\ UNCHANGED <<files, history>>

-----------------------------------------------------------------------------
Update == Backup \/ BackupFails \/ Swap \/ SwapFails \/ SaveInstalled
            \/ SaveInstalledFails \/ RequestRestart \/ RequestRestartFails

OperatorRollback == RollbackRestore \/ RollbackRefused \/ RollbackSave
                      \/ RollbackSaveFails \/ RollbackRestart

Resolve == ResolveNothing \/ ResolveStaged \/ ResolveTerminal \/ ResolveInstalled
             \/ ResolveFails \/ HealthPasses \/ Commit \/ HealthFails \/ Rollback
             \/ RollbackFails \/ RolledBack \/ Report \/ ReportLost
             \/ Acknowledge \/ AcknowledgeFails

Service == ServiceStopped \/ ServiceStart

UpdateNext ==
  \/ \E v \in Versions : BeginUpdate(v)
  \/ BeginRollback
  \/ Update \/ OperatorRollback \/ Resolve \/ Service
  \/ UpdateCrash \/ CrashWhileWriting \/ CrashWhileReplacing

UpdateSpec == UpdateInit /\ [][UpdateNext]_updateVars

\* A command that was begun goes on, Resolve goes on, and the service manager
\* stops and starts the service it was asked to.
FairUpdateSpec ==
  UpdateSpec /\ WF_updateVars(Update) /\ WF_updateVars(OperatorRollback)
             /\ WF_updateVars(Resolve) /\ WF_updateVars(Service)

-----------------------------------------------------------------------------
(***************************************************************************)
(* Properties.                                                             *)
(***************************************************************************)

\* While a build is on trial, the backup the rollback would restore is intact,
\* and holds a build that has worked (executeUpdate, resolveInstalled).
TrialCanBeUndone ==
  journal.state = "installed" /\ ~unrestored /\ ~torn =>
    Restorable(journal.from, journal.digest) /\ journal.digest \in proven

\* Outside an attempt the installed build is one that has worked, unless a backup
\* could not be restored or a crash fell in the swap; and, but for such a crash,
\* there is an executable unless a replacement failed and so did undoing it
\* (replaceRunningBinary ignores that error).
OnlyProvenBuildsKept ==
  /\ journal.state \notin InFlight /\ ~unrestored /\ ~torn => exe \in proven \cup {Missing}
  /\ exe = Missing /\ ~torn => faults > 1

\* A build that crashes during its health check is not tried forever:
\* maxHealthAttempts bounds the checks of one attempt over all restarts.
TrialsBounded == checks <= MaxHealthAttempts

\* The server never gets two different outcomes of one attempt, and "succeeded"
\* only for one whose build completed a check-in, through crashes between
\* resolving, reporting and clearing the journal.
OneVerdict ==
  /\ ~unrestored => \A r, s \in reports : r.id = s.id /\ r.id # 0 => r.status = s.status
  /\ \A r \in reports : r.status = "committed" => r.to \in proven

\* A build on trial is committed or undone, unless a file operation failed or
\* a crash left no executable to start.
TrialEnds ==
  journal.state = "installed" ~> journal.state # "installed" \/ faults > 0 \/ exe = Missing
=============================================================================
