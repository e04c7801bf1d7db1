# Verification of NodeLink RMM

NodeLink is a remote monitoring and management system: a Go agent on every
endpoint (`src/agent`), a FastAPI server with a PostgreSQL database
(`src/server/app`) and a Next.js dashboard (`src/dashboard`). Operators queue
signed commands on the server; agents poll with heartbeats, execute what they
are handed and upload results. Around that path the server authorizes
commands, signs operators in, evaluates monitoring results, notifies, rolls
releases out, schedules work, relays shells and chats, and keeps tamper-evident
records of it all. This directory holds TLA+ models of the parts in which
ordering, failure and retries decide correctness, the TLC runs that check them
on small instances, and TLAPS proofs of most of the safety properties for every
instance.

## Inventory

| Component | State | Operations | Hard behaviour | Module |
| --- | --- | --- | --- | --- |
| Command rows and delivery (`api/agents.py`, `api/management.py`) | `commands` rows: status, result, issue and dispatch time | dispatch, delivery and lease, expiry, pending-result notices, result upload | unlocked selects, overlapping requests, exact retries | `CommandDelivery`, `CommandContract` |
| Trust (`api/management.py`, `api/deps.py`) | `agents.trust_state` | quarantine, restore, revoke | races with heartbeats and uploads | `CommandDelivery`, `CredentialRotation` |
| Command journal (`agent/internal/service/replay.go`) | a JSON file and its copy in memory | reserve, mark executing, store result, acknowledge, requeue, recover, prune | crash between writes; a save that fails before or after the rename | `CommandDelivery` |
| Check-in loop (`agent/internal/service/runner.go`) | one goroutine, a batch, an outbox | prune, heartbeat, flush, execute, stop | lost answers, stop in a batch | `CommandDelivery` |
| Credentials of agents (`api/agents.py`, `api/deps.py`, `runner.go`, `client.go`) | current and overlap token, last nonce, identity file | renew, reattach, fail over, save | lost answers, expiry | `CredentialRotation` |
| Self-update (`agent/internal/selfupdate`) | update journal, executable, backup | swap, roll back, resolve at start | crash between file operations | `SelfUpdate` |
| Approvals and overrides (`core/approvals.py`, `core/emergency_overrides.py`, `api/…`) | policies, requests, decisions, overrides | raise, decide, withdraw, expire, spend, activate, review | double spending, expiry and withdrawal races | `Approvals` |
| Operator accounts, sessions, MFA, break-glass (`api/auth.py`, `api/mfa.py`, `api/admin_sessions.py`, `core/sessions.py`, …) | accounts, sessions, keys, challenges, codes | sign in, step up, enrol, reset, revoke, activate | reuse of one-time proofs, last administrator | `AdminAuth` |
| Monitoring and alerts (`core/monitoring.py`, `api/management.py`) | policies, results, observations, alerts | submit, sweep, open, act, resolve, prune | late, repeated and reordered results | `Alerts`, `Monitoring` |
| Checks on the agent (`agent/internal/monitoring`, `flushMonitoringResults`) | assignments, a bounded outbox on disk | evaluate, keep, upload in batches, acknowledge | lost answers, restarts, new assignments, a full outbox | `CheckOutbox` |
| Notifications (`core/email_notifications.py`, `core/webhook_notifications.py`, `core/tasks.py`) | outbox rows, claims | enqueue, claim, send, retry, recover | a sender that dies between sending and recording | `Notifications` |
| Rollouts (`api/agent_updates.py`, `core/agent_updates.py`) | releases, attempts | publish, advance, pause, resume, halt, report | late reports, halt rule, stale commits | `Rollouts` |
| Relays, residency, signing keys (`api/relays.py`, `core/relays.py`, `core/keyring.py`, `agent/internal/client/routes.go`) | regions, relays, keys, policies, receipts, manifests, routes | register, rotate, drain, verify, fail over, adopt | replayed forwards, routes that go stale | `RelayRouting` |
| Scheduled tasks (`core/scheduler.py`, `api/scheduled_tasks.py`) | tasks, next run | create, edit, toggle, run now, dispatch | double or skipped dispatch | `Scheduler` |
| Patch policies and compliance (`core/patch_policies.py`, `core/patch_compliance.py`, `core/inventory.py`) | policies, revisions, snapshots | edit, gate, report | two readers of one rule set | `PatchPolicies` |
| Shell sessions (`api/shell_sessions.py`, `core/shell_relay.py`, `agent/.../shell_session.go`, the dashboard's panel) | rows, the in-memory relay, sequence numbers | open, attach, type, print, poll, close, sweep | three parties, retries, restart of the server | `ShellSession` |
| Support chat (`core/support_chat.py`, `api/support_chat.py`) | conversations, tokens, messages | open, launch, renew, write, close, prune | tokens that outlive a conversation | `SupportChat` |
| Audit chain and anchors (`core/audit.py`, `core/anchor.py`, `core/anchor_publish.py`) | hash chain, anchors, documents on a medium | record, anchor, publish, verify | concurrent append, crash between put and commit | `AuditChain` |
| Evidence (`core/evidence_bundles.py`, `core/evidence_packages.py`, `core/evidence_vault.py`) | records, holds, objects in storage | build, store, hold, release, verify, dispose, sweep | storage and rows change at different times | `EvidenceVault` |
| Enrollment (`core/enrollment.py`, `api/agents.py`, `api/management.py`, `runner.go`, `config.go`) | tokens, agent rows, config and identity files | mint, revoke, redeem, save, drop the token | redemptions at once without a lock, lost answers, failed saves | `Enrollment` |
| Command envelope, retention, rate limits | rows | sign, prune | | partly, see below |
| Dashboard, assistant, script library, MeshCentral, endpoint actions, redaction, metrics | | | mostly I/O | not modelled |

The components interact through four channels. HTTP requests of the agent
carry everything between agent and server, and any of them can be lost,
answered in vain, or still be served after the agent gave up. The database is
shared by all requests; a request is one transaction under READ COMMITTED,
objects that were selected without `FOR UPDATE` are not locked, and the ORM
writes the attributes that changed, from what was loaded, at flush or commit.
Most handlers end with an audit event, whose advisory lock serializes the ends
of handlers but not their reads. Outside stores (the evidence bucket, the anchor
medium, the mail and webhook receivers) change at once and are not undone by a
rollback. The agent's files are the only thing that survives a restart of the
agent.

What makes the system correct:

* a command runs at most once, is answered at most once and truly, and is never
  forgotten; every command resolves once faults stop;
* an agent never loses the credential the server knows, and an update of the
  agent ends with a build that has worked;
* a governed command is the one that was reviewed, an authorization is spent
  once and never after it ended;
* each second factor proves one thing, emergency access does not extend itself,
  an administrator remains;
* what a check found reaches the server, alerts follow the newest results
  whatever order they come in, and each of their notifications ends;
* every agent row is accounted for by a use of a token and a request for it;
* failures halt a release and the halt holds; an endpoint stays in reach and no
  forwarded request is served twice;
* due work runs once and compliance agrees with the gate;
* what is typed and printed arrives in order, sessions end, a closed
  conversation stays closed;
* the audit chain has no fork, anchors and bundles verify, evidence is destroyed
  only when nothing held it, and damage is found.

## Modules

Conventions shared by the server modules. A handler that reads without a lock
and writes at its commit is two steps, and the steps of other handlers come in
between; a handler that locks what it reads is one. A `txns`, `handlers`,
`changes` or `passes` variable holds the handlers in between, each with what it
loaded. Commits write column by column from what was loaded, as the ORM does,
and a conditional UPDATE looks at the row again. Refused requests change nothing
and are guards. `budget` (module `Instances`, or a variable of the same shape)
is the instance being checked: how often each class of step that nothing else
bounds may happen. It is no part of the system.

### CommandDelivery and CommandContract

The command path of one agent: server rows, heartbeats, results, journal and
agent process.

| Variable | Code |
| --- | --- |
| `rows` | `commands` table with the envelope version each row was signed under; `expires_at` is `issuedAt + TTL` |
| `trust` | `agents.trust_state` |
| `known`, `speaks` | the envelope version in `agents.command_envelope_versions`, and the one the server selects for the build that runs (`select_command_envelope_version`), `none` if there is none |
| `hb` | open heartbeat requests: their notices, and once read, the writes they will issue |
| `revoking`, `revokeRows` | an open `revoke_agent` transaction and the rows it read |
| `late` | uploads the agent gave up on that may still arrive |
| `serverClock`, `agentClock` | two independent clocks, arbitrary skew |
| `disk`, `mem` | the journal file and `SeenStore.entries`; `nonces` are the `nonce:` entries |
| `pc`, `cur`, `batch`, `outbox`, `held`, `beat`, `stopping` | where `checkIn` and `processCommand` are, and their local variables |
| `execCount`, `outcome`, `completions` | history: processes started, what they returned, `command.completed` audit events |

A heartbeat is `HeartbeatRead` (authentication, notices selected FOR UPDATE,
the deliverable query) and `HeartbeatCommit` (the updates), because the
deliverable rows are not locked in between; a row that was redelivered gets
only its `dispatched_at` written, since its status does not change. A revocation
is split in the same way. `submit_result` locks its row first and is one step.
A quarantine or a restore checks the state it read without a lock, long before its
commit perhaps, so its commit is the step and is guarded only by what some request
can have read; the same holds in `CredentialRotation`, there also of a revocation.
A heartbeat looks only at the rows of the version selected for what the agent says
it speaks, which changes with the build (`Start`).
Row locks of open transactions (`Locked`) block the steps that need the same
rows.

The agent is one goroutine. Each durable journal write is a step of its own,
with a failing twin (`...Fails`): memory is rolled back and the file is the old
one or, when only the step after the rename failed, the new one. `Crash` may
happen anywhere. `Execute` is the whole life of the process a command starts.
Signature, key and identity checks are one unconstrained refusal (`Refusals`);
the time window and the replay check are modelled exactly.

`CommandContract` is what an operator may rely on: a command is issued, runs at
most once while its answer is open, and gets one final answer, which is true.
`CommandDelivery` implements it under the mapping `ran` = what the process
returned and `answer` = `RecordedAnswer`, the terminal status and result of the
row. A pending or dispatched row is open until a heartbeat or an upload writes
it off. The operator's list shows such a row as expired as soon as its time is
over (`_effective_command_status`), which can precede a result that still
arrives; the contract is about what is recorded.

### CredentialRotation

The bearer credential of one agent: the row's current and overlap slots, the
last rotation nonce, rotation requests, the identity file and the agent's copy.
`RenewRead` and `RenewCommit` are separate because `renew_agent_credential`
does not lock the row; `reattach_agent_credential` does and is one step. Trust changes are
commits of requests that read any earlier state, as in `CommandDelivery`.
`Failover` is `client.do` sending the same request on the next route.
`SaveFails` is `Identity.Save` failing before the rename or, for the access
list, after it. Tokens and nonces are small numbers: the generators return a
value nobody holds, and a value nobody holds any more may be used again, which
is sound because tokens are only compared for equality.

### SelfUpdate

The replacement of the agent's executable on one Windows endpoint.

| Variable | Code |
| --- | --- |
| `exe` | the file at `ExePath` (`Missing`: none) |
| `journal` | `update-journal.json`; `id` stands for the command that began the attempt |
| `backup` | the `.bak` files, one per version label |
| `previousBuild` | `previous.json`, none, readable or cut short |
| `running`, `step`, `verdict` | the process: its version, where it is, the outcome `Resolve` returned |
| `restartDue` | the detached helper was started and has not stopped the service yet |
| `proven`, `checks`, `reports`, `unrestored`, `torn` | history: builds that completed a check-in, health checks of the attempt, outcomes the server accepted, a restore failed, a crash fell inside a swap |

A build is its version, and a file's digest is the build in it. Every durable
write is a step, so `UpdateCrash` can come between any two; `CrashWhileWriting` cuts
a copy or `previous.json` short and `CrashWhileReplacing` comes between the two
renames of the Windows swap. `...Fails` actions are the error paths, each with
the number of file operations that failed in it; a replacement that fails puts the
executable back, and the error of that, which the code ignores, is one more fault
and leaves none (`ReplaceFails`). `Resolve` is split where it writes. Downloading
and verifying an artifact change nothing that lasts; they and the checks of the
payload are the guard of `BeginUpdate`. An unreadable
journal is left out: `saveJournal` writes aside, syncs and renames.
`CommandDelivery` sees an update as the execution of one command.

### Approvals

Policies, requests with their decisions, overrides, commands, and the accounts
whose rights decide who may ask and review. `txns` are the handlers that have
read: raising, withdrawing, editing and deleting a policy, the expiry sweep,
activating, revoking and reviewing an override, and dispatching. A decision
locks its request and is one step. The commit of a dispatch re-checks by a
conditional UPDATE (`_spend_approval`, and its twin for overrides), and the
deadline is compared with the time the handler read. A command is bound to
agent, kind and payload (`binding_digest`).

### AdminAuth

Accounts, sessions and bearer tokens, security keys, challenges, recovery codes,
mailed codes, the break-glass account and its activations, and the sign-in
limiters. `uses` is history: what each one-time proof was accepted for. Every
operation of `auth.py`, `mfa.py` and `admin_sessions.py` that changes one of
them is an action or a pair of actions; a ceremony's cryptography is a predicate
(the proof is the one of this challenge and key). A session that ends stays as a
row until it is purged, as in the code.

### Alerts, Notifications, CheckOutbox and Monitoring

`Alerts` has the policies with their revisions, maintenance windows, results
made by the agent or by the server, the rows of `check_results` and
`alert_observations`, and the alerts with their event history. The agent's
evaluator is an input there: it reports anything, and a report may arrive any
number of times, late and out of order. A submission and a sweep read the policy first
and write later. An alert is locked by whoever changes it. `Notifications` has
the outbox rows, the webhook endpoints and the senders: a sender claims due rows
(one transaction), sends each outside of any, and records each outcome in one of
its own; a claim whose lease is over is recovered. Times are kept as time left.
`received` and `unknown` are history.

`CheckOutbox` is the agent's side: `told` are the assignments of the latest
heartbeat, `outbox` and `checkStates` the store on disk, `loop` the place in the
check-in. `Evaluate` is the whole pass (superseded results and states dropped, due
checks evaluated while there is room, one save), and a batch is taken or refused
by the server as a whole. Every change is saved before the agent goes on and a
failed save ends the process, so memory and file are one variable. The endpoint's
clock may be ahead of the server's (`lead`), so a result's age may be negative; one
dated too far ahead is refused until the server's clock gets there (`FromTheFuture`),
one that is too old for good (`TooOld`). `Monitoring`
composes the two sides; what lies between them is in each, because `Alerts` takes
results late, twice and in any order.

### Rollouts, RelayRouting, Enrollment and Fleet

`Rollouts`: releases with state and percentage, attempts per endpoint, versions
as the server and the endpoint know them, reports under way. Eligibility,
version order and buckets are the code's; the bucket's hash is a constant. `issued`
and `reached` (the widest stage a committed call asked for) are history.
Operators' handlers are two steps; a report is one, since it counts under the
lock of the audit chain.

`RelayRouting`: regions, relays and their keys, the residency policy, the
registry of command keys, forwarded requests with their receipts, and the
endpoint's routes with cooldowns, its trusted keys and its identity file. The
relay service itself is not in the repository and is an input: it forwards a
signed request any number of times, late or twice. Time is kept as ages and as
time left, so a run is not cut short by a clock that ends.

`Enrollment`: tokens, agent rows in the order of their insertion, requests the
server is handling, and the machines with their config and identity files. A
redemption reads the time, reads and checks the token, and consumes it by a
conditional UPDATE in the transaction that inserts the agent; `budget.rowLocks`
says whether the read locks the row (PostgreSQL) or not (SQLite). `abandoned` is
history: requests whose answer never reached the machine's disk.

`Fleet` composes the three. An enrollment creates the identity the others begin
with, rollouts and routes share only the endpoint's heartbeat, so a step of one
leaves the others' variables unchanged.

### Scheduler and PatchPolicies

`PatchPolicies` translates the rules as operators: which policy applies, what the
first matching rule decides, whether a window is open, what the gate answers to
an installation, what the compliance report says. A snapshot is a list, in which a name
stands for its last row (`NamedRow`), as in the gate's dictionaries. `Scheduler` has
cron fields, next runs and time zones, tasks and the passes over due ones: a pass
reads, decides and commits once at the end; run-now is a pass of its own. The day of
the month, the month and the weekday of an expression are the days they select
together; where those leave no next run within the search (`SearchDays`) the pass
raises and undoes all it did (`Raises`). An edit or a toggle is two steps as well:
it reads the task and computes a next run from its own time, and writes the columns it
changed at its commit (`edit_commits`), whatever passes committed in between. What a pass
queues is stated as a relation: of its `Candidates` (no misfire, no approval policy,
the gate allows it) it chooses those that the concurrency rule does not hold back
(`HeldBack`: unfinished work of the kind, or work queued for a task taken before),
in any order of the tasks. `ran`, `repeats` and `overtaken` are history.

### SupportChat and ShellSession

`SupportChat`: conversations, the token whose hash the row holds, tokens handed
to somebody (`issued`, history), openings and the heartbeat that hold a lock
across other work. A launch token is a function of the conversation and its
expiry; every other token is random. `ShellSession`: rows, the relay in the
memory of the server process, the endpoint's loop with its shell, and the
operator's page. A handler changes the relay first and commits the row with its
answer, which may be lost; a restart of the server loses the relays and the
handlers. A read answers with at most `ReadLimit` frames, which may be fewer than
are kept (`After`).

### AuditChain and EvidenceVault

`AuditChain`: committed events, the events of open transactions, anchors with
their publication, and the documents on the medium. A digest is what it is computed
from: that of an event is the list of everything up to it, that of an anchor the tree
over its events. So a fork or a changed prefix is visible as inequality.
`EvidenceVault` extends it: records, legal holds, the objects in storage, and
handlers with the steps between their storage calls and their commit. Every
operation of the vault also records its audit event through `AuditChain`.

### Proof modules

The theorems below are in `CommandProofs` (about `CommandDelivery` and the
`Scheduler`), `AgentProofs` (`CredentialRotation` and `SelfUpdate`), `ApprovalsProofs`,
`AdminAuthProofs`, `FleetProofs`, `MonitoringProofs` (`Alerts` and `Notifications`, which
`Monitoring` composes with the outbox), `RemoteSupportProofs` (`ShellSession` and the
`SupportChat` it extends) and `EvidenceProofs` (`AuditChain` and the `EvidenceVault`
that extends it). The `MC...` modules give the instances.

## Runs

| Run | Properties | What it shows |
| --- | --- | --- |
| `delivery_overlap` | `AtMostOnce`, `NoResultLost`, `ResultsAreTrue` | two open heartbeats, redelivery, revocation and a crash: a command starts at most once, its result is owed until recorded, what is recorded is what ran |
| `delivery_serial` | `ImplementsContract` | two commands, two failing journal writes and a late upload, heartbeats one at a time: the whole path refines `CommandContract` |
| `delivery_progress` | `EveryCommandResolves`, `OutboxDrains` | under fairness, with a crash or a stop, a quarantine and a change of build |
| `credential_serial` | `HeldCredentialKnown`, `CurrentAgain` | one rotation request at a time, lost answers, failed saves, a crash |
| `self_update` | `TrialCanBeUndone`, `OnlyProvenBuildsKept`, `TrialsBounded`, `OneVerdict`, `TrialEnds` | two updates, an operator's rollback, two crashes, three failing writes or put-backs |
| `approvals` | `AuthorizedCommand`, `NeverRevived` | two handlers at once, policy edits, loss of rights, expiry, withdrawal, overrides |
| `admin_auth` | `SecondFactorOnce`, `EmergencyNeverProvisions`, `AdminRemains` | sign-ins, factors, account changes and emergency access, two handlers at once |
| `alerts` | `ActedOnWhatWasSeen`, `AlertFollowsResults`, `RepeatsExplained`, `EveryNotificationEnds`, `ResultsReported` | repeated, late and reordered results; senders that overlap and die; an outbox with lost answers, restarts, new assignments and a clock that is ahead |
| `fleet` | `OneUpdatePerAgent`, `FailuresHalt`, `HaltHolds`, `ForwardedOnce`, `AgentInReach`, `EnrollmentsAccounted` | two releases and overlapping administrators; relays, keys and policies that change under a polling endpoint; redemptions at once, revocation, lost answers, failed saves |
| `scheduler` | `WorkNotDoubled`, `ComplianceAgrees`, `DueTaskRuns` | passes, run-now, edits that span a pass, the patch gate |
| `remote_support` | `StreamsInOrder`, `ClosedChatShut`, `EverySessionEnds` | retries, lost answers, short reads, reloads, restarts; conversations opened and closed at once |
| `evidence` | `ChainUnbroken`, `NoFalseAlarm`, `DisposalsExplained`, `HoldsReconcile`, `DamageFound` | transactions, anchors and publishers that overlap; storage that fails, handlers that die, objects that are damaged |

Some properties state the exception the code really has, so that they say what
can be relied on:

* `AdminRemains` excepts a commit over a target that was meanwhile promoted or
  enabled, and the disabling of the break-glass account;
* `ResultsReported` excepts an outbox with a result older than the server
  accepts, or dated too far ahead (see below);
* `EveryCommandResolves` excepts a row of another envelope version than the one the
  server selects for the agent (see below);
* `OnlyProvenBuildsKept` and `TrialCanBeUndone` except a restore that failed and a
  crash inside a swap; that there is an executable at all then takes two faults to
  break, a replacement and its undoing;
* `WorkNotDoubled` excepts a task that was given a next run computed before a pass
  that ran it in the meantime (`overtaken`);
* `EnrollmentsAccounted` allows a machine one unused agent row for each request
  whose answer was lost;
* `AlertFollowsResults` excepts from the count an alert one of whose results was
  deleted by retention while the server would still take it (`forgotten`, history);
* `RepeatsExplained` allows one repetition for each attempt whose end nobody saw;
* `FailuresHalt` and `WorkNotDoubled` are about one operator's handler,
  respectively one pass, at a time (`budget.serial`); `HaltHolds` then holds
  without exception, and otherwise a halt is undone only by a handler that had
  loaded the release before the halt;
* `AgentInReach` is about a tenant whose policy is not strict and an origin that is
  up: the endpoint is then out of reach for at most the lifetime of a manifest,
  also behind a relay that hangs;
* `NoFalseAlarm` is about at most one publisher; `DisposalsExplained` about the
  holds the disposal saw;
* `HoldsReconcile` allows a record whose row claims a hold the storage lost, if
  its integrity says `lock_drift`;
* `DueTaskRuns` leaves out installations, which stay due while the patch gate
  refuses them, tasks none of whose targets is in service and free to run them, and
  times at which a due task without a next run makes every pass raise.

### Bounds

*Commands.* `NumCommands` is 1 or 2: the only coupling of commands is the batch
cap, the outstanding cap and the order of a batch, which two exercise with
`MaxBatch = 1`. `TTL = Lease = 1` and `MaxClock = 2` on two independent clocks
reach every order of issue, lease end, expiry and prune. Two open heartbeats are
the smallest number that overlap. One crash or stop reaches every place of the
agent's code; the proof covers any number. Two journal faults let a failed
reservation be followed by a failed refusal or a failed start. `Builds` are the
versions selected for the builds the endpoint may run: one where the question is
what happens to a row that is delivered, both in `delivery_progress`, where rows may
be left behind.

*Credentials.* `Lifetime = 3`, `Overlap = 2`, `Window = 1` keep the code's order;
`MaxClock` lets a credential be renewed, expire and be reattached; `NumTokens`
leaves a fresh token in every state. `Timely` is an assumption: time does not
pass the end of the overlap or of the reattachment window while the agent still
holds a credential that depends on it.

*Self-update.* Three builds give two updates in a row and an older build to go
back to; two crashes exhaust `MaxHealthAttempts = 2` (three in the code); three
faults reach the longest error path.

*Handlers.* Two at once are the smallest overlap, and each race in these modules
is between two. Handlers and server processes are interchangeable: `approvals`
and `admin_auth` use that symmetry (they check no liveness).

*Instances.* The larger modules are checked on several budgets in one run, each
chosen for the steps that interact, with everything else switched off. Approvals:
`ann` asks and administers, `bob` and `cyd` review, one endpoint, a dual-control
policy and a narrower one; six instances follow one or two authorizations through
edits, withdrawal, expiry and two or three commands. AdminAuth: five instances (three account changes; three
sign-ins and an enrolment; two enrolments; an account change under a sign-in and
a session operation; emergency access). Alerts: nine (reordered results with
retention; operators' actions; policy edits; the server's sweep and windows;
the patch age check of both sides; actions with an edit; mail with dying senders;
recovery mail; webhooks), and two of the agent's outbox, with two checks, room for three results and batches of two, so
that it fills and a batch mixes assignments, and a clock that is right or ahead by
more than is accepted (`FutureSkew = 0`, `Leads = {0, 1}`). Fleet:
four of rollouts, two taking one handler at a time, and eight of routing
(administration, replayed forwards, forwards under key changes, failover,
command keys, residency, two administrators, the switch), and four of enrollment
(two machines at one token with and without the row lock, one machine with faults,
one with an installer package and a second token). Scheduler: seven; a day
has two hours of two minutes, so that hour, day and time-zone boundaries are
crossed, and a search of one day leaves some expressions without a next run; one edit
at a time, which two passes may overtake. RemoteSupport: four of sessions, one of
conversations; `BufferFrames = 2` and `ReadLimit = 1` keep the order of the code's 128
and 64. Evidence: nine, on
a file system or in a bucket, with one or two publishers. `ManifestTTL = 2`,
`ReceiptRetention = 3`, `ClockSkew = 1` keep the order the settings have, stated as
`RetentionAssumption`.

`CHECK_DEADLOCK FALSE` stands where the system may rest: an endpoint without
commands, an instance whose administrators have asked for all they will. The
delivery and credential runs check for deadlock: their agent always has a next
check-in.

### Fairness

`delivery_progress` and `credential_serial` assume that the agent's loop takes
its next step (it runs on a ticker and every request has a timeout), that the
server serves the requests it has received, that clocks advance and an
administrator lifts a quarantine that stands. Strong fairness is used exactly where the
network must not lose every message for ever. Nothing is assumed about crashes,
lost answers or faults except that their number is bounded. In `self_update` the
steps of a command or of `Resolve` that was begun go on, a requested restart
happens, and a stopped service is started again (the helper's `sc start`, the
failure actions of the service manager).

The server's background loops of `core/tasks.py` run for ever with a pause and
catch every exception, so they get weak fairness: the senders' steps and the
clock (`alerts`, where the agent's check-in loop is weakly fair as well and how fast
it is against the clock is left open), the dispatcher and the end of its pass (`scheduler`;
nothing is assumed of the end of commands, since only the endpoint's own heartbeats
deliver or expire its rows), the clock, the sweeper and the end
of handlers (`remote_support`), the vault's sweep, its steps and the commit of
open transactions (`evidence`). `fleet`, `approvals` and `admin_auth` check safety
only.

## Proofs

`CommandProofs` proves of `CommandDelivery`, for every value of the constants allowed by
`CommandDeliveryConstants` (any number of commands and open heartbeats, any
number of crashes and faults, any clock skew, any builds):

* `TypeCorrect`: `TypeOK`;
* `ExecutedAtMostOnce`: `AtMostOnce`;
* `ResultOwedUntilRecorded`: `NoResultLost`;
* `RecordedResultsAreTrue`: `ResultsAreTrue`;
* `NoncesOnlyStopReplays`: no command is refused because of its own nonce
  (`NoSpuriousRepeat`).

None of the four safety properties is inductive. `AtMostOnce` needs to know
that a started command is still in the journal whenever its window is open.
The entry may be forgotten only by `Prune`, so the entry's expiry has to be the
signed one (not the short retention of an unverified refusal), and it has to be
so in the file as well as in memory, because a restart loads the file and a
failed save leaves the two different. `Journaled(j, c)` says this of a journal
`j`, and also that an execution is owed until a result was recorded, that a
nonce never outlives its entry, and that a stored result is true; `DiskInv` and
`MemInv` say it of the file and of memory. `ServerInv` connects the rows and
late uploads with the history, and `AgentInv` gives the local knowledge of
`processCommand`: between the two writes the command has not run, and once it
is about to run both copies say "executing". `IInv` is their conjunction.
The proof has one step per action; lemmas on the journal operations
(`RecoverPruneKept`, `EntryOpsKept`, `JournaledLater`, `AcknowledgedLater`)
carry the argument, and `ServerStep` and `AgentStep` dispose of the actions
that touch only one side.

`AgentProofs` proves of `CredentialRotation` `TypeCorrect` for every instance, and
`HeldCredentialNeverLost`: under `SerialAgent` (`MaxOpenRequests = 1` and
`MaxAclFaults = 0`) `HeldCredentialKnown` holds for all lifetimes, windows and
fault counts, and without `Timely`. Both assumptions are needed: a second open
request can leave the agent with a token the server has dropped, and so can a
save that fails after the file was replaced. The property is not inductive,
because an open transaction is going to replace both slots of the row: `OpenInv`
says that what it presents is what the agent holds, and that it matched the
overlap slot only if that slot still holds it; `AnswerInv` that an answer under
way carries the current token; `FileInv` that a restart changes nothing.

Of `SelfUpdate` it proves `UpdateTypeCorrect`, `TrialUndoable` (`TrialCanBeUndone`),
`ProvenKept` (`OnlyProvenBuildsKept`), `ChecksBounded` (`TrialsBounded`) and
`VerdictUnique` (`OneVerdict`) for any number of builds, updates, rollbacks,
crashes and faults. `Stranded` counts the faults behind a missing executable: but for
a crash in a swap there are at least two. `Shape` says which journal and files fit each
place of the code, for instance that the executable is the running build from
the start up to the end of the health check. `Safe` says which builds have
worked: the executable outside an attempt and before the swap, the backup from
the copy to the end of the trial, and always the build in `previous.json`, since
an operator's rollback may come at any time. The history variables `unrestored`
and `torn` state the two exceptions: a restore that failed, which the code
reports, and a crash inside a swap. The other two properties need the journal
that a restart will find: a health check is counted in the file before it starts,
and an outcome that was reported is the outcome the journal will report again, until
it is cleared and its attempt number is never used again.

`CommandProofs` also proves `ContractImplemented`, the refinement: under `SerialBeats`
(`MaxOpenHeartbeats = 1`, no revocation, `NumCommands <= NoticeCap`) `Spec`
implements `CommandContract`. The mapping needs facts that the safety properties do
not: what a command's journal entry, its place in the agent's batch, its row and
its late uploads say together is one stage of the contract. `RInv` adds them to
`IInv`, one conjunct for each place a result passes (`JournalFlow`, `BatchFlow`,
`BeatFlow`, `LateFlow`, `StoreFlow`, `RowFlow`). The assumptions are what TLC's
instance assumes too: with overlapping heartbeats the code does not keep the
contract (see below).

Of the `Scheduler` it proves, for any number of tasks, endpoints and passes, any cron
expressions, overlapping edits and clock:

* `WorkDispatchedOnce` (`WorkNotDoubled`) from `ScheduleInv`. On a serial instance one
  pass is under way at a time (`ScheduleTypes`), yet tasks are edited, toggled, deleted
  and commands end between its reading and its commit, and edits read before a pass and
  commit behind it. An open edit that no run of its task has overtaken holds a next
  run after all that ran; one that was overtaken (`late`) puts its task into
  `overtaken`, which the property excepts. `OccurrenceInv` says where an
  occurrence that ran lies: before the next run of its task, unless an operator has
  forced that (`manual`), and before the clock at which the pass under way began, which
  has none of them in its queue. A next run is always computed from a clock, so it
  lies after everything that ran until then (`NextRunLater`); the commit writes the next
  run over whatever an operator did meanwhile, which is why it too has to lie after the
  occurrence of the pass. `SkipInv` says that neither the commands nor the queue of the
  pass hold a command under "skip" behind one of the same work, and that none of
  the queue follows one in the commands; a command that ends leaves the others in
  their order (`CommandEnded`).
* `ComplianceMatchesGate` (`ComplianceAgrees`): what an endpoint misses is what one of
  its scans reported (`SnapshotsFromScans`), the report and the gate approve the same
  rows of it, however often one name occurs in them, and an approved row has a KB
  number or an identity to be installed by.

`ApprovalsProofs` proves `CommandsAuthorized` (`AuthorizedCommand`) and
`EndedForGood` (`NeverRevived`) for any number of operators, requests, overrides,
policies and handlers at once. The commit of a dispatch looks only at the status of
the row it cites, while the gate looked at the rest of it earlier. The argument is
that nothing but the status of an approved request changes any more, and that no
status returns to "approved" (`RequestsSteady`, `OverridesSteady`): what the gate
saw (`Gated`) therefore still holds when the claim succeeds. `Cited` says it of
the commands and `CitedOnce` that a cited row is "consumed" or was overwritten by
a withdrawal or expiry, neither of which can be claimed. `PolicyFound` shows
that `resolve_policy` finds one policy whenever one applies, from `Least`: every
set of natural numbers has a least element.

`AdminAuthProofs` proves `TypeCorrect`, `AcceptedOnce` (`SecondFactorOnce`),
`NoSelfExtension` (`EmergencyNeverProvisions`) and `AnAdminRemains`
(`AdminRemains`) for any number of operators, sessions, keys, codes and handlers at
once, and any ages and limits. A handler commits what it read earlier, so the
argument is about what is never taken back. One relation for each table
(`SessionStep`, `TokenStep`, `ChallengeStep`, `RecoveryStep`, `CodeStep`, `GlassStep`)
says what a step may do to it; every action is shown to obey them, and `Handler`,
what a handler has loaded, is shown to survive them. `UsedUp` says that a proof
which was accepted is consumed in its table, and a consumed row stays so: the
conditional `UPDATE` therefore finds nothing the second time. `Bearer` says that
the token of an emergency session names its method: tokens are copied from tokens
of the same session, a sign-in opens an ordinary session of its own, and a session that
was opened stays ordinary or emergency. The
last-administrator rule needs no invariant beyond the types, but the count under the
lock and the target as loaded have to be of the same state, which is what
`StaleCommit` excepts; `GreatestNumber` shows that `consume_challenge` finds a
latest challenge whenever one is open.

`MonitoringProofs` proves three properties over `MonitoringSpec`, for any number of
policies, checks, results, sweeps, requests, recipients, endpoints and senders.

* `ReceptionsBounded` (`RepeatsExplained`) from `SendInv`: the receptions of a row,
  the senders that still hold it (`Holders`) and the send its status stands for
  (`Waits`) add up to at most one more than the attempts whose end nobody saw. A
  send moves a unit from the holder to the reception, a claim from the status to a
  holder, and a recovery of a claim whose holder may still send counts the unknown
  end that pays for it. A claim is a sequence without repetitions, so a sender
  holds a row once. `StepNotifies` reduces every action of the composition to one
  of the few ways rows and claims change (`NotificationStep`).
* `ActionsReachWhatWasSeen` (`ActedOnWhatWasSeen`) from `ActionInv`: an alert's
  version never decreases, an operator's action makes a new one, and a generation opens
  only with a new version. So a request composed at a version (`Seen`) finds that
  version, and with it the generation its author saw, or is refused; and once it has been
  applied, its identifier is in the history and it is refused again. `AlertStep`
  says what each action may do to an alert, with what results are made of
  (`ResultInv`).
* `AlertsFollowResults` (`AlertFollowsResults`) from `CountInv`: a result that was
  counted is observed still, or can no longer be taken, or was forgotten
  (`Counted`), and a result the server makes itself is not counted before it is
  stored (`Uncounted`). Retention deletes by number and acceptance goes by age, so a
  result may be deleted, submitted again after a lost answer and counted a second
  time; `alerts` reaches this with `KeepResults = 2`. With the defaults it does not
  happen: 100 rows are kept (`check_result_history_per_key`), and of a check that
  runs at most every 30 seconds and may be stamped up to 5 minutes ahead, results no
  older than three intervals or five minutes are accepted, about twenty.

`FleetProofs` proves the six properties of the fleet over `FleetSpec`. The parts
share only the budget, so each has an invariant of its own:

* `UpdatedOnce` (`OneUpdatePerAgent`), `FailuresAlwaysHalt` (`FailuresHalt`) and
  `HaltIsFinal` (`HaltHolds`) from `RolloutInv`. That an issued endpoint lies within
  the stage is `StageInv`, from the buckets a handler found below what it asked for.
  `OneAtATime` is what makes the second inductive: with one request at a time the release is still as the handler
  loaded it, and every report that could halt a release has been judged;
* `ForwardedAtMostOnce` (`ForwardedOnce`) from `ForwardInv`, which relates the age
  of a receipt to the age of what is being verified and to the timestamp of the
  request: a receipt may be pruned only when the request is too old to be
  verified, and nothing of it is still under way. This is where
  `RetentionAssumption` is used, and it is needed;
* `EndpointStaysInReach` (`AgentInReach`) from `ReachInv`: the time an endpoint has
  been out of reach and the time its manifest has left add up to at most one
  lifetime, for the manifest in memory and for the one on disk;
* `EveryEnrollmentAccounted` (`EnrollmentsAccounted`) from `EnrollInv`: `Requested`
  says which redemption a machine still waits for, `Counted` is about the uses of
  a token, and `Ledger` sets each row a machine does not use, and each request it no
  longer waits for, against an answer that was lost.

`RemoteSupportProofs` proves `BothStreamsInOrder` (`StreamsInOrder`) and
`ClosedChatsStayShut` (`ClosedChatShut`) over the `Spec` of `ShellSession`, for any
number of sessions, operators, conversations and handlers at once, any buffer,
window and limit, and any number of lost answers, reloads and restarts of both
sides.

* The first follows from `ShellInv`. A direction of the relay keeps the digests of
  what it accepted last, and its frames are the last of those (`Ordered`). Everybody
  else is compared with the digests: a handler that is about to answer, the shell that
  was given frames, the page that typed them (`Agrees`), and the page that shows output
  (`Shows`). A digest is dropped only once it is acknowledged, and
  an acknowledged frame is never accepted again under the same number. Of the output,
  `Sent` says that the chunks of one shell follow each other, and that a
  later shell begins after them. The delicate part is a restart of the server, which
  forgets the digests: a relay made again numbers from the row. An attach
  makes one only for a session that nothing was attached to yet (`Attached`), so no
  shell was given anything and no page shows any output; any other session whose
  relay is lost fails. Typed frames need no relay to stay distinct: a
  page numbers on from what it said, and only its owner types into a session.
* The second follows from `ChatInv`: only an open conversation has a token, and the
  one a heartbeat is renewing is open, because the heartbeat holds its row (`Locked`)
  and closing waits for it.

`EvidenceProofs` proves three properties over the `Spec` of `EvidenceVault`, for any
number of transactions, publishers, records, holds and handlers at once, any budget,
retention and batch, on either storage.

* `ChainStaysWhole` (`ChainUnbroken`). `ChainInv` says that the committed events are
  numbered without a gap and linked each to the one before, that an open transaction
  continues them, and that at most one is open: this is what the lock of
  `_serialize_append` is for, and with it no commit finds its place taken. That such a
  set of rows verifies (`ChainVerifies`), and that its prefixes are never touched
  (`PrefixKept`), are lemmas. `AnchorInv` is about the anchors in the table and those
  that any publisher or operator has read or written and not yet committed: each is
  true of the chain, carries its own id, and is called published only if its document
  is on the medium. It has to cover the transactions, because a commit writes columns
  of rows that another may have written since.
* `DisposalsAccountedFor` (`DisposalsExplained`) from `LedgerInv`: every hold that the
  chain says was placed is in the table with its scope, every released one has its
  event, and a disposal under way carries the position up to which its check was true
  (`Disposable`). The position makes the property stable: later events do not belong to
  the prefix, which no longer changes.
* `NoAlarmWithoutTampering` (`NoFalseAlarm`). A bundle is "ok" if the chain and the
  anchors are as above and an anchor has a receipt exactly if it is published
  (`BundleBuilt`). The latter takes `AloneInv`, about a publisher that has no other
  beside it: what it has read is what the table holds (`AsRead`), so it writes both
  columns or neither. Two publishers may write one each, which is why the property
  is about one.

Assumptions on constants say only what the constants stand for:
`ApprovalsAssumption` (finitely many operators, the terms are policies),
`AdminAuthAssumption` (what there is at the start has the right shape, `None` is no
operator and no time), `ShellAssumption` (times, the window and the read limit are
numbers, `None` is no session), `ChatAssumption` (`None` is no token),
`RolloutAssumption`, `RoutingAssumption`, `EnrollmentAssumption` (terms are in
range, a bucket is one of 0 to 99, sets of handlers are finite, `None` is not a row), `InstanceAssumption` (a
budget is a budget, and a serial one has one handler), and `RetentionAssumption`
(from the defaults of `config.py`); `AlertsAssumption` and `NotificationsAssumption`
(policies, checks, recipients, endpoints and senders are finitely many, the statuses an agent
reports are statuses, ages are numbers); `SchedulerAssumption` (tasks and endpoints are
finitely many, an hour and a day are not empty, a budget is a budget) and
`ScansAssumption` (an update without a KB number has its Windows Update identity, as
`scan_windows.go:75` always sends it; a KB number may occur more than once);
`EvidenceAssumption` (replicas and records are finitely many, no replica is the operator,
0 is no record, `None` is no number, a budget is a budget). TLC evaluates all of them.

Only model-checked: the liveness properties (fairness and `ENABLED` are out of the
prover's reach). Every invariant that a run checks is proved, `HeldCredentialKnown`
under `SerialAgent`.

## What the models show the code does not promise

Reading the code for the models turned up behaviour a reader might not expect.
The models contain it, and the properties above except it or are stated so that
it does not matter.

*Delivery.* A heartbeat that outlives its client's timeout can commit after a
newer one and write "dispatched" over a recorded result (`api/agents.py`), and can
deliver a row after a revocation committed; `AtMostOnce` and `ResultsAreTrue` hold
in spite of both, and `ImplementsContract` is checked without overlap. A heartbeat
handles only the rows of the one version selected for the agent
(`api/agents.py:525`, `:541`), and no other code expires rows: after an update or a
rollback to a build with another version, the rows queued before are neither
delivered nor expired until a build of their version comes back.

*Trust.* `quarantine_agent` and `restore_agent` check the state without a lock
(`api/management.py:1741`, `:1764`), so one that read before a revocation and commits
after it takes the revocation back, although the endpoint's docstring calls a
revocation terminal.

*Credentials.* A renewal repeated on another route while the first is still open
leaves the agent with a token the server has dropped; after a lost answer the held
credential is refused at the end of the overlap, before its own expiry.

*Self-update.* A crash between the swap and its journal entry keeps a build that
was never checked; one between the two renames leaves no executable, and so does a
replacement that fails and cannot be undone, since the errors of both put-backs are
ignored (`selfupdate_windows.go:67`, `selfupdate.go:450`), although the comment at
`selfupdate_windows.go:53-54` says that the executable is never left missing; the next
update overwrites an outcome the server never accepted.

*Approvals.* Dispatches at once may each count the outstanding commands before the
others commit and pass the cap (`api/management.py:2018`). The commit of a withdrawal, revocation or expiry may overwrite
"consumed" (`api/approvals.py:844`, `api/emergency_overrides.py:503`); the
activation notice is lost if the process dies before it is sent
(`emergency_overrides.py:413`).

*Accounts.* The last-administrator check uses the target's role as loaded; two
handlers that bump `token_generation`, or count attempts, may lose one; resetting
MFA leaves the mail factor; concurrent sign-ins may pass the session ceiling;
`get_enrollment_operator` accepts a token without looking at its session.

*Alerts and notifications.* A submission loaded before its policy is revised can
open an alert of a revision that is gone; an older failing result opens an alert
if the newer good one arrived first and left no observation; a completed attempt
does not check that the claim is still its own; disabling a check at a narrower
scope leaves the wider policy's alert open; retention counts rows and acceptance
goes by age (`core/monitoring.py:1107`), so a `check_result_history_per_key` of a few
rows would let a repeated result be counted twice.

*Checks on the agent.* The heartbeat leaves out only `offline` checks
(`api/agents.py:629`), so the agent is sent `patch_age` checks it does not know,
answers `unknown` (`evaluator.go:218`), and that answer opens an alert and delays
the server's own evaluation, although `docs/MONITORING.md:27-28` says that a
patch-age `unknown` opens none. A result that has waited longer than three
intervals (five minutes at least), after an outage for instance, makes the server
refuse every batch it is in (`api/agents.py:687`); the agent keeps it for as long
as the assignment stands, so nothing behind it is taken either and at 256 results
it stops evaluating, although `docs/MONITORING.md:187-189` says that the outbox
"retries after the compatible server returns". A clock more than five minutes ahead
has the same effect until the server's gets there (`api/agents.py:681`).

*Enrollment.* An answer that is lost after the commit has used up a single-use
token: an agent row stays that no machine uses, and the service asks again with
the same token for as long as it runs (`runner.go:228-240`).

*Rollouts.* A stale pause or advance overwrites a halt (`api/agent_updates.py:662`,
`:419`); two advances may collide on an attempt and the second is rolled back, and
overlapping ones may leave a lower percentage on the row than was served;
`completed` and `staged` are never assigned.

*Scheduler and patching.* Nothing claims a due task, so two dispatchers, or one
and run-now, dispatch an occurrence twice (`core/scheduler.py:151`), and so does an
edit or a toggle that computed the next run before a pass and commits after it
(`api/scheduled_tasks.py:250`, `:337`); an expression that comes to have no next run
within five years makes every pass raise once it is due, and no task is dispatched any
more until it is disabled or deleted (`core/scheduler.py:139`); a pass that
finds only busy or gated targets commits nothing, so "skip" behaves as "delay", and for
ever if the endpoint stays offline, because the check does not look at `expires_at` and
nothing but its own heartbeat expires a row (`core/scheduler.py:254-268`); if several
missing updates bear one KB number the last decides whether it may be installed by
name, and what is approved by an "install all" is installed by that number
(`core/patch_policies.py:254`, `:286`);
"queue" behaves as "allow"; an unchanged snapshot keeps its old `received_at`
(`core/inventory.py:64`); the gate uses the rows of a snapshot compliance calls
unusable.

*Shell and chat.* A late attach revives an ended session until its deadline
(`api/shell_sessions.py:506`); final output is lost if a session completes before
the next poll (`:393`); a restart loses input typed while the session was pending;
terminal states may overwrite one another; the limit per agent can be passed.

*Relays.* A relay that hangs rather than fails causes no failover, because a
timeout counts as the caller's own deadline (`routes.go:156`, `client.go:584`),
until the manifest expires; a strict tenant whose region has no relay is locked
out (`core/relays.py:435`); a stale PATCH overwrites "revoked"
(`api/relays.py:396`); concurrent registrations pass the limit on live keys.

*Evidence.* Two anchors over the same events collide on their object key and one
stays pending (`core/anchor_publish.py:83`, `:109`), and the docstring's promise that a retry
writes identical bytes (`:17-19`) holds only of the same anchor; two publishers may set a
published row back to pending, which a bundle then calls tampered; a hold placed
between a disposal's check and its delete does not save the object
(`core/evidence_vault.py:704`); a crash between the storage call and the commit
leaves the two apart until the sweep notices, or for good for a hold set before
the crash (`:392`, `:743`).

## Not modelled

Cryptography, encodings, document formats and message bodies, which are modelled
by what they depend on; what a command does on the endpoint; the platform probes
behind a check and their hysteresis on the agent, and its inventory; the
command envelope's encoding, which is a pure function the repository tests with
golden vectors; pruning by age where nothing depends on the rows; power loss that
undoes a completed rename; SQLite, which has no append lock, other
than for enrollment; the dashboard apart
from the shell panel; the assistant, the script library, MeshCentral, redaction,
metrics and logging. `PROJECT.json` lists each with its reason.

## Plan

1. Done: the core (`CommandDelivery`, `CredentialRotation`, `SelfUpdate`) with its
   proofs, the contract it implements, the server's components, enrollment and
   the agent's checks.
   Proved since: the refinement of the contract, the rest of the self-update, the
   authorization of commands, second factors and administrators, the fleet,
   remote support, monitoring, the scheduler with the patch gate, and the evidence:
   every invariant that a run checks.
2. Next, what is left of the model: dispatches that pass the cap on outstanding
   commands, the inventory upload, and the agent's hysteresis as the source of the
   statuses `Alerts` receives.
