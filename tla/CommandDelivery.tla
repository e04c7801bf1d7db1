-------------------------- MODULE CommandDelivery --------------------------
(***************************************************************************)
(* Delivery of signed commands from the NodeLink server to one agent.      *)
(*                                                                         *)
(* The server keeps one row per command and hands queued rows out in the   *)
(* answer to a heartbeat (server/app/api/agents.py).  The agent keeps a    *)
(* durable journal (agent/internal/service/replay.go), executes the batch  *)
(* one command at a time and uploads each result until the server accepts  *)
(* it (agent/internal/service/runner.go).                                  *)
(*                                                                         *)
(* A server request is a database transaction under READ COMMITTED whose   *)
(* ORM updates are issued when it commits, so a heartbeat and a revocation *)
(* are two steps here, what they read and what they write.  A result       *)
(* upload locks its row first and is one step.  The agent is one           *)
(* goroutine; it can crash between any two of its durable writes, and a    *)
(* journal write can fail before or after the file was renamed in place.   *)
(***************************************************************************)
EXTENDS Naturals, FiniteSets

CONSTANTS
  NumCommands,        \* commands operators issue, numbered in creation order
  TTL,                \* signed lifetime: expires_at = issued_at + TTL
  Lease,              \* settings.command_redelivery_seconds
  Skew,               \* verify.maxIssuedAtClockSkew
  UnverifiedTTL,      \* retention of a refusal whose expiry was not trusted
  MaxBatch,           \* settings.max_commands_per_heartbeat
  MaxOutstanding,     \* settings.max_outstanding_commands_per_agent
  NoticeCap,          \* pending-result notices one heartbeat carries
  Builds,             \* the versions selected for the builds the endpoint may run
  (* bounds of the model, not of the program *)
  MaxClock,           \* both clocks stop here
  MaxOpenHeartbeats,  \* heartbeat requests the server may have open at once
  MaxLateReports,     \* result uploads the network may hold back
  MaxInterruptions,   \* crashes and service stops
  MaxSaveFaults,
  MaxQuarantines,
  Revocable,          \* may an administrator revoke the agent?
  Stoppable           \* may the service manager stop the agent?

ASSUME CommandDeliveryConstants ==
  /\ NumCommands \in Nat /\ MaxOpenHeartbeats \in Nat
  /\ TTL \in Nat /\ Lease \in Nat /\ Skew \in Nat /\ UnverifiedTTL \in Nat
  /\ MaxBatch \in Nat /\ MaxOutstanding \in Nat /\ NoticeCap \in Nat
  /\ MaxClock \in Nat /\ MaxLateReports \in Nat /\ MaxInterruptions \in Nat
  /\ MaxSaveFaults \in Nat /\ MaxQuarantines \in Nat
  /\ Revocable \in BOOLEAN /\ Stoppable \in BOOLEAN
  /\ Builds # {} /\ Builds \subseteq {"v3", "v2", "none"}

Cmds  == 1..NumCommands
Slots == 1..MaxOpenHeartbeats

(***************************************************************************)
(* Server rows.  "none" is a command nobody has issued yet.                *)
(***************************************************************************)
Terminal    == {"succeeded", "failed"}
Reportable  == {"dispatched", "result_pending"}
Outstanding == {"queued", "dispatched", "result_pending"}
CommandStatus == {"none", "expired"} \cup Outstanding \cup Terminal

(***************************************************************************)
(* Results: the exit of a process that ran, the recovery's report of an    *)
(* interrupted execution, a refusal, and the refusal of a repeated nonce.  *)
(***************************************************************************)
Outcomes == {"ok", "fail"}
Results  == Outcomes \cup {"unknown", "refused", "repeat"}

\* What select_command_envelope_version picks of the versions a build lists: the
\* server's preferred one, or none.
EnvelopeVersion == {"v3", "v2", "none"}

Row   == [status : CommandStatus, result : Results \cup {"none"},
          issuedAt : Nat, dispatchedAt : Nat, version : EnvelopeVersion]
NoRow == [status |-> "none", result |-> "none", issuedAt |-> 0, dispatchedAt |-> 0,
          version |-> "none"]

(***************************************************************************)
(* The journal: one entry per command ID and the set of the nonces that    *)
(* have a replay entry of their own.                                       *)
(***************************************************************************)
CommandExecutionState ==
  {"absent", "reserved", "executing", "result_pending", "acknowledged"}
Entry   == [state : CommandExecutionState, result : Results \cup {"none"},
            expiry : Nat]
Absent  == [state |-> "absent", result |-> "none", expiry |-> 0]
Journal == [entries : [Cmds -> Entry], nonces : SUBSET Cmds]
EmptyJournal == [entries |-> [c \in Cmds |-> Absent], nonces |-> {}]

(***************************************************************************)
(* A heartbeat request: what it will write, decided when it read.  "lease" *)
(* is the redelivery of a dispatched row: the status is unchanged, so the  *)
(* ORM updates dispatched_at alone.                                        *)
(***************************************************************************)
Writes  == {"keep", "lease", "dispatched", "expired", "result_pending"}
NoWrites == [c \in Cmds |-> "keep"]
HeartbeatTxn ==
  [st : {"free", "sent", "read", "answered"}, notices : SUBSET Cmds,
   writes : [Cmds -> Writes], at : Nat, trust : {"active", "quarantined"},
   version : EnvelopeVersion]
FreeSlot == [st |-> "free", notices |-> {}, writes |-> NoWrites,
             at |-> 0, trust |-> "active", version |-> "none"]

VARIABLES
  \* server
  rows,         \* the commands table
  trust,        \* agents.trust_state
  hb,           \* heartbeat requests the server has received or answered
  revoking,     \* an open revoke_agent transaction
  revokeRows,   \* the rows that transaction read as outstanding
  late,         \* result uploads still in the network after the agent gave up
  known,        \* agents.command_envelope_versions: what the agent last said it speaks
  serverClock,
  \* agent
  disk,         \* the journal file
  mem,          \* SeenStore.entries of the running process
  pc, cur, batch, outbox, held, beat, stopping,
  speaks,       \* the version the server selects for the agent's build
  agentClock,
  \* history
  execCount,    \* processes started per command
  outcome,      \* what the process returned
  completions,  \* command.completed audit events per command: 0, 1, more
  \* model bounds
  interruptions, faults, quarantines

serverVars  == <<rows, trust, hb, revoking, revokeRows, late>>
agentVars   == <<mem, pc, cur, batch, outbox, held, beat, stopping>>
clockVars   == <<serverClock, agentClock>>
envelopeVars == <<known, speaks>>
historyVars == <<execCount, outcome, completions>>
boundVars   == <<interruptions, faults, quarantines>>
vars == <<serverVars, agentVars, disk, clockVars, envelopeVars, historyVars, boundVars>>

Flushing == {"flushFirst", "flushCmd", "flushLast"}
PC == {"down", "idle", "beat", "take", "reserved", "refuse", "executing",
       "ran"} \cup Flushing

TypeOK ==
  /\ rows \in [Cmds -> Row]
  /\ trust \in {"active", "quarantined", "revoked"}
  /\ hb \in [Slots -> HeartbeatTxn]
  /\ revoking \in BOOLEAN
  /\ revokeRows \in SUBSET Cmds
  /\ late \in SUBSET [cmd : Cmds, result : Results \cup {"none"}]
  /\ serverClock \in Nat /\ agentClock \in Nat
  /\ known \in EnvelopeVersion /\ speaks \in Builds
  /\ disk \in Journal /\ mem \in Journal
  /\ pc \in PC
  /\ cur \in Cmds \cup {0}
  /\ batch \in SUBSET Cmds
  /\ outbox \in SUBSET Cmds
  /\ held \in Outcomes \cup {"none"}
  /\ beat \in Slots \cup {0}
  /\ stopping \in BOOLEAN
  /\ execCount \in [Cmds -> Nat]
  /\ outcome \in [Cmds -> Outcomes \cup {"none"}]
  /\ completions \in [Cmds -> 0..2]
  /\ interruptions \in Nat /\ faults \in Nat /\ quarantines \in Nat

Init ==
  /\ rows = [c \in Cmds |-> NoRow]
  /\ trust = "active"
  /\ hb = [k \in Slots |-> FreeSlot]
  /\ revoking = FALSE /\ revokeRows = {}
  /\ late = {}
  /\ serverClock = 0 /\ agentClock = 0
  /\ speaks \in Builds /\ known = speaks
  /\ disk = EmptyJournal /\ mem = EmptyJournal
  /\ pc = "idle" /\ cur = 0 /\ batch = {} /\ outbox = {} /\ held = "none"
  /\ beat = 0 /\ stopping = FALSE
  /\ execCount = [c \in Cmds |-> 0]
  /\ outcome = [c \in Cmds |-> "none"]
  /\ completions = [c \in Cmds |-> 0]
  /\ interruptions = 0 /\ faults = 0 /\ quarantines = 0

-----------------------------------------------------------------------------
(***************************************************************************)
(* Time.  The two clocks run independently: their skew is arbitrary.       *)
(***************************************************************************)
ExpiresAt(c) == rows[c].issuedAt + TTL

ServerTick ==
  /\ serverClock < MaxClock
  /\ serverClock' = serverClock + 1
  /\ UNCHANGED <<serverVars, agentVars, disk, agentClock,
                 envelopeVars, historyVars, boundVars>>

AgentTick ==
  /\ agentClock < MaxClock
  /\ agentClock' = agentClock + 1
  /\ UNCHANGED <<serverVars, agentVars, disk, serverClock,
                 envelopeVars, historyVars, boundVars>>

-----------------------------------------------------------------------------
(***************************************************************************)
(* Operators.                                                              *)
(***************************************************************************)

\* POST /agents/{id}/commands: only an active agent with room in its queue is
\* given a new row, signed under the version the agent last said it speaks; a
\* scheduled task falls back to the older one when there is none, an operator is
\* refused.  The bound leaves time for the row's lease and expiry.
DispatchCommand(c) ==
  /\ trust = "active"
  /\ rows[c].status = "none"
  /\ \A d \in Cmds : d < c => rows[d].status # "none"
  /\ Cardinality({d \in Cmds : rows[d].status \in Outstanding}) < MaxOutstanding
  /\ serverClock + TTL + Lease <= MaxClock
  /\ rows' = [rows EXCEPT ![c] = [NoRow EXCEPT !.status = "queued",
                                 !.issuedAt = serverClock,
                                 !.version = IF known = "none" THEN "v2" ELSE known]]
  /\ UNCHANGED <<trust, hb, revoking, revokeRows, late, agentVars, disk,
                 clockVars, envelopeVars, historyVars, boundVars>>

\* quarantine_agent and restore_agent check the state they read without a lock and set
\* theirs at a later commit, whatever it has become.  Any state the agent has been in
\* may be the one a request read: it was active at first, and quarantined once a
\* quarantine was set.
QuarantineAgent ==
  /\ quarantines < MaxQuarantines
  /\ trust' = "quarantined"
  /\ quarantines' = quarantines + 1
  /\ UNCHANGED <<rows, hb, revoking, revokeRows, late, agentVars, disk,
                 clockVars, envelopeVars, historyVars, interruptions, faults>>

RestoreAgent ==
  /\ quarantines > 0
  /\ trust' = "active"
  /\ UNCHANGED <<rows, hb, revoking, revokeRows, late, agentVars, disk,
                 clockVars, envelopeVars, historyVars, boundVars>>

\* A row an open heartbeat transaction selected FOR UPDATE.
LockedBy(k) == IF hb[k].st = "read"
               THEN {c \in Cmds : hb[k].writes[c] = "result_pending"}
               ELSE {}
Locked == UNION {LockedBy(k) : k \in Slots}

\* revoke_agent reads the outstanding rows without a lock ...
RevokeRead ==
  /\ Revocable
  /\ trust # "revoked"
  /\ ~revoking
  /\ revoking' = TRUE
  /\ revokeRows' = {c \in Cmds : rows[c].status \in Outstanding}
  /\ UNCHANGED <<rows, trust, hb, late, agentVars, disk, clockVars, envelopeVars,
                 historyVars, boundVars>>

\* ... and expires them when it commits.
RevokeCommit ==
  /\ revoking
  /\ revokeRows \cap Locked = {}
  /\ rows' = [c \in Cmds |-> IF c \in revokeRows
                             THEN [rows[c] EXCEPT !.status = "expired"]
                             ELSE rows[c]]
  /\ trust' = "revoked"
  /\ revoking' = FALSE /\ revokeRows' = {}
  /\ UNCHANGED <<hb, late, agentVars, disk, clockVars,
                 envelopeVars, historyVars, boundVars>>

-----------------------------------------------------------------------------
(***************************************************************************)
(* The heartbeat handler.                                                  *)
(***************************************************************************)

\* Mutated form: notices are ignored.
MutNoticedNever(k) == {}

\* Rows the notices of request k move to result_pending.
Noticed(k) == {c \in hb[k].notices : rows[c].status \in Reportable}

\* Mutated form: a dispatched row is never delivered again.
MutDeliverableOnce(k) ==
  {c \in Cmds \ Noticed(k) : rows[c].status = "queued" /\ rows[c].version = hb[k].version}

\* Rows the deliverable query returns: queued, or dispatched and not answered
\* for a lease, under the one version selected for the agent.  A row just moved to
\* result_pending is no longer dispatched; every row has a version, so none is
\* returned to an agent for which none is selected.
Deliverable(k) ==
  {c \in Cmds \ Noticed(k) :
     /\ rows[c].version = hb[k].version
     /\ \/ rows[c].status = "queued"
        \/ /\ rows[c].status = "dispatched"
           /\ rows[c].dispatchedAt + Lease <= serverClock}

Lapsed(c) == ExpiresAt(c) < serverClock

\* The loop over those rows in creation order: lapsed rows expire, the others
\* fill the batch, and the loop stops once the batch is full.
Walked(k) ==
  {c \in Deliverable(k) :
     Cardinality({d \in Deliverable(k) : d < c /\ ~Lapsed(d)}) < MaxBatch}

PlannedWrites(k) ==
  [c \in Cmds |->
     CASE c \in Noticed(k) -> "result_pending"
       [] c \in Walked(k) /\ Lapsed(c) -> "expired"
       [] c \in Walked(k) /\ ~Lapsed(c) /\ rows[c].status = "queued" -> "dispatched"
       [] c \in Walked(k) /\ ~Lapsed(c) /\ rows[c].status = "dispatched" -> "lease"
       [] OTHER -> "keep"]

\* Authentication and every query of the request.  A quarantined agent gets a
\* minimal answer.  The notices' rows are selected FOR UPDATE.
HeartbeatRead(k) ==
  /\ hb[k].st = "sent"
  /\ trust # "revoked"
  /\ trust = "active" => Noticed(k) \cap Locked = {}
  /\ hb' = [hb EXCEPT ![k] =
              [@ EXCEPT !.st = "read", !.notices = {}, !.at = serverClock,
                        !.trust = trust,
                        !.writes = IF trust = "active" THEN PlannedWrites(k)
                                                       ELSE NoWrites]]
  /\ UNCHANGED <<rows, trust, revoking, revokeRows, late, agentVars, disk,
                 clockVars, envelopeVars, historyVars, boundVars>>

\* What an update issued at commit does to a row.
Written(row, w, at) ==
  CASE w = "lease" -> [row EXCEPT !.dispatchedAt = at]
    [] w = "dispatched" -> [row EXCEPT !.status = "dispatched", !.dispatchedAt = at]
    [] w \in {"expired", "result_pending"} -> [row EXCEPT !.status = w]
    [] OTHER -> row

HeartbeatCommit(k) ==
  /\ hb[k].st = "read"
  /\ \A j \in Slots \ {k} :
       {c \in Cmds : hb[k].writes[c] # "keep"} \cap LockedBy(j) = {}
  /\ rows' = [c \in Cmds |-> Written(rows[c], hb[k].writes[c], hb[k].at)]
  /\ hb' = [hb EXCEPT ![k] = IF beat = k
                             THEN [@ EXCEPT !.st = "answered", !.at = 0]
                             ELSE FreeSlot]
  /\ known' = IF hb[k].trust = "active" THEN hb[k].version ELSE known
  /\ UNCHANGED <<trust, revoking, revokeRows, late, agentVars, disk,
                 clockVars, speaks, historyVars, boundVars>>

\* The request is lost, refused (a revoked bearer gets a 401) or rolled back.
HeartbeatFails(k) ==
  /\ hb[k].st \in {"sent", "read"}
  /\ hb' = [hb EXCEPT ![k] = FreeSlot]
  /\ UNCHANGED <<rows, trust, revoking, revokeRows, late, agentVars, disk,
                 clockVars, envelopeVars, historyVars, boundVars>>

-----------------------------------------------------------------------------
(***************************************************************************)
(* The result handler, one transaction on a locked row.                    *)
(***************************************************************************)

Accepting(c) == trust = "active" /\ rows[c].status \in Reportable

\* Mutated form: a repeated upload of the recorded result is a conflict.
MutReplayedNever(c, r) == FALSE

\* A terminal row answers the exact result again with success, changing nothing.
Replayed(c, r) ==
  trust = "active" /\ rows[c].status \in Terminal /\ rows[c].result = r

\* Everything else is a 401, 403 or 409 that changes nothing.
SubmitResult(c, r) ==
  /\ c \notin Locked
  /\ IF Accepting(c)
     THEN /\ rows' = [rows EXCEPT ![c].result = r,
                        ![c].status = IF r = "ok" THEN "succeeded" ELSE "failed"]
          /\ completions' = [completions EXCEPT
                               ![c] = IF @ = 0 THEN 1 ELSE 2]
     ELSE UNCHANGED <<rows, completions>>

\* An upload the agent had given up on reaches the server after all.
LateReport(m) ==
  /\ m \in late
  /\ SubmitResult(m.cmd, m.result)
  /\ late' = late \ {m}
  /\ UNCHANGED <<trust, hb, revoking, revokeRows, agentVars, disk, clockVars, envelopeVars,
                 execCount, outcome, boundVars>>

-----------------------------------------------------------------------------
(***************************************************************************)
(* The agent's journal: SeenStore.                                         *)
(***************************************************************************)
Has(j, c)  == j.entries[c].state # "absent"
Pending(j) == {c \in Cmds : j.entries[c].state = "result_pending"}

WithEntry(j, c, e) == [j EXCEPT !.entries[c] = e]

\* Mutated form: an interrupted execution is reported as a failed process.
MutRecoveredFailed(e) ==
  CASE e.state = "reserved" -> Absent
    [] e.state = "executing" -> [e EXCEPT !.state = "result_pending",
                                          !.result = "fail"]
    [] OTHER -> e

\* RecoverInterrupted: a reservation never started anything and is released
\* with its nonce; an interrupted execution is reported as unknown.
RecoveredEntry(e) ==
  CASE e.state = "reserved" -> Absent
    [] e.state = "executing" -> [e EXCEPT !.state = "result_pending",
                                          !.result = "unknown"]
    [] OTHER -> e

\* Mutated form: an interrupted execution is released like a reservation.
MutRecoverReleases(j) ==
  [entries |-> [c \in Cmds |-> IF j.entries[c].state \in {"reserved", "executing"}
                               THEN Absent ELSE j.entries[c]],
   nonces  |-> {c \in j.nonces : j.entries[c].state \notin {"reserved", "executing"}}]

RecoverInterrupted(j) ==
  [entries |-> [c \in Cmds |-> RecoveredEntry(j.entries[c])],
   nonces  |-> {c \in j.nonces : j.entries[c].state # "reserved"}]

\* Prune: only entries that need no further work, and only once their signed
\* expiry is strictly past.  A nonce entry has no state to protect it.
Prunable(e) == e.state = "acknowledged" /\ e.expiry < agentClock

Prune(j) ==
  [entries |-> [c \in Cmds |-> IF Prunable(j.entries[c]) THEN Absent
                                                         ELSE j.entries[c]],
   nonces  |-> {c \in j.nonces : ~(ExpiresAt(c) < agentClock)}]

ReserveCommand(j, c) ==
  [WithEntry(j, c, [state |-> "reserved", result |-> "none",
                    expiry |-> ExpiresAt(c)])
     EXCEPT !.nonces = @ \cup {c}]

MarkExecuting(j, c) == [j EXCEPT !.entries[c].state = "executing"]

\* StoreResult keeps a result that is already stored; expiry fills an entry
\* that had none.
ResultStored(j, c) == j.entries[c].state \in {"result_pending", "acknowledged"}

StoreResult(j, c, r, expiry) ==
  IF ResultStored(j, c) THEN j
  ELSE WithEntry(j, c, [state |-> "result_pending", result |-> r,
                        expiry |-> IF Has(j, c) THEN j.entries[c].expiry
                                                ELSE expiry])

Acknowledge(j, c) == [j EXCEPT !.entries[c].state = "acknowledged"]

RequeueAcknowledged(j, c) ==
  IF j.entries[c].state = "acknowledged"
  THEN [j EXCEPT !.entries[c].state = "result_pending"]
  ELSE j

\* mutateAndSave: memory and file move together ...
Save(j) == mem' = j /\ disk' = j

\* ... or the write fails and memory is rolled back.  The file is the old one
\* or, when the step after the rename failed, already the new one.
SaveFaults(j) ==
  /\ faults < MaxSaveFaults
  /\ faults' = faults + 1
  /\ disk' \in {disk, j}

-----------------------------------------------------------------------------
(***************************************************************************)
(* The agent process.                                                      *)
(***************************************************************************)

\* The process is gone: a crash, a fatal error or a completed stop.
ProcessEnds ==
  /\ pc' = "down" /\ cur' = 0 /\ batch' = {} /\ outbox' = {} /\ held' = "none"
  /\ beat' = 0 /\ stopping' = FALSE /\ mem' = EmptyJournal

\* An answer nobody waits for is dropped.
AnswerDropped(k) == [hb EXCEPT ![k] = IF @.st = "answered" THEN FreeSlot ELSE @]
HbWithoutReader == IF beat = 0 THEN hb ELSE AnswerDropped(beat)

Crash ==
  /\ pc # "down"
  /\ interruptions < MaxInterruptions
  /\ interruptions' = interruptions + 1
  /\ ProcessEnds
  /\ hb' = HbWithoutReader
  /\ UNCHANGED <<rows, trust, revoking, revokeRows, late, disk, clockVars, envelopeVars,
                 historyVars, faults, quarantines>>

\* loadSession: load the journal, resolve interrupted work, prune.  The executable may
\* have been replaced by another build meanwhile.
Start ==
  /\ pc = "down"
  /\ Save(Prune(RecoverInterrupted(disk)))
  /\ pc' = "idle"
  /\ speaks' \in Builds
  /\ UNCHANGED <<serverVars, cur, batch, outbox, held, beat, stopping,
                 clockVars, known, historyVars, boundVars>>

\* loadSession fails to persist the recovery and the service exits.
StartFails ==
  /\ pc = "down"
  /\ RecoverInterrupted(disk) # disk
  /\ SaveFaults(RecoverInterrupted(disk))
  /\ UNCHANGED <<serverVars, agentVars, clockVars, envelopeVars, historyVars, interruptions,
                 quarantines>>

StopRequested ==
  /\ Stoppable
  /\ pc # "down"
  /\ ~stopping
  /\ interruptions < MaxInterruptions
  /\ interruptions' = interruptions + 1
  /\ stopping' = TRUE
  /\ UNCHANGED <<serverVars, mem, pc, cur, batch, outbox, held, beat, disk,
                 clockVars, envelopeVars, historyVars, faults, quarantines>>

StopCompletes ==
  /\ stopping
  /\ pc = "idle"
  /\ ProcessEnds
  /\ UNCHANGED <<serverVars, disk, clockVars, envelopeVars, historyVars, boundVars>>

\* checkIn: prune the journal, then send a heartbeat that advertises the
\* results still in the outbox.
BeginCheckIn(k) ==
  /\ pc = "idle"
  /\ ~stopping
  /\ hb[k].st = "free" /\ \A i \in Slots : i < k => hb[i].st # "free"
  /\ LET j == Prune(mem) IN
       /\ Save(j)
       /\ \E n \in SUBSET Pending(j) :
            /\ \/ n = Pending(j) /\ Cardinality(n) <= NoticeCap
               \/ Cardinality(n) = NoticeCap
            /\ hb' = [hb EXCEPT ![k] = [FreeSlot EXCEPT !.st = "sent", !.notices = n,
                                                        !.version = speaks]]
  /\ beat' = k
  /\ pc' = "beat"
  /\ UNCHANGED <<rows, trust, revoking, revokeRows, late, cur, batch, outbox,
                 held, stopping, clockVars, envelopeVars, historyVars, boundVars>>

\* A pruned journal that cannot be saved is fatal.
CheckInPruneFails ==
  /\ pc = "idle"
  /\ ~stopping
  /\ Prune(mem) # mem
  /\ SaveFaults(Prune(mem))
  /\ ProcessEnds
  /\ UNCHANGED <<serverVars, clockVars,
                 envelopeVars, historyVars, interruptions, quarantines>>

\* Timeout, transport error or cancellation: the request may still be served.
HeartbeatGivenUp ==
  /\ pc = "beat"
  /\ pc' = "idle"
  /\ beat' = 0
  /\ hb' = AnswerDropped(beat)
  /\ UNCHANGED <<rows, trust, revoking, revokeRows, late, mem, cur, batch,
                 outbox, held, stopping, disk, clockVars,
                 envelopeVars, historyVars, boundVars>>

Handed(k) == {c \in Cmds : hb[k].writes[c] \in {"dispatched", "lease"}}

\* The answer arrives.  A quarantined agent does nothing more in this beat; an
\* active one first flushes its outbox.
ReceiveAck ==
  /\ pc = "beat"
  /\ hb[beat].st = "answered"
  /\ beat' = 0
  /\ hb' = [hb EXCEPT ![beat] = FreeSlot]
  /\ IF hb[beat].trust = "quarantined"
     THEN pc' = "idle" /\ UNCHANGED <<batch, outbox>>
     ELSE /\ pc' = "flushFirst"
          /\ batch' = Handed(beat)
          /\ outbox' = Pending(mem)
  /\ UNCHANGED <<rows, trust, revoking, revokeRows, late, mem, cur, held,
                 stopping, disk, clockVars, envelopeVars, historyVars, boundVars>>

-----------------------------------------------------------------------------
(***************************************************************************)
(* flushPendingResults: each result of the snapshot once, in any order;    *)
(* an entry is acknowledged only after the server's success was received.  *)
(***************************************************************************)
FlushCancelled == pc = "flushFirst" /\ stopping
Uploads(c) == pc \in Flushing /\ c \in outbox /\ ~FlushCancelled
StoredResult(c) == mem.entries[c].result

ReportAcknowledged(c) ==
  /\ Uploads(c)
  /\ Accepting(c) \/ Replayed(c, StoredResult(c))
  /\ SubmitResult(c, StoredResult(c))
  /\ Save(Acknowledge(mem, c))
  /\ outbox' = outbox \ {c}
  /\ UNCHANGED <<trust, hb, revoking, revokeRows, late, pc, cur, batch, held,
                 beat, stopping, clockVars, envelopeVars, execCount, outcome, boundVars>>

\* The acknowledgement cannot be persisted: fatal.
AcknowledgeFails(c) ==
  /\ Uploads(c)
  /\ Accepting(c) \/ Replayed(c, StoredResult(c))
  /\ SubmitResult(c, StoredResult(c))
  /\ SaveFaults(Acknowledge(mem, c))
  /\ ProcessEnds
  /\ UNCHANGED <<trust, hb, revoking, revokeRows, late, clockVars, envelopeVars, execCount,
                 outcome, interruptions, quarantines>>

\* Mutated form: the entry is acknowledged whatever the server answered.
MutReportUnansweredAcks(c) ==
  /\ Uploads(c)
  /\ SubmitResult(c, StoredResult(c))
  /\ Save(Acknowledge(mem, c))
  /\ outbox' = outbox \ {c}
  /\ UNCHANGED <<trust, hb, revoking, revokeRows, late, pc, cur, batch, held,
                 beat, stopping, clockVars, envelopeVars, execCount, outcome, boundVars>>

\* The server handled the upload and the agent saw an error: the answer was
\* lost, or it was a refusal.
ReportUnanswered(c) ==
  /\ Uploads(c)
  /\ SubmitResult(c, StoredResult(c))
  /\ outbox' = outbox \ {c}
  /\ UNCHANGED <<trust, hb, revoking, revokeRows, late, mem, disk, pc, cur,
                 batch, held, beat, stopping, clockVars, envelopeVars, execCount, outcome,
                 boundVars>>

\* The upload did not reach the server in time; it may still arrive.
ReportLost(c) ==
  /\ Uploads(c)
  /\ outbox' = outbox \ {c}
  /\ \/ UNCHANGED late
     \/ /\ Cardinality(late) < MaxLateReports
        /\ late' = late \cup {[cmd |-> c, result |-> StoredResult(c)]}
  /\ UNCHANGED <<rows, trust, hb, revoking, revokeRows, mem, disk, pc, cur,
                 batch, held, beat, stopping, clockVars,
                 envelopeVars, historyVars, boundVars>>

\* The flush returns: into the batch, to the next command, to the last flush
\* of the beat, or out of the beat.  A stop request ends the batch after the
\* command that was running.
FlushDone ==
  /\ pc \in Flushing
  /\ outbox = {} \/ FlushCancelled
  /\ \/ /\ pc = "flushFirst"
        /\ pc' = IF batch = {} THEN "idle" ELSE "take"
        /\ outbox' = {}
        /\ UNCHANGED batch
     \/ /\ pc = "flushCmd"
        /\ batch # {} /\ ~stopping
        /\ pc' = "take"
        /\ UNCHANGED <<batch, outbox>>
     \/ /\ pc = "flushCmd"
        /\ batch = {} \/ stopping
        /\ pc' = "flushLast"
        /\ batch' = {}
        /\ outbox' = Pending(mem)
     \/ /\ pc = "flushLast"
        /\ pc' = "idle"
        /\ UNCHANGED <<batch, outbox>>
  /\ UNCHANGED <<serverVars, mem, cur, held, beat, stopping, disk, clockVars, envelopeVars,
                 historyVars, boundVars>>

-----------------------------------------------------------------------------
(***************************************************************************)
(* processCommand, for the oldest command left in the batch.               *)
(***************************************************************************)
Oldest(c) == pc = "take" /\ c \in batch /\ \A d \in batch : c <= d

\* verify.ValidateCommandWindow: not issued in the future, not expired.
WindowValid(c) ==
  /\ rows[c].issuedAt <= agentClock + Skew
  /\ agentClock < ExpiresAt(c)

FlushAfter(j) == pc' = "flushCmd" /\ outbox' = Pending(j)

\* The results a command may be refused with, and the expiry of the refusal.
\* Before the signed expiry is trusted: identity, key or signature (an
\* unconstrained verdict here) or time window.  After it: a repeated nonce.
Refusals(c) ==
  {[result |-> "refused", expiry |-> agentClock + UnverifiedTTL]} \cup
  IF WindowValid(c) /\ ~Has(mem, c) /\ c \in mem.nonces
  THEN {[result |-> "repeat", expiry |-> ExpiresAt(c)]}
  ELSE {}

Refuse(c) ==
  /\ Oldest(c)
  /\ \E f \in Refusals(c) :
       LET j == StoreResult(mem, c, f.result, f.expiry) IN
         Save(j) /\ FlushAfter(j)
  /\ batch' = batch \ {c}
  /\ UNCHANGED <<serverVars, cur, held, beat, stopping, clockVars, envelopeVars,
                 historyVars, boundVars>>

\* A redelivered command is never run again; its retained result is requeued.
AnswerSeen(c) ==
  /\ Oldest(c)
  /\ WindowValid(c)
  /\ Has(mem, c)
  /\ LET j == RequeueAcknowledged(mem, c) IN Save(j) /\ FlushAfter(j)
  /\ batch' = batch \ {c}
  /\ UNCHANGED <<serverVars, cur, held, beat, stopping, clockVars, envelopeVars,
                 historyVars, boundVars>>

\* A fresh command: ID and nonce are reserved durably, or it is refused.
Fresh(c) == Oldest(c) /\ WindowValid(c) /\ ~Has(mem, c) /\ c \notin mem.nonces

Reserve(c) ==
  /\ Fresh(c)
  /\ Save(ReserveCommand(mem, c))
  /\ pc' = "reserved" /\ cur' = c /\ batch' = batch \ {c}
  /\ UNCHANGED <<serverVars, outbox, held, beat, stopping, clockVars, envelopeVars,
                 historyVars, boundVars>>

ReserveFails(c) ==
  /\ Fresh(c)
  /\ SaveFaults(ReserveCommand(mem, c))
  /\ pc' = "refuse" /\ cur' = c /\ batch' = batch \ {c}
  /\ UNCHANGED <<serverVars, mem, outbox, held, beat, stopping, clockVars, envelopeVars,
                 historyVars, interruptions, quarantines>>

BeginExecution ==
  /\ pc = "reserved"
  /\ Save(MarkExecuting(mem, cur))
  /\ pc' = "executing"
  /\ UNCHANGED <<serverVars, cur, batch, outbox, held, beat, stopping,
                 clockVars, envelopeVars, historyVars, boundVars>>

BeginExecutionFails ==
  /\ pc = "reserved"
  /\ SaveFaults(MarkExecuting(mem, cur))
  /\ pc' = "refuse"
  /\ UNCHANGED <<serverVars, mem, cur, batch, outbox, held, beat, stopping,
                 clockVars, envelopeVars, historyVars, interruptions, quarantines>>

QueueRefusal ==
  /\ pc = "refuse"
  /\ LET j == StoreResult(mem, cur, "refused", ExpiresAt(cur)) IN
       Save(j) /\ FlushAfter(j)
  /\ cur' = 0
  /\ UNCHANGED <<serverVars, batch, held, beat, stopping, clockVars, envelopeVars,
                 historyVars, boundVars>>

QueueRefusalFails ==
  /\ pc = "refuse"
  /\ SaveFaults(StoreResult(mem, cur, "refused", ExpiresAt(cur)))
  /\ ProcessEnds
  /\ UNCHANGED <<serverVars, clockVars,
                 envelopeVars, historyVars, interruptions, quarantines>>

Execute ==
  /\ pc = "executing"
  /\ \E r \in Outcomes :
       /\ held' = r
       /\ outcome' = [outcome EXCEPT ![cur] = r]
  /\ execCount' = [execCount EXCEPT ![cur] = @ + 1]
  /\ pc' = "ran"
  /\ UNCHANGED <<serverVars, mem, cur, batch, outbox, beat, stopping, disk,
                 clockVars, envelopeVars, completions, boundVars>>

StoreOutcome ==
  /\ pc = "ran"
  /\ LET j == StoreResult(mem, cur, held, ExpiresAt(cur)) IN
       Save(j) /\ FlushAfter(j)
  /\ cur' = 0 /\ held' = "none"
  /\ UNCHANGED <<serverVars, batch, beat, stopping, clockVars, envelopeVars, historyVars,
                 boundVars>>

\* The result cannot be persisted: fatal, the file still says "executing".
StoreOutcomeFails ==
  /\ pc = "ran"
  /\ SaveFaults(StoreResult(mem, cur, held, ExpiresAt(cur)))
  /\ ProcessEnds
  /\ UNCHANGED <<serverVars, clockVars,
                 envelopeVars, historyVars, interruptions, quarantines>>

-----------------------------------------------------------------------------
Operator == QuarantineAgent \/ RestoreAgent \/ RevokeRead \/ RevokeCommit

Server == \/ \E k \in Slots : HeartbeatRead(k) \/ HeartbeatCommit(k) \/ HeartbeatFails(k)
          \/ \E m \in late : LateReport(m)

CheckIn == \/ \E k \in Slots : BeginCheckIn(k)
           \/ CheckInPruneFails \/ HeartbeatGivenUp \/ ReceiveAck \/ FlushDone

Report(c) == \/ ReportAcknowledged(c) \/ AcknowledgeFails(c)
             \/ ReportUnanswered(c) \/ ReportLost(c)

ProcessCommand(c) == \/ Refuse(c) \/ AnswerSeen(c) \/ Reserve(c) \/ ReserveFails(c)

RunCommand == \/ BeginExecution \/ BeginExecutionFails \/ QueueRefusal
              \/ QueueRefusalFails \/ Execute \/ StoreOutcome \/ StoreOutcomeFails

Lifecycle == Crash \/ Start \/ StartFails \/ StopRequested \/ StopCompletes

Next ==
  \/ ServerTick \/ AgentTick
  \/ Operator
  \/ Server
  \/ CheckIn
  \/ \E c \in Cmds : DispatchCommand(c) \/ Report(c) \/ ProcessCommand(c)
  \/ RunCommand
  \/ Lifecycle

Spec == Init /\ [][Next]_vars

-----------------------------------------------------------------------------
(***************************************************************************)
(* Properties that hold whatever the network, the operators, interruptions and   *)
(* journal faults do.                                                      *)
(***************************************************************************)

\* No command is ever started twice, although the server redelivers rows
\* whose answer was lost and the journal is pruned (runner.go, replay.go).
AtMostOnce == \A c \in Cmds : execCount[c] <= 1

\* The result of an execution is still owed to the server in the journal file
\* (as a result or as an interrupted execution) until the server has recorded
\* a result for the command: no acknowledgement is written too early.
NoResultLost ==
  \A c \in Cmds : execCount[c] > 0 =>
    \/ disk.entries[c].state \in {"executing", "result_pending"}
    \/ completions[c] > 0

\* A success or failure recorded by the server, or owed to it in the journal,
\* is what the process returned, never the result of another attempt.
ResultsAreTrue ==
  \A c \in Cmds :
    /\ rows[c].result \in Outcomes => rows[c].result = outcome[c]
    /\ disk.entries[c].result \in Outcomes => disk.entries[c].result = outcome[c]

\* A command is never refused for its own nonce: recovery, prune and rolled
\* back saves keep the nonce entries within the command entries.
NoSpuriousRepeat ==
  \A c \in Cmds : rows[c].result # "repeat" /\ disk.entries[c].result # "repeat"

(***************************************************************************)
(* Properties of the system while no heartbeat outlives the agent's next   *)
(* one and the agent is not revoked (MaxOpenHeartbeats = 1, ~Revocable).   *)
(***************************************************************************)

\* What the row records of a command.  (The operator's list shows an open row whose
\* time is over as expired before a heartbeat has written it off.)
RecordedAnswer(c) ==
  CASE rows[c].status = "none" -> "unissued"
    [] rows[c].status \in Outstanding -> "open"
    [] rows[c].status = "expired" -> "expired"
    [] OTHER -> rows[c].result

Contract == INSTANCE CommandContract
              WITH ran <- outcome, answer <- [c \in Cmds |-> RecordedAnswer(c)]

\* The rows, the heartbeats, the network, the journal and its recovery keep the
\* contract of a command: it runs at most once, only while no answer is recorded;
\* an answer is given once and never taken back; a success or a failure is what the
\* process returned, and what is recorded as refused or expired has not run.
ImplementsContract == Contract!Spec

(***************************************************************************)
(* Progress.  The agent's loop, the server and the clocks keep going, the  *)
(* network does not lose every request forever (now and then the agent is  *)
(* still waiting when the server answers), and a quarantine ends.          *)
(***************************************************************************)
Fairness ==
  /\ WF_vars(ServerTick) /\ WF_vars(AgentTick)
  /\ WF_vars(trust = "quarantined" /\ RestoreAgent)
  /\ WF_vars(Start) /\ WF_vars(StopCompletes)
  /\ WF_vars(HeartbeatGivenUp) /\ SF_vars(ReceiveAck) /\ WF_vars(FlushDone)
  /\ WF_vars(RunCommand)
  /\ \A k \in Slots : /\ WF_vars(BeginCheckIn(k))
                       /\ WF_vars(HeartbeatRead(k)) /\ WF_vars(HeartbeatCommit(k))
                       /\ SF_vars(beat = k /\ HeartbeatRead(k))
                       /\ SF_vars(beat = k /\ HeartbeatCommit(k))
  /\ \A c \in Cmds : /\ WF_vars(ProcessCommand(c)) /\ WF_vars(Report(c))
                      /\ SF_vars(ReportAcknowledged(c))

FairSpec == Spec /\ Fairness

\* Every command an operator issued gets a result or expires, unless the endpoint
\* comes to run a build for which another envelope version is selected: a row of the
\* other version is neither delivered nor expired by its heartbeats.
EveryCommandResolves ==
  \A c \in Cmds : rows[c].status # "none"
                     ~> \/ rows[c].status \in Terminal \cup {"expired"}
                        \/ rows[c].version # speaks

\* A result in the outbox is eventually acknowledged by the server: no entry
\* is retried forever.
OutboxDrains ==
  \A c \in Cmds : disk.entries[c].state = "result_pending"
                     ~> disk.entries[c].state # "result_pending"
=============================================================================
