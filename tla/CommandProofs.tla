--------------------------- MODULE CommandProofs ---------------------------
(***************************************************************************)
(* Proofs about the commands of an endpoint.                               *)
(*                                                                         *)
(* CommandDelivery, for every number of commands, open heartbeats,         *)
(* crashes, journal faults, late uploads and clock values: its safety      *)
(* properties, and that it implements CommandContract while the requests   *)
(* of one agent do not overlap.                                            *)
(*                                                                         *)
(* Scheduler, which puts such commands into the queue, and the patch gate  *)
(* of PatchPolicies: its safety properties, for every number of tasks,     *)
(* endpoints and passes and any clock.                                     *)
(***************************************************************************)
EXTENDS CommandDelivery, Scheduler, FiniteSetTheorems, SequenceTheorems, TLAPS

(***************************************************************************)
(* The inductive invariant.                                                *)
(***************************************************************************)
Issued(c) == rows[c].status # "none"
Started   == {"executing", "result_pending", "acknowledged"}
Owed      == {"executing", "result_pending"}

\* A result is never a repeated nonce, and a success or failure is the outcome.
Truthful(r, c) == r # "repeat" /\ (r \in Outcomes => r = outcome[c])

\* What a journal says about command c.  A started command is remembered until
\* its signed window is over, which needs the entry's expiry to be the signed
\* one; it is owed until it was recorded; a nonce never outlives its entry.
Journaled(j, c) ==
  /\ execCount[c] > 0 =>
       /\ \/ ExpiresAt(c) < agentClock
          \/ j.entries[c].state \in Started /\ j.entries[c].expiry = ExpiresAt(c)
       /\ j.entries[c].state \in Owed \/ completions[c] > 0
  /\ c \in j.nonces =>
       Issued(c) /\ Has(j, c) /\ j.entries[c].expiry = ExpiresAt(c)
  /\ Truthful(j.entries[c].result, c)

DiskInv == \A c \in Cmds : Journaled(disk, c)
MemInv  == pc # "down" => \A c \in Cmds : Journaled(mem, c)

ServerInv ==
  /\ \A c \in Cmds :
       /\ rows[c].status \in Terminal => completions[c] > 0
       /\ Truthful(rows[c].result, c)
       /\ execCount[c] > 0 => Issued(c)
       /\ execCount[c] = 0 => outcome[c] = "none"
  /\ \A m \in late : Truthful(m.result, m.cmd)
  /\ \A k \in Slots : \A c \in Handed(k) : Issued(c)

Running(j, c) == j.entries[c].state = "executing" /\ j.entries[c].expiry = ExpiresAt(c)

AgentInv ==
  /\ \A c \in batch : Issued(c)
  /\ pc = "beat" => beat \in Slots
  /\ pc \in {"reserved", "refuse", "executing"} =>
       cur \in Cmds /\ Issued(cur) /\ execCount[cur] = 0
  /\ pc = "reserved" => mem.entries[cur].expiry = ExpiresAt(cur)
  /\ pc = "executing" => Running(mem, cur) /\ Running(disk, cur)
  /\ pc = "ran" => cur \in Cmds /\ held = outcome[cur]

IInv == TypeOK /\ DiskInv /\ MemInv /\ ServerInv /\ AgentInv /\ AtMostOnce


\* Recovery and pruning map journals to journals (replay.go).
LEMMA RecoverPrune ==
  \A j \in Journal : RecoverInterrupted(j) \in Journal /\ Prune(j) \in Journal
<1> USE DEF Journal, Entry, CommandExecutionState, Absent
<1> SUFFICES ASSUME NEW j \in Journal
             PROVE  RecoverInterrupted(j) \in Journal /\ Prune(j) \in Journal
  OBVIOUS
<1>1. \A d \in Cmds : RecoveredEntry(j.entries[d]) \in Entry
  BY DEF RecoveredEntry, Results
<1>2. RecoverInterrupted(j) \in Journal
  BY <1>1 DEF RecoverInterrupted
<1>3. Prune(j) \in Journal
  BY DEF Prune
<1> QED BY <1>2, <1>3

\* Every journal operation maps journals to journals (replay.go).
LEMMA JournalOps ==
  ASSUME TypeOK, NEW j \in Journal, NEW c \in Cmds, NEW x \in Nat,
         NEW r \in Results \cup {"none"}
  PROVE  /\ RecoverInterrupted(j) \in Journal
         /\ Prune(j) \in Journal
         /\ ReserveCommand(j, c) \in Journal
         /\ MarkExecuting(j, c) \in Journal
         /\ StoreResult(j, c, r, x) \in Journal
         /\ Acknowledge(j, c) \in Journal
         /\ RequeueAcknowledged(j, c) \in Journal
         /\ EmptyJournal \in Journal
         /\ ExpiresAt(c) \in Nat
<1>0. ExpiresAt(c) \in Nat
  BY CommandDeliveryConstants DEF ExpiresAt, TypeOK, Row
<1> USE DEF Journal, Entry, CommandExecutionState, Absent
<1>1. RecoverInterrupted(j) \in Journal /\ Prune(j) \in Journal
  BY RecoverPrune
<1>3. ReserveCommand(j, c) \in Journal
  BY <1>0 DEF ReserveCommand, WithEntry
<1>4. MarkExecuting(j, c) \in Journal
  BY DEF MarkExecuting
<1>5. StoreResult(j, c, r, x) \in Journal
  BY DEF StoreResult, WithEntry
<1>6. Acknowledge(j, c) \in Journal
  BY DEF Acknowledge
<1>7. RequeueAcknowledged(j, c) \in Journal
  BY DEF RequeueAcknowledged
<1>8. EmptyJournal \in Journal
  BY DEF EmptyJournal
<1> QED BY <1>0, <1>1, <1>3, <1>4, <1>5, <1>6, <1>7, <1>8

\* A request slot that nobody uses has the type of a request (heartbeat, agents.py).
LEMMA Slot == FreeSlot \in HeartbeatTxn
BY DEF FreeSlot, HeartbeatTxn, NoWrites, Writes, EnvelopeVersion

\* Every step of the server and of the agent keeps the types.
LEMMA TypeOKStep ==
  ASSUME TypeOK, AgentInv, [Next]_vars
  PROVE  TypeOK'
<1> USE DEF TypeOK
<1>h. /\ \A k \in Slots : hb[k] \in HeartbeatTxn
      /\ \A k : [hb EXCEPT ![k] = FreeSlot] \in [Slots -> HeartbeatTxn]
      /\ \A k : AnswerDropped(k) \in [Slots -> HeartbeatTxn]
  BY Slot DEF AnswerDropped
<1>v. /\ known \in EnvelopeVersion /\ speaks \in EnvelopeVersion
      /\ \A k \in Slots : hb[k].version \in EnvelopeVersion
  <2>1. known \in EnvelopeVersion /\ speaks \in EnvelopeVersion
    BY CommandDeliveryConstants DEF EnvelopeVersion
  <2>2. ASSUME NEW k \in Slots PROVE hb[k].version \in EnvelopeVersion
    BY <1>h, ZenonT(30) DEF HeartbeatTxn
  <2> QED BY <2>1, <2>2
<1>1. CASE ServerTick \/ AgentTick
  BY <1>1 DEF ServerTick, AgentTick, serverVars, agentVars, envelopeVars, historyVars,
              boundVars
<1>2. ASSUME NEW c \in Cmds, DispatchCommand(c) PROVE TypeOK'
  <2>1. rows' \in [Cmds -> Row]
    BY <1>2 DEF DispatchCommand, NoRow, Row, CommandStatus, Outstanding,
                EnvelopeVersion
  <2> QED BY <1>2, <2>1 DEF DispatchCommand, agentVars, clockVars, envelopeVars,
                            historyVars, boundVars
<1>3. CASE QuarantineAgent \/ RestoreAgent
  BY <1>3 DEF QuarantineAgent, RestoreAgent, agentVars, clockVars, envelopeVars,
              historyVars, boundVars
<1>3a. CASE RevokeRead
  <2>1. revoking' \in BOOLEAN
    BY <1>3a DEF RevokeRead
  <2>2. revokeRows' \in SUBSET Cmds
    BY <1>3a DEF RevokeRead
  <2> QED BY <1>3a, <2>1, <2>2 DEF RevokeRead, agentVars, clockVars, envelopeVars,
                                   historyVars,
                                   boundVars
<1>4. CASE RevokeCommit
  <2>1. rows' \in [Cmds -> Row]
    BY <1>4 DEF RevokeCommit, Row, CommandStatus
  <2> QED BY <1>4, <2>1 DEF RevokeCommit, agentVars, clockVars, envelopeVars,
                            historyVars, boundVars
<1>5. ASSUME NEW k \in Slots, HeartbeatRead(k) PROVE TypeOK'
  <2>1. PlannedWrites(k) \in [Cmds -> Writes] /\ NoWrites \in [Cmds -> Writes]
    BY DEF PlannedWrites, NoWrites, Writes
  <2>2. PICK w \in [Cmds -> Writes] :
          hb' = [hb EXCEPT ![k] = [hb[k] EXCEPT !.st = "read", !.notices = {},
                   !.at = serverClock, !.trust = trust, !.writes = w]]
    BY <1>5, <2>1 DEF HeartbeatRead
  <2>3. trust \in {"active", "quarantined"}
    BY <1>5 DEF HeartbeatRead
  <2>4. [hb[k] EXCEPT !.st = "read", !.notices = {}, !.at = serverClock,
                      !.trust = trust, !.writes = w] \in HeartbeatTxn
    BY <1>h, <2>3, ZenonT(30) DEF HeartbeatTxn
  <2>5. hb' \in [Slots -> HeartbeatTxn]
    BY <2>2, <2>4
  <2> QED BY <1>5, <2>5 DEF HeartbeatRead, agentVars, clockVars, envelopeVars,
                            historyVars, boundVars
<1>6. ASSUME NEW k \in Slots, HeartbeatCommit(k) PROVE TypeOK'
  <2>1. \A c \in Cmds : Written(rows[c], hb[k].writes[c], hb[k].at) \in Row
    <3> SUFFICES ASSUME NEW c \in Cmds
                 PROVE  Written(rows[c], hb[k].writes[c], hb[k].at) \in Row
      OBVIOUS
    <3>1. rows[c] \in Row /\ hb[k].writes[c] \in Writes /\ hb[k].at \in Nat
      BY <1>h DEF HeartbeatTxn
    <3>2. ASSUME NEW row \in Row, NEW w \in Writes, NEW at \in Nat
          PROVE  Written(row, w, at) \in Row
      BY DEF Written, Row, CommandStatus, Writes, Outstanding
    <3> QED BY <3>1, <3>2
  <2>2. [hb[k] EXCEPT !.st = "answered", !.at = 0] \in HeartbeatTxn
    BY <1>h, ZenonT(30) DEF HeartbeatTxn
  <2>3. hb' \in [Slots -> HeartbeatTxn]
    BY <1>6, <2>2, Slot DEF HeartbeatCommit
  <2>4. rows' \in [Cmds -> Row]
    BY <1>6, <2>1 DEF HeartbeatCommit
  <2>5. known' \in EnvelopeVersion /\ speaks' = speaks
    BY <1>6, <1>v DEF HeartbeatCommit
  <2> QED BY <1>6, <2>3, <2>4, <2>5 DEF HeartbeatCommit, agentVars, clockVars,
                                        envelopeVars, historyVars,
                                  boundVars
<1>7. ASSUME NEW k \in Slots, HeartbeatFails(k) PROVE TypeOK'
  BY <1>7, <1>h DEF HeartbeatFails, agentVars, clockVars, envelopeVars, historyVars,
                    boundVars
<1>8. ASSUME NEW c \in Cmds, NEW r \in Results \cup {"none"}, SubmitResult(c, r)
      PROVE  rows' \in [Cmds -> Row] /\ completions' \in [Cmds -> 0..2]
  <2>1. CASE Accepting(c)
    <3>1. [rows[c] EXCEPT !.result = r,
             !.status = IF r = "ok" THEN "succeeded" ELSE "failed"] \in Row
      BY ZenonT(30) DEF Row, CommandStatus, Terminal
    <3>2. rows' = [rows EXCEPT ![c] = [rows[c] EXCEPT !.result = r,
                     !.status = IF r = "ok" THEN "succeeded" ELSE "failed"]]
      BY <1>8, <2>1 DEF SubmitResult
    <3>3. completions' \in [Cmds -> 0..2]
      BY <1>8, <2>1 DEF SubmitResult
    <3> QED BY <3>1, <3>2, <3>3
  <2>2. CASE ~Accepting(c)
    BY <1>8, <2>2 DEF SubmitResult
  <2> QED BY <2>1, <2>2
<1>9. ASSUME NEW m \in late, LateReport(m) PROVE TypeOK'
  <2>1. m.cmd \in Cmds /\ m.result \in Results \cup {"none"}
    OBVIOUS
  <2>2. rows' \in [Cmds -> Row] /\ completions' \in [Cmds -> 0..2]
    BY <1>9, <1>8, <2>1 DEF LateReport
  <2> QED BY <1>9, <2>2 DEF LateReport, agentVars, clockVars, envelopeVars, boundVars
<1>e. EmptyJournal \in Journal
  BY DEF EmptyJournal, Journal, Absent, Entry, CommandExecutionState
<1>p. ASSUME ProcessEnds
      PROVE  /\ pc' \in PC /\ cur' \in Cmds \cup {0} /\ batch' \in SUBSET Cmds
             /\ outbox' \in SUBSET Cmds /\ held' \in Outcomes \cup {"none"}
             /\ beat' \in Slots \cup {0} /\ stopping' \in BOOLEAN /\ mem' \in Journal
  <2>1. stopping' \in BOOLEAN
    BY <1>p DEF ProcessEnds
  <2> QED BY <1>p, <1>e, <2>1 DEF ProcessEnds, PC
<1>10. CASE Crash
  BY <1>10, <1>h, <1>p DEF Crash, HbWithoutReader, clockVars, envelopeVars, historyVars
<1>10a. CASE StopRequested
  <2>1. stopping' \in BOOLEAN
    BY <1>10a DEF StopRequested
  <2> QED BY <1>10a, <2>1 DEF StopRequested, serverVars, clockVars, envelopeVars,
                              historyVars
<1>10b. CASE StopCompletes
  BY <1>10b, <1>p DEF StopCompletes, serverVars, clockVars, envelopeVars,
                      historyVars, boundVars
<1>j. ASSUME NEW j \in Journal, NEW c \in Cmds, NEW r \in Results \cup {"none"},
             NEW x \in Nat
      PROVE  /\ RecoverInterrupted(j) \in Journal /\ Prune(j) \in Journal
             /\ ReserveCommand(j, c) \in Journal /\ MarkExecuting(j, c) \in Journal
             /\ StoreResult(j, c, r, x) \in Journal /\ Acknowledge(j, c) \in Journal
             /\ RequeueAcknowledged(j, c) \in Journal /\ ExpiresAt(c) \in Nat
  BY JournalOps
<1>r. \A j \in Journal : RecoverInterrupted(j) \in Journal /\ Prune(j) \in Journal
  BY RecoverPrune
<1>11. CASE Start \/ StartFails
  BY <1>11, <1>r DEF Start, StartFails, Save, SaveFaults, serverVars, agentVars,
              clockVars, envelopeVars, historyVars, boundVars, PC
<1>12. ASSUME NEW k \in Slots, BeginCheckIn(k) PROVE TypeOK'
  <2>1. PICK n \in SUBSET Pending(Prune(mem)) :
          hb' = [hb EXCEPT ![k] = [FreeSlot EXCEPT !.st = "sent", !.notices = n, !.version = speaks]]
    BY <1>12 DEF BeginCheckIn
  <2>2. [FreeSlot EXCEPT !.st = "sent", !.notices = n, !.version = speaks] \in HeartbeatTxn
    BY <1>v, Slot DEF HeartbeatTxn, Pending
  <2>3. hb' \in [Slots -> HeartbeatTxn]
    BY <2>1, <2>2
  <2>4. mem' \in Journal /\ disk' \in Journal
    BY <1>12, <1>r DEF BeginCheckIn, Save
  <2> QED BY <1>12, <2>3, <2>4 DEF BeginCheckIn, clockVars, envelopeVars,
                                   historyVars, boundVars, PC
<1>13. CASE CheckInPruneFails
  BY <1>13, <1>r, <1>p DEF CheckInPruneFails, SaveFaults, serverVars, clockVars,
                           envelopeVars,
              historyVars
<1>14. CASE HeartbeatGivenUp \/ ReceiveAck
  BY <1>14, <1>h DEF HeartbeatGivenUp, ReceiveAck, Handed, Pending, clockVars,
                     envelopeVars,
              historyVars, boundVars, PC, Flushing
<1>15. CASE FlushDone
  BY <1>15 DEF FlushDone, Pending, serverVars, clockVars, envelopeVars, historyVars,
               boundVars,
              PC, Flushing
<1>16. ASSUME NEW c \in Cmds, Report(c) PROVE TypeOK'
  <2>1. StoredResult(c) \in Results \cup {"none"}
    BY DEF StoredResult, Journal, Entry
  <2>2. Acknowledge(mem, c) \in Journal
    BY <1>j, <2>1
  <2>3. CASE ReportAcknowledged(c)
    <3>1. rows' \in [Cmds -> Row] /\ completions' \in [Cmds -> 0..2]
      BY <2>3, <1>8, <2>1 DEF ReportAcknowledged
    <3> QED BY <2>2, <2>3, <3>1 DEF ReportAcknowledged, Save, clockVars,
                                    envelopeVars, boundVars
  <2>4. CASE AcknowledgeFails(c)
    <3>1. rows' \in [Cmds -> Row] /\ completions' \in [Cmds -> 0..2]
      BY <2>4, <1>8, <2>1 DEF AcknowledgeFails
    <3> QED BY <2>2, <2>4, <3>1, <1>p DEF AcknowledgeFails, SaveFaults, clockVars,
                                          envelopeVars
  <2>5. CASE ReportUnanswered(c)
    <3>1. rows' \in [Cmds -> Row] /\ completions' \in [Cmds -> 0..2]
      BY <2>5, <1>8, <2>1 DEF ReportUnanswered
    <3> QED BY <2>5, <3>1 DEF ReportUnanswered, clockVars, envelopeVars, boundVars
  <2>6. CASE ReportLost(c)
    BY <2>6, <2>1 DEF ReportLost, clockVars, envelopeVars, historyVars, boundVars
  <2> QED BY <1>16, <2>3, <2>4, <2>5, <2>6 DEF Report
<1>17. ASSUME NEW c \in Cmds, ProcessCommand(c) PROVE TypeOK'
  <2>1. "refused" \in Results \cup {"none"} /\ "repeat" \in Results \cup {"none"}
    BY DEF Results
  <2>2. ExpiresAt(c) \in Nat /\ agentClock + UnverifiedTTL \in Nat
    BY <1>j, <2>1, CommandDeliveryConstants
  <2>3. CASE Refuse(c)
    <3>1. PICK f \in Refusals(c) :
            LET j == StoreResult(mem, c, f.result, f.expiry) IN Save(j) /\ FlushAfter(j)
      BY <2>3 DEF Refuse
    <3>2. f.result \in Results \cup {"none"} /\ f.expiry \in Nat
      BY <2>1, <2>2 DEF Refusals
    <3>3. StoreResult(mem, c, f.result, f.expiry) \in Journal
      BY <1>j, <3>2
    <3> QED BY <2>3, <3>1, <3>3 DEF Refuse, Save, FlushAfter, Pending, serverVars,
                  clockVars, envelopeVars, historyVars, boundVars, PC, Flushing
  <2>4. CASE AnswerSeen(c)
    <3>1. RequeueAcknowledged(mem, c) \in Journal
      BY <1>j, <2>1, <2>2
    <3> QED BY <2>4, <3>1 DEF AnswerSeen, Save, FlushAfter, Pending, serverVars,
                  clockVars, envelopeVars, historyVars, boundVars, PC, Flushing
  <2>5. CASE Reserve(c) \/ ReserveFails(c)
    <3>1. ReserveCommand(mem, c) \in Journal
      BY <1>j, <2>1, <2>2
    <3> QED BY <2>5, <3>1 DEF Reserve, ReserveFails, Save, SaveFaults, serverVars,
                  clockVars, envelopeVars, historyVars, boundVars, PC
  <2> QED BY <1>17, <2>3, <2>4, <2>5 DEF ProcessCommand
<1>18. CASE RunCommand
  <2>1. (pc \in {"reserved", "refuse", "executing", "ran"}) => cur \in Cmds
    BY DEF AgentInv
  <2>2. "refused" \in Results \cup {"none"} /\ held \in Results \cup {"none"}
    BY DEF Results
  <2>3. ASSUME cur \in Cmds
        PROVE  /\ MarkExecuting(mem, cur) \in Journal
               /\ StoreResult(mem, cur, "refused", ExpiresAt(cur)) \in Journal
               /\ StoreResult(mem, cur, held, ExpiresAt(cur)) \in Journal
    <3>1. ExpiresAt(cur) \in Nat
      BY <1>j, <2>2, <2>3
    <3> QED BY <1>j, <2>2, <2>3, <3>1
  <2>4. CASE BeginExecution \/ BeginExecutionFails
    BY <2>4, <2>1, <2>3 DEF BeginExecution, BeginExecutionFails, Save, SaveFaults,
          serverVars, clockVars, envelopeVars, historyVars, boundVars, PC
  <2>5. CASE QueueRefusal \/ StoreOutcome
    BY <2>5, <2>1, <2>3 DEF QueueRefusal, StoreOutcome, Save, FlushAfter, Pending,
          serverVars, clockVars, envelopeVars, historyVars, boundVars, PC, Flushing
  <2>6. CASE QueueRefusalFails \/ StoreOutcomeFails
    BY <2>6, <2>1, <2>3, <1>p DEF QueueRefusalFails, StoreOutcomeFails, SaveFaults,
          serverVars, clockVars, envelopeVars, historyVars, boundVars
  <2>7. CASE Execute
    <3>1. PICK r \in Outcomes : held' = r /\ outcome' = [outcome EXCEPT ![cur] = r]
      BY <2>7 DEF Execute
    <3>2. outcome' \in [Cmds -> Outcomes \cup {"none"}]
      BY <3>1
    <3>3. execCount' \in [Cmds -> Nat]
      BY <2>7, <2>1 DEF Execute
    <3> QED BY <2>7, <3>1, <3>2, <3>3 DEF Execute, serverVars, clockVars,
                                          envelopeVars, boundVars, PC
  <2> QED BY <1>18, <2>4, <2>5, <2>6, <2>7 DEF RunCommand
<1>19. CASE UNCHANGED vars
  BY <1>19 DEF vars, serverVars, agentVars, clockVars, envelopeVars, historyVars,
               boundVars
<1> QED
  BY <1>1, <1>2, <1>3, <1>3a, <1>4, <1>5, <1>6, <1>7, <1>9, <1>10, <1>10a, <1>10b, <1>11, <1>12, <1>13,
     <1>14, <1>15, <1>16, <1>17, <1>18, <1>19
     DEF Next, Operator, Server, CheckIn, Lifecycle

-----------------------------------------------------------------------------
(***************************************************************************)
(* What the journal operations preserve.                                   *)
(***************************************************************************)

\* Recovery and pruning forget no started command within its window, no result
\* that is owed, and no entry before its nonce.
LEMMA RecoverPruneKept ==
  ASSUME TypeOK, NEW j \in Journal, \A c \in Cmds : Journaled(j, c)
  PROVE  \A c \in Cmds : /\ Journaled(RecoverInterrupted(j), c)
                         /\ Journaled(Prune(j), c)
<1> SUFFICES ASSUME NEW c \in Cmds
             PROVE  Journaled(RecoverInterrupted(j), c) /\ Journaled(Prune(j), c)
  OBVIOUS
<1>0. j.entries[c] \in Entry /\ ExpiresAt(c) \in Nat /\ agentClock \in Nat
  BY CommandDeliveryConstants DEF Journal, TypeOK, ExpiresAt, Row
<1>1. Journaled(RecoverInterrupted(j), c)
  <2>1. /\ RecoverInterrupted(j).entries[c] = RecoveredEntry(j.entries[c])
        /\ c \in RecoverInterrupted(j).nonces
             <=> c \in j.nonces /\ j.entries[c].state # "reserved"
    BY DEF RecoverInterrupted, Journal
  <2> QED BY <1>0, <2>1 DEF Journaled, RecoveredEntry, Has, Started, Owed, Truthful,
                            Outcomes, Entry, Absent, CommandExecutionState
<1>2. Journaled(Prune(j), c)
  <2>1. /\ Prune(j).entries[c] = IF Prunable(j.entries[c]) THEN Absent ELSE j.entries[c]
        /\ c \in Prune(j).nonces <=> c \in j.nonces /\ ~(ExpiresAt(c) < agentClock)
    BY DEF Prune, Journal
  <2> QED BY <1>0, <2>1 DEF Journaled, Prunable, Has, Started, Owed, Truthful,
                            Outcomes, Entry, Absent, CommandExecutionState
<1> QED BY <1>1, <1>2

\* A single-entry operation on command d keeps what the journal says about
\* every command, under the condition its caller establishes.
LEMMA EntryOpsKept ==
  ASSUME TypeOK, NEW j \in Journal, \A c \in Cmds : Journaled(j, c),
         NEW d \in Cmds
  PROVE  /\ \A r \in Results \cup {"none"} : \A x \in Nat : Truthful(r, d) =>
              \A c \in Cmds : Journaled(StoreResult(j, d, r, x), c)
         /\ execCount[d] = 0 /\ Issued(d) =>
              \A c \in Cmds : Journaled(ReserveCommand(j, d), c)
         /\ \A c \in Cmds : Journaled(MarkExecuting(j, d), c)
         /\ \A c \in Cmds : Journaled(RequeueAcknowledged(j, d), c)
<1>0. /\ \A c \in Cmds : j.entries[c] \in Entry /\ ExpiresAt(c) \in Nat
      /\ execCount \in [Cmds -> Nat]
  BY CommandDeliveryConstants DEF Journal, TypeOK, ExpiresAt, Row
<1>1. ASSUME NEW r \in Results \cup {"none"}, NEW x \in Nat, Truthful(r, d),
             NEW c \in Cmds
      PROVE  Journaled(StoreResult(j, d, r, x), c)
  <2>1. CASE ResultStored(j, d)
    BY <2>1 DEF StoreResult
  <2>2. CASE ~ResultStored(j, d) /\ c = d
    <3>1. /\ StoreResult(j, d, r, x).nonces = j.nonces
          /\ StoreResult(j, d, r, x).entries[c] =
               [state |-> "result_pending", result |-> r,
                expiry |-> IF Has(j, d) THEN j.entries[d].expiry ELSE x]
      BY <2>2 DEF StoreResult, WithEntry, Journal
    <3> QED BY <1>0, <1>1, <2>2, <3>1 DEF Journaled, Has, Started, Owed
  <2>3. CASE ~ResultStored(j, d) /\ c # d
    <3>1. /\ StoreResult(j, d, r, x).nonces = j.nonces
          /\ StoreResult(j, d, r, x).entries[c] = j.entries[c]
      BY <2>3 DEF StoreResult, WithEntry, Journal
    <3> QED BY <3>1 DEF Journaled, Has
  <2> QED BY <2>1, <2>2, <2>3
<1>2. ASSUME execCount[d] = 0, Issued(d), NEW c \in Cmds
      PROVE  Journaled(ReserveCommand(j, d), c)
  <2>1. CASE c = d
    <3>1. ReserveCommand(j, d).entries[c] =
            [state |-> "reserved", result |-> "none", expiry |-> ExpiresAt(d)]
      BY <2>1 DEF ReserveCommand, WithEntry, Journal
    <3> QED BY <1>0, <1>2, <2>1, <3>1 DEF Journaled, Has, Truthful, Outcomes
  <2>2. CASE c # d
    <3>1. /\ ReserveCommand(j, d).entries[c] = j.entries[c]
          /\ c \in ReserveCommand(j, d).nonces <=> c \in j.nonces
      BY <2>2 DEF ReserveCommand, WithEntry, Journal
    <3> QED BY <3>1 DEF Journaled, Has
  <2> QED BY <2>1, <2>2
<1>3. ASSUME NEW c \in Cmds PROVE Journaled(MarkExecuting(j, d), c)
  <2>1. /\ MarkExecuting(j, d).nonces = j.nonces
        /\ MarkExecuting(j, d).entries[c] =
             IF c = d THEN [j.entries[c] EXCEPT !.state = "executing"] ELSE j.entries[c]
    BY DEF MarkExecuting, Journal
  <2> QED BY <1>0, <2>1 DEF Journaled, Has, Started, Owed, Truthful, Entry
<1>4. ASSUME NEW c \in Cmds PROVE Journaled(RequeueAcknowledged(j, d), c)
  <2>1. /\ RequeueAcknowledged(j, d).nonces = j.nonces
        /\ RequeueAcknowledged(j, d).entries[c] =
             IF c = d /\ j.entries[c].state = "acknowledged"
             THEN [j.entries[c] EXCEPT !.state = "result_pending"] ELSE j.entries[c]
    BY DEF RequeueAcknowledged, Journal
  <2> QED BY <1>0, <2>1 DEF Journaled, Has, Started, Owed, Truthful, Entry
<1> QED BY <1>1, <1>2, <1>3, <1>4

\* What a journal says stays true while time passes and results are recorded.
LEMMA JournaledLater ==
  ASSUME TypeOK, TypeOK', NEW j \in Journal, NEW c \in Cmds, Journaled(j, c),
         rows'[c].issuedAt = rows[c].issuedAt, Issued(c) => Issued(c)',
         execCount'[c] = execCount[c], outcome'[c] = outcome[c],
         completions'[c] >= completions[c], agentClock' >= agentClock
  PROVE  Journaled(j, c)'
<1>1. ExpiresAt(c) \in Nat /\ ExpiresAt(c)' = ExpiresAt(c)
  BY CommandDeliveryConstants DEF ExpiresAt, TypeOK, Row
<1>2. agentClock \in Nat /\ agentClock' \in Nat
  BY DEF TypeOK
<1>3. completions[c] \in 0..2 /\ completions'[c] \in 0..2
  BY DEF TypeOK
<1> QED BY <1>1, <1>2, <1>3 DEF Journaled, Has, Truthful

\* An entry may be acknowledged once the server has recorded a result.
LEMMA AcknowledgedLater ==
  ASSUME TypeOK', NEW j \in Journal, NEW c \in Cmds, NEW d \in Cmds,
         Journaled(j, c)', completions'[d] > 0
  PROVE  Journaled(Acknowledge(j, d), c)'
<1>1. /\ Acknowledge(j, d).nonces = j.nonces
      /\ Acknowledge(j, d).entries[c] =
           IF c = d THEN [j.entries[c] EXCEPT !.state = "acknowledged"] ELSE j.entries[c]
  BY DEF Acknowledge, Journal
<1>2. j.entries[c] \in Entry
  BY DEF Journal
<1> QED BY <1>1, <1>2 DEF Journaled, Has, Started, Owed, Truthful, Entry

-----------------------------------------------------------------------------
(***************************************************************************)
(* Every step keeps the inductive invariant.                               *)
(***************************************************************************)

\* Steps of the server and of the clocks: no process starts, no journal moves.
LEMMA ServerStep ==
  ASSUME IInv, TypeOK',
         UNCHANGED <<disk, mem, pc, cur, batch, held, beat, execCount, outcome>>,
         agentClock' >= agentClock,
         \A c \in Cmds : /\ Issued(c) => Issued(c)'
                         /\ Issued(c) => rows'[c].issuedAt = rows[c].issuedAt
                         /\ rows'[c].status \in Terminal => completions'[c] > 0
                         /\ Truthful(rows'[c].result, c)
                         /\ completions'[c] >= completions[c],
         late' \in SUBSET late,
         \A k \in Slots : \A c \in Handed(k)' : Issued(c)
  PROVE  IInv'
<1> USE DEF IInv
<1>0. \A c \in Cmds : Issued(c) => ExpiresAt(c)' = ExpiresAt(c)
  BY DEF ExpiresAt
<1>1. ASSUME NEW j \in Journal, NEW c \in Cmds, Journaled(j, c) PROVE Journaled(j, c)'
  <2>1. CASE Issued(c)
    BY <1>1, <2>1, JournaledLater
  <2>2. CASE ~Issued(c)
    <3>1. ~(execCount[c] > 0) /\ ~(execCount'[c] > 0)
      BY <2>2 DEF ServerInv
    <3> QED BY <1>1, <2>2, <3>1 DEF Journaled, Truthful
  <2> QED BY <2>1, <2>2
<1>2. DiskInv' /\ MemInv'
  BY <1>1 DEF DiskInv, MemInv, TypeOK
<1>3. ServerInv'
  <2>1. \A m \in late' : Truthful(m.result, m.cmd)'
    BY DEF ServerInv, Truthful
  <2>2. \A k \in Slots : \A c \in Handed(k)' : Issued(c)'
    BY DEF Handed
  <2>3. \A c \in Cmds : Truthful(rows[c].result, c)'
    BY DEF Truthful
  <2>4. \A c \in Cmds : (execCount[c] > 0 => Issued(c))' /\ (execCount[c] = 0 => outcome[c] = "none")'
    BY DEF ServerInv
  <2> QED BY <2>1, <2>2, <2>3, <2>4 DEF ServerInv
<1>4. AgentInv'
  <2>1. \A c \in batch' : Issued(c)'
    BY DEF AgentInv, TypeOK
  <2>2. pc \in {"reserved", "refuse", "executing"} => ExpiresAt(cur)' = ExpiresAt(cur)
    BY <1>0 DEF AgentInv, ExpiresAt
  <2> QED BY <2>1, <2>2 DEF AgentInv, Running
<1>5. AtMostOnce'
  BY DEF AtMostOnce
<1> QED BY <1>2, <1>3, <1>4, <1>5

\* Steps of the agent that run nothing and record nothing at the server.
LEMMA AgentStep ==
  ASSUME IInv, TypeOK',
         UNCHANGED <<rows, late, agentClock, execCount, outcome, completions>>,
         \A c \in Cmds : Journaled(disk', c),
         pc' # "down" => \A c \in Cmds : Journaled(mem', c),
         \A k \in Slots : \A c \in Handed(k)' : Issued(c),
         AgentInv'
  PROVE  IInv'
<1> USE DEF IInv
<1>1. DiskInv' /\ MemInv'
  BY DEF DiskInv, MemInv, Journaled, Has, Truthful, Issued, ExpiresAt
<1>2. ServerInv'
  <2>1. \A m \in late' : Truthful(m.result, m.cmd)'
    BY DEF ServerInv, Truthful
  <2>2. \A c \in Cmds : Issued(c)' <=> Issued(c)
    BY DEF Issued
  <2>3. \A k \in Slots : \A c \in Handed(k)' : Issued(c)'
    BY <2>2 DEF Handed
  <2>4. \A c \in Cmds : Truthful(rows[c].result, c)'
    BY DEF ServerInv, Truthful
  <2> QED BY <2>1, <2>2, <2>3, <2>4 DEF ServerInv
<1>3. AtMostOnce'
  BY DEF AtMostOnce
<1> QED BY <1>1, <1>2, <1>3

\* A request slot that is freed, sent or already answered hands out nothing
\* that was not issued.
LEMMA HandedKept ==
  ASSUME IInv, NEW k,
         hb' = hb \/ hb' = [hb EXCEPT ![k] = FreeSlot] \/ hb' = AnswerDropped(k)
  PROVE  \A i \in Slots : \A c \in Handed(i)' : Issued(c)
<1>1. \A i \in Slots : hb[i] \in HeartbeatTxn
  BY DEF IInv, TypeOK
<1>2. \A i \in Slots : hb'[i] = hb[i] \/ hb'[i] = FreeSlot
  BY DEF IInv, TypeOK, AnswerDropped
<1>3. \A i \in Slots : \A c \in Handed(i)' : c \in Handed(i)
  BY <1>2 DEF Handed, FreeSlot, NoWrites
<1> QED BY <1>3 DEF IInv, ServerInv

\* IInv is inductive.
LEMMA IInvStep ==
  ASSUME IInv, [Next]_vars
  PROVE  IInv'
<1>t. TypeOK'
  BY TypeOKStep DEF IInv
<1>d. TypeOK /\ AgentInv /\ ServerInv /\ DiskInv /\ MemInv /\ AtMostOnce
  BY DEF IInv
<1>m. disk \in Journal /\ mem \in Journal /\ execCount \in [Cmds -> Nat]
  BY <1>d DEF TypeOK
<1>h. \A k \in Slots : \A c \in Handed(k) : Issued(c)
  BY <1>d DEF ServerInv
<1>r. \A c \in Cmds : /\ rows[c].status \in Terminal => completions[c] > 0
                      /\ Truthful(rows[c].result, c)
  BY <1>d DEF ServerInv
<1>1. CASE ServerTick \/ AgentTick
  <2>1. agentClock' >= agentClock
    BY <1>1, <1>d DEF ServerTick, AgentTick, clockVars, TypeOK
  <2>2. UNCHANGED <<rows, hb, late, completions>>
    BY <1>1 DEF ServerTick, AgentTick, serverVars, historyVars
  <2>3. UNCHANGED <<disk, mem, pc, cur, batch, held, beat, execCount, outcome>>
    BY <1>1 DEF ServerTick, AgentTick, agentVars, historyVars
  <2>4. \A k \in Slots : \A c \in Handed(k)' : Issued(c)
    BY <2>2, <1>h DEF Handed
  <2>5. \A c \in Cmds : completions'[c] >= completions[c]
    BY <2>2, <1>d DEF TypeOK
  <2> QED BY <1>t, <1>r, <2>1, <2>2, <2>3, <2>4, <2>5, ServerStep DEF Issued
<1>2. ASSUME NEW d \in Cmds, DispatchCommand(d) PROVE IInv'
  <2>1. UNCHANGED <<hb, late, completions, agentClock, disk, mem, pc, cur, batch,
                    held, beat, execCount, outcome>>
    BY <1>2 DEF DispatchCommand, agentVars, clockVars, historyVars
  <2>2. \A c \in Cmds : c # d => rows'[c] = rows[c]
    BY <1>2, <1>d DEF DispatchCommand, TypeOK
  <2>3. rows'[d].status = "queued" /\ rows'[d].result = "none"
    BY <1>2, <1>d DEF DispatchCommand, TypeOK, NoRow
  <2>4. ~Issued(d)
    BY <1>2 DEF DispatchCommand, Issued
  <2>5. \A c \in Cmds : /\ Issued(c) => Issued(c)'
                        /\ Issued(c) => rows'[c].issuedAt = rows[c].issuedAt
                        /\ rows'[c].status \in Terminal => completions'[c] > 0
                        /\ Truthful(rows'[c].result, c)
    BY <1>r, <2>1, <2>2, <2>3, <2>4 DEF Issued, Terminal, Truthful, Outcomes
  <2>6. \A c \in Cmds : completions'[c] >= completions[c]
    BY <2>1, <1>d DEF TypeOK
  <2>7. agentClock' >= agentClock
    BY <2>1, <1>d DEF TypeOK
  <2>8. \A k \in Slots : \A c \in Handed(k)' : Issued(c)
    BY <2>1, <1>h DEF Handed
  <2> QED BY <1>t, <2>1, <2>5, <2>6, <2>7, <2>8, ServerStep
<1>c. ASSUME NEW c \in Cmds PROVE completions[c] >= completions[c] /\ agentClock >= agentClock
  BY <1>d DEF TypeOK
<1>3. CASE QuarantineAgent \/ RestoreAgent \/ RevokeRead
  <2>1. UNCHANGED <<rows, hb, late, completions, agentClock, disk, mem, pc, cur, batch,
                    held, beat, execCount, outcome>>
    BY <1>3 DEF QuarantineAgent, RestoreAgent, RevokeRead, agentVars, clockVars,
                historyVars
  <2>2. \A k \in Slots : \A c \in Handed(k)' : Issued(c)
    BY <2>1, <1>h DEF Handed
  <2>3. agentClock' >= agentClock
    BY <2>1, <1>d DEF TypeOK
  <2> QED BY <1>t, <1>r, <1>c, <2>1, <2>2, <2>3, ServerStep DEF Issued
<1>4. CASE RevokeCommit
  <2>1. UNCHANGED <<hb, late, completions, agentClock, disk, mem, pc, cur, batch,
                    held, beat, execCount, outcome>>
    BY <1>4 DEF RevokeCommit, agentVars, clockVars, historyVars
  <2>2. \A k \in Slots : \A c \in Handed(k)' : Issued(c)
    BY <2>1, <1>h DEF Handed
  <2>3. \A c \in Cmds : /\ rows'[c].issuedAt = rows[c].issuedAt
                        /\ rows'[c].result = rows[c].result
                        /\ rows'[c].status \in {rows[c].status, "expired"}
    BY <1>4, <1>d DEF RevokeCommit, TypeOK, Row
  <2>4. \A c \in Cmds : /\ Issued(c) => Issued(c)'
                        /\ rows'[c].status \in Terminal => completions'[c] > 0
    BY <2>1, <2>3, <1>r DEF Issued, Terminal
  <2>5. agentClock' >= agentClock
    BY <2>1, <1>d DEF TypeOK
  <2> QED BY <1>t, <1>r, <1>c, <2>1, <2>2, <2>3, <2>4, <2>5, ServerStep
<1>5. ASSUME NEW k \in Slots, HeartbeatRead(k) PROVE IInv'
  <2>1. UNCHANGED <<rows, late, completions, agentClock, disk, mem, pc, cur, batch,
                    held, beat, execCount, outcome>>
    BY <1>5 DEF HeartbeatRead, agentVars, clockVars, historyVars
  <2>2. \A i \in Slots : i # k => hb'[i] = hb[i]
    BY <1>5, <1>d DEF HeartbeatRead, TypeOK
  <2>3. hb'[k].writes \in {PlannedWrites(k), NoWrites}
    <3>1. hb[k] \in HeartbeatTxn
      BY <1>d DEF TypeOK
    <3> QED BY <1>5, <1>d, <3>1 DEF HeartbeatRead, TypeOK, HeartbeatTxn
  <2>4. \A c \in Cmds : PlannedWrites(k)[c] \in {"dispatched", "lease"} => Issued(c)
    BY DEF PlannedWrites, Issued
  <2>5. \A i \in Slots : \A c \in Handed(i)' : Issued(c)
    BY <2>2, <2>3, <2>4, <1>h DEF Handed, NoWrites
  <2>6. agentClock' >= agentClock
    BY <2>1, <1>d DEF TypeOK
  <2> QED BY <1>t, <1>r, <1>c, <2>1, <2>5, <2>6, ServerStep DEF Issued
<1>6. ASSUME NEW k \in Slots, HeartbeatCommit(k) PROVE IInv'
  <2>1. UNCHANGED <<late, completions, agentClock, disk, mem, pc, cur, batch,
                    held, beat, execCount, outcome>>
    BY <1>6 DEF HeartbeatCommit, agentVars, clockVars, historyVars
  <2>2. \A i \in Slots : hb'[i].writes = hb[i].writes \/ hb'[i] = FreeSlot
    <3>1. \A i \in Slots : hb[i] \in HeartbeatTxn
      BY <1>d DEF TypeOK
    <3>2. [hb[k] EXCEPT !.st = "answered", !.at = 0].writes = hb[k].writes
      BY <3>1 DEF HeartbeatTxn
    <3> QED BY <1>6, <1>d, <3>2 DEF HeartbeatCommit, TypeOK
  <2>3. \A i \in Slots : \A c \in Handed(i)' : Issued(c)
    BY <2>2, <1>h DEF Handed, FreeSlot, NoWrites
  <2>4. ASSUME NEW row \in Row, NEW w \in Writes, NEW at \in Nat
        PROVE  /\ Written(row, w, at).issuedAt = row.issuedAt
               /\ Written(row, w, at).result = row.result
               /\ Written(row, w, at).status \in
                    {row.status, "dispatched", "expired", "result_pending"}
    BY DEF Written, Row, Writes
  <2>5. \A c \in Cmds : /\ rows'[c].issuedAt = rows[c].issuedAt
                        /\ rows'[c].result = rows[c].result
                        /\ rows'[c].status \in
                             {rows[c].status, "dispatched", "expired", "result_pending"}
    <3>1. \A c \in Cmds : rows[c] \in Row /\ hb[k].writes[c] \in Writes /\ hb[k].at \in Nat
      <4>1. hb[k] \in HeartbeatTxn
        BY <1>d DEF TypeOK
      <4> QED BY <4>1, <1>d DEF TypeOK, HeartbeatTxn
    <3>2. \A c \in Cmds : rows'[c] = Written(rows[c], hb[k].writes[c], hb[k].at)
      BY <1>6 DEF HeartbeatCommit
    <3> QED BY <2>4, <3>1, <3>2
  <2>6. \A c \in Cmds : /\ Issued(c) => Issued(c)'
                        /\ rows'[c].status \in Terminal => completions'[c] > 0
    BY <2>1, <2>5, <1>r DEF Issued, Terminal
  <2>7. agentClock' >= agentClock
    BY <2>1, <1>d DEF TypeOK
  <2> QED BY <1>t, <1>r, <1>c, <2>1, <2>3, <2>5, <2>6, <2>7, ServerStep
<1>7. ASSUME NEW k \in Slots, HeartbeatFails(k) PROVE IInv'
  <2>1. UNCHANGED <<rows, late, completions, agentClock, disk, mem, pc, cur, batch,
                    held, beat, execCount, outcome>>
    BY <1>7 DEF HeartbeatFails, agentVars, clockVars, historyVars
  <2>2. \A i \in Slots : \A c \in Handed(i)' : Issued(c)
    BY <1>7, HandedKept DEF HeartbeatFails
  <2>3. agentClock' >= agentClock
    BY <2>1, <1>d DEF TypeOK
  <2> QED BY <1>t, <1>r, <1>c, <2>1, <2>2, <2>3, ServerStep DEF Issued
\* What recording a result does to the rows.
<1>s. ASSUME NEW d \in Cmds, NEW r \in Results \cup {"none"}, Truthful(r, d),
             SubmitResult(d, r)
      PROVE  /\ \A c \in Cmds : /\ Issued(c) => Issued(c)'
                                /\ rows'[c].issuedAt = rows[c].issuedAt
                                /\ rows'[c].status \in Terminal => completions'[c] > 0
                                /\ Truthful(rows'[c].result, c)
                                /\ completions'[c] >= completions[c]
             /\ Accepting(d) \/ Replayed(d, r) => completions'[d] > 0
  <2>1. CASE Accepting(d)
    <3>1. rows[d] \in Row /\ rows \in [Cmds -> Row] /\ completions \in [Cmds -> 0..2]
      BY <1>d DEF TypeOK
    <3>2. rows' = [rows EXCEPT ![d] = [rows[d] EXCEPT !.result = r,
                     !.status = IF r = "ok" THEN "succeeded" ELSE "failed"]]
      BY <1>s, <2>1 DEF SubmitResult
    <3>3. /\ rows'[d].issuedAt = rows[d].issuedAt /\ rows'[d].result = r
          /\ rows'[d].status \in {"succeeded", "failed"}
      BY <3>1, <3>2 DEF Row
    <3>4. \A c \in Cmds : c # d => rows'[c] = rows[c]
      BY <3>1, <3>2
    <3>5. completions'[d] > 0 /\ \A c \in Cmds : completions'[c] >= completions[c]
      BY <1>s, <2>1, <3>1 DEF SubmitResult
    <3>6. \A c \in Cmds : c # d => completions'[c] = completions[c]
      BY <1>s, <2>1, <3>1 DEF SubmitResult
    <3> QED BY <1>s, <1>r, <3>3, <3>4, <3>5, <3>6 DEF Issued
  <2>2. CASE ~Accepting(d)
    <3>1. rows' = rows /\ completions' = completions
      BY <1>s, <2>2 DEF SubmitResult
    <3> QED BY <2>2, <3>1, <1>r, <1>c DEF Issued, Replayed
  <2> QED BY <2>1, <2>2
<1>9. ASSUME NEW m \in late, LateReport(m) PROVE IInv'
  <2>1. UNCHANGED <<hb, agentClock, disk, mem, pc, cur, batch, held, beat, execCount,
                    outcome>>
    BY <1>9 DEF LateReport, agentVars, clockVars
  <2>2. m.cmd \in Cmds /\ m.result \in Results \cup {"none"} /\ Truthful(m.result, m.cmd)
    BY <1>d DEF TypeOK, ServerInv
  <2>3. SubmitResult(m.cmd, m.result) /\ late' \in SUBSET late
    BY <1>9 DEF LateReport
  <2>4. \A k \in Slots : \A c \in Handed(k)' : Issued(c)
    BY <2>1, <1>h DEF Handed
  <2>5. agentClock' >= agentClock
    BY <2>1, <1>d DEF TypeOK
  <2> QED BY <1>t, <1>s, <2>1, <2>2, <2>3, <2>4, <2>5, ServerStep
\* Steps that end the process or leave its control state quiet.
<1>q. ASSUME rows' = rows, pc' \in {"down", "idle", "take"} \cup Flushing,
             batch' \in SUBSET batch
      PROVE  AgentInv'
  BY <1>q, <1>d DEF AgentInv, Issued, Flushing
<1>k. /\ \A c \in Cmds : Journaled(disk, c)
      /\ pc # "down" => \A c \in Cmds : Journaled(mem, c)
  BY <1>d DEF DiskInv, MemInv
<1>10. CASE Crash \/ StopCompletes
  <2>1. UNCHANGED <<rows, late, agentClock, execCount, outcome, completions, disk>>
    BY <1>10 DEF Crash, StopCompletes, serverVars, clockVars, historyVars
  <2>2. pc' = "down" /\ batch' = {}
    BY <1>10 DEF Crash, StopCompletes, ProcessEnds
  <2>3. \A k \in Slots : \A c \in Handed(k)' : Issued(c)
    BY <1>10, HandedKept DEF Crash, StopCompletes, HbWithoutReader, serverVars
  <2> QED BY <1>t, <1>k, <1>q, <2>1, <2>2, <2>3, AgentStep
<1>11. CASE StopRequested
  <2>1. UNCHANGED <<rows, late, agentClock, execCount, outcome, completions, disk, mem,
                    hb, pc, cur, batch, held, beat>>
    BY <1>11 DEF StopRequested, serverVars, clockVars, historyVars
  <2>2. \A k \in Slots : \A c \in Handed(k)' : Issued(c)
    BY <2>1, <1>h DEF Handed
  <2>3. AgentInv'
    BY <2>1, <1>d DEF AgentInv, Issued, Running, ExpiresAt
  <2> QED BY <1>t, <1>k, <2>1, <2>2, <2>3, AgentStep
\* Recovery and pruning of a journal of which IInv holds.
<1>rp. ASSUME NEW j \in Journal, \A c \in Cmds : Journaled(j, c)
       PROVE  /\ RecoverInterrupted(j) \in Journal
              /\ \A c \in Cmds : Journaled(RecoverInterrupted(j), c)
              /\ \A c \in Cmds : Journaled(Prune(j), c)
  BY <1>rp, <1>d, RecoverPrune, RecoverPruneKept
<1>12. CASE Start
  <2>1. UNCHANGED <<rows, late, hb, agentClock, execCount, outcome, completions, batch>>
    BY <1>12 DEF Start, serverVars, clockVars, historyVars
  <2>2. pc' = "idle" /\ disk' = Prune(RecoverInterrupted(disk)) /\ mem' = disk'
    BY <1>12 DEF Start, Save
  <2>3. \A c \in Cmds : Journaled(disk', c)
    BY <1>k, <1>m, <1>rp, <2>2
  <2>4. \A k \in Slots : \A c \in Handed(k)' : Issued(c)
    BY <2>1, HandedKept
  <2> QED BY <1>t, <1>q, <2>1, <2>2, <2>3, <2>4, AgentStep
<1>13. CASE StartFails
  <2>1. UNCHANGED <<rows, late, hb, agentClock, execCount, outcome, completions, pc, batch>>
    BY <1>13 DEF StartFails, serverVars, agentVars, clockVars, historyVars
  <2>2. pc = "down" /\ disk' \in {disk, RecoverInterrupted(disk)}
    BY <1>13 DEF StartFails, SaveFaults
  <2>3. \A c \in Cmds : Journaled(disk', c)
    BY <1>k, <1>m, <1>rp, <2>2
  <2>4. \A k \in Slots : \A c \in Handed(k)' : Issued(c)
    BY <2>1, HandedKept
  <2> QED BY <1>t, <1>q, <2>1, <2>2, <2>3, <2>4, AgentStep
<1>14. ASSUME NEW k \in Slots, BeginCheckIn(k) PROVE IInv'
  <2>1. UNCHANGED <<rows, late, agentClock, execCount, outcome, completions, batch>>
    BY <1>14 DEF BeginCheckIn, clockVars, historyVars
  <2>2. pc = "idle" /\ pc' = "beat" /\ beat' = k /\ disk' = Prune(mem) /\ mem' = Prune(mem)
    BY <1>14 DEF BeginCheckIn, Save
  <2>3. \A c \in Cmds : Journaled(disk', c) /\ Journaled(mem', c)
    BY <1>k, <1>m, <1>rp, <2>2
  <2>4. \E n : hb' = [hb EXCEPT ![k] = [FreeSlot EXCEPT !.st = "sent", !.notices = n, !.version = speaks]]
    BY <1>14 DEF BeginCheckIn
  <2>5. \A i \in Slots : hb'[i].writes = hb[i].writes \/ hb'[i].writes = NoWrites
    BY <2>4, <1>d DEF TypeOK, FreeSlot
  <2>6. \A i \in Slots : \A c \in Handed(i)' : Issued(c)
    BY <2>5, <1>h DEF Handed, NoWrites
  <2>7. AgentInv'
    BY <2>1, <2>2, <1>d DEF AgentInv, Issued
  <2> QED BY <1>t, <2>1, <2>2, <2>3, <2>6, <2>7, AgentStep
<1>15. CASE CheckInPruneFails
  <2>1. UNCHANGED <<rows, late, hb, agentClock, execCount, outcome, completions>>
    BY <1>15 DEF CheckInPruneFails, serverVars, clockVars, historyVars
  <2>2. pc = "idle" /\ pc' = "down" /\ batch' = {} /\ disk' \in {disk, Prune(mem)}
    BY <1>15 DEF CheckInPruneFails, ProcessEnds, SaveFaults
  <2>3. \A c \in Cmds : Journaled(disk', c)
    BY <1>k, <1>m, <1>rp, <2>2
  <2>4. \A k \in Slots : \A c \in Handed(k)' : Issued(c)
    BY <2>1, HandedKept
  <2> QED BY <1>t, <1>q, <2>1, <2>2, <2>3, <2>4, AgentStep
<1>16. CASE HeartbeatGivenUp \/ ReceiveAck
  <2>1. UNCHANGED <<rows, late, agentClock, execCount, outcome, completions, disk, mem>>
    BY <1>16 DEF HeartbeatGivenUp, ReceiveAck, clockVars, historyVars
  <2>2. pc = "beat" /\ pc' \in {"idle", "flushFirst"} /\ batch' \in {batch, Handed(beat)}
    BY <1>16 DEF HeartbeatGivenUp, ReceiveAck
  <2>3. \A k \in Slots : \A c \in Handed(k)' : Issued(c)
    BY <1>16, HandedKept DEF HeartbeatGivenUp, ReceiveAck
  <2>4. \A c \in batch' : Issued(c)'
    BY <2>1, <2>2, <1>h, <1>d DEF AgentInv, Issued
  <2>5. AgentInv'
    BY <2>2, <2>4 DEF AgentInv
  <2> QED BY <1>t, <1>k, <2>1, <2>2, <2>3, <2>5, AgentStep
<1>17. CASE FlushDone
  <2>1. UNCHANGED <<rows, late, hb, agentClock, execCount, outcome, completions, disk, mem>>
    BY <1>17 DEF FlushDone, serverVars, clockVars, historyVars
  <2>2. pc # "down" /\ pc' \in {"idle", "take", "flushLast"} /\ batch' \in SUBSET batch
    BY <1>17 DEF FlushDone, Flushing
  <2>3. \A k \in Slots : \A c \in Handed(k)' : Issued(c)
    BY <2>1, HandedKept
  <2> QED BY <1>t, <1>k, <1>q, <2>1, <2>2, <2>3, AgentStep DEF Flushing
<1>18. ASSUME NEW d \in Cmds, Report(d) PROVE IInv'
  <2>0. pc \in Flushing /\ pc # "down"
    BY <1>18 DEF Report, ReportAcknowledged, AcknowledgeFails, ReportUnanswered,
                 ReportLost, Uploads, Flushing
  <2>1. StoredResult(d) \in Results \cup {"none"} /\ Truthful(StoredResult(d), d)
    <3>1. StoredResult(d) \in Results \cup {"none"}
      BY <1>m DEF StoredResult, Journal, Entry
    <3>2. Truthful(StoredResult(d), d)
      BY <1>k, <2>0 DEF Journaled, StoredResult
    <3> QED BY <3>1, <3>2
  <2>2. CASE ReportLost(d)
    <3>1. UNCHANGED <<rows, hb, agentClock, execCount, outcome, completions, disk, mem,
                      pc, cur, batch, held, beat>>
      BY <2>2 DEF ReportLost, clockVars, historyVars
    <3>2. late' = late \/ late' = late \cup {[cmd |-> d, result |-> StoredResult(d)]}
      BY <2>2 DEF ReportLost
    <3>3. \A m \in late' : Truthful(m.result, m.cmd)
      BY <3>2, <2>1, <1>d DEF ServerInv
    <3>4. ServerInv'
      BY <3>1, <3>3, <1>d DEF ServerInv, Truthful, Issued, Handed
    <3>5. DiskInv' /\ MemInv'
      BY <3>1, <1>d DEF DiskInv, MemInv, Journaled, Has, Truthful, Issued, ExpiresAt
    <3>6. AgentInv' /\ AtMostOnce'
      BY <3>1, <2>0, <1>q, <1>d DEF AtMostOnce
    <3> QED BY <1>t, <3>4, <3>5, <3>6 DEF IInv
  <2>3. CASE ~ReportLost(d)
    <3>1. UNCHANGED <<hb, late, agentClock, execCount, outcome>>
      BY <1>18, <2>3 DEF Report, ReportAcknowledged, AcknowledgeFails, ReportUnanswered,
                         clockVars
    <3>2. SubmitResult(d, StoredResult(d))
      BY <1>18, <2>3 DEF Report, ReportAcknowledged, AcknowledgeFails, ReportUnanswered
    <3>3. /\ pc' \in {"down", pc} /\ batch' \in SUBSET batch
          /\ \/ disk' = disk /\ mem' = mem
             \/ /\ Accepting(d) \/ Replayed(d, StoredResult(d))
                /\ disk' \in {disk, Acknowledge(mem, d)}
                /\ pc' # "down" => mem' = disk' /\ disk' = Acknowledge(mem, d)
      BY <1>18, <2>3 DEF Report, ReportAcknowledged, AcknowledgeFails, ReportUnanswered,
                         Save, SaveFaults, ProcessEnds
    <3>4. /\ \A c \in Cmds : /\ Issued(c) => Issued(c)'
                             /\ rows'[c].issuedAt = rows[c].issuedAt
                             /\ rows'[c].status \in Terminal => completions'[c] > 0
                             /\ Truthful(rows'[c].result, c)
                             /\ completions'[c] >= completions[c]
          /\ Accepting(d) \/ Replayed(d, StoredResult(d)) => completions'[d] > 0
      BY <1>s, <2>1, <3>2
    <3>5. agentClock' >= agentClock
      BY <3>1, <1>d DEF TypeOK
    <3>6. ASSUME NEW j \in Journal, NEW c \in Cmds, Journaled(j, c)
          PROVE  /\ Journaled(j, c)'
                 /\ Accepting(d) \/ Replayed(d, StoredResult(d)) =>
                      Journaled(Acknowledge(j, d), c)'
      <4>1. Journaled(j, c)'
        BY <1>d, <1>t, <3>1, <3>4, <3>5, <3>6, JournaledLater
      <4> QED BY <1>t, <3>4, <4>1, AcknowledgedLater
    <3>7. DiskInv'
      <4>1. ASSUME NEW c \in Cmds PROVE Journaled(disk, c)'
        <5>1. CASE disk' = disk
          BY <5>1, <3>6, <1>k, <1>m
        <5>2. CASE disk' = Acknowledge(mem, d) /\ (Accepting(d) \/ Replayed(d, StoredResult(d)))
          BY <5>2, <3>6, <1>k, <1>m, <2>0
        <5> QED BY <5>1, <5>2, <3>3
      <4> QED BY <4>1 DEF DiskInv
    <3>8. MemInv'
      <4>1. ASSUME NEW c \in Cmds, pc' # "down" PROVE Journaled(mem, c)'
        <5>1. CASE mem' = mem
          BY <5>1, <3>6, <1>k, <1>m, <2>0
        <5>2. CASE mem' = Acknowledge(mem, d) /\ (Accepting(d) \/ Replayed(d, StoredResult(d)))
          BY <5>2, <3>6, <1>k, <1>m, <2>0
        <5> QED BY <5>1, <5>2, <3>3, <4>1
      <4> QED BY <4>1 DEF MemInv
    <3>9. ServerInv'
      BY <3>1, <3>4, <1>d DEF ServerInv, Truthful, Handed
    <3>10. AgentInv'
      BY <3>3, <3>4, <2>0, <1>d DEF AgentInv, TypeOK, Flushing
    <3>11. AtMostOnce'
      BY <3>1, <1>d DEF AtMostOnce
    <3> QED BY <1>t, <3>7, <3>8, <3>9, <3>10, <3>11 DEF IInv
  <2> QED BY <2>2, <2>3
\* The journal operations, on the running process's journal.
<1>j. ASSUME pc # "down", NEW d \in Cmds
      PROVE  /\ \A r \in Results \cup {"none"} : \A x \in Nat : Truthful(r, d) =>
                  \A c \in Cmds : Journaled(StoreResult(mem, d, r, x), c)
             /\ execCount[d] = 0 /\ Issued(d) =>
                  \A c \in Cmds : Journaled(ReserveCommand(mem, d), c)
             /\ \A c \in Cmds : Journaled(MarkExecuting(mem, d), c)
             /\ \A c \in Cmds : Journaled(RequeueAcknowledged(mem, d), c)
             /\ ExpiresAt(d) \in Nat
             /\ Truthful("refused", d) /\ "refused" \in Results \cup {"none"}
  <2>1. ExpiresAt(d) \in Nat
    BY <1>d, CommandDeliveryConstants DEF ExpiresAt, TypeOK, Row
  <2>2. Truthful("refused", d) /\ "refused" \in Results \cup {"none"}
    BY DEF Truthful, Outcomes, Results
  <2> QED BY <1>d, <1>m, <1>k, <1>j, <2>1, <2>2, EntryOpsKept
<1>19. ASSUME NEW d \in Cmds, ProcessCommand(d) PROVE IInv'
  <2>0. UNCHANGED <<rows, late, hb, agentClock, execCount, outcome, completions>>
    BY <1>19 DEF ProcessCommand, Refuse, AnswerSeen, Reserve, ReserveFails, serverVars,
                 clockVars, historyVars
  <2>1. pc = "take" /\ pc # "down" /\ Issued(d)
    BY <1>19, <1>d DEF ProcessCommand, Refuse, AnswerSeen, Reserve, ReserveFails, Fresh,
                       Oldest, AgentInv
  <2>2. \A k \in Slots : \A c \in Handed(k)' : Issued(c)
    BY <2>0, HandedKept
  <2>3. batch' \in SUBSET batch
    BY <1>19 DEF ProcessCommand, Refuse, AnswerSeen, Reserve, ReserveFails
  <2>4. CASE Refuse(d)
    <3>1. PICK f \in Refusals(d) :
            LET j == StoreResult(mem, d, f.result, f.expiry) IN Save(j) /\ FlushAfter(j)
      BY <2>4 DEF Refuse
    <3>2. ~(~Has(mem, d) /\ d \in mem.nonces)
      BY <1>k, <2>1 DEF Journaled
    <3>3. f.result = "refused" /\ f.expiry = agentClock + UnverifiedTTL
      BY <3>2 DEF Refusals
    <3>4. agentClock + UnverifiedTTL \in Nat
      BY <1>d, CommandDeliveryConstants DEF TypeOK
    <3>5. \A c \in Cmds : Journaled(StoreResult(mem, d, f.result, f.expiry), c)
      BY <1>j, <2>1, <3>3, <3>4
    <3>6. /\ pc' = "flushCmd" /\ mem' = StoreResult(mem, d, f.result, f.expiry)
          /\ disk' = StoreResult(mem, d, f.result, f.expiry)
      BY <3>1 DEF Save, FlushAfter
    <3>7. AgentInv'
      BY <1>q, <2>0, <2>3, <3>6 DEF Flushing
    <3> QED BY <1>t, <2>0, <2>2, <3>5, <3>6, <3>7, AgentStep
  <2>5. CASE AnswerSeen(d)
    <3>1. /\ pc' = "flushCmd" /\ mem' = RequeueAcknowledged(mem, d)
          /\ disk' = RequeueAcknowledged(mem, d)
      BY <2>5 DEF AnswerSeen, Save, FlushAfter
    <3>2. AgentInv'
      BY <1>q, <2>0, <2>3, <3>1 DEF Flushing
    <3>3. \A c \in Cmds : Journaled(RequeueAcknowledged(mem, d), c)
      BY <1>j, <2>1
    <3> QED BY <1>t, <2>0, <2>2, <3>1, <3>2, <3>3, AgentStep
  <2>6. CASE Reserve(d) \/ ReserveFails(d)
    <3>1. execCount[d] = 0
      <4>1. agentClock < ExpiresAt(d) /\ ~Has(mem, d)
        BY <2>6 DEF Reserve, ReserveFails, Fresh, WindowValid
      <4>2. execCount[d] \in Nat /\ agentClock \in Nat /\ ExpiresAt(d) \in Nat
        BY <1>m, <1>d, <1>j, <2>1 DEF TypeOK
      <4>3. Journaled(mem, d)
        BY <1>k, <2>1
      <4> QED BY <4>1, <4>2, <4>3 DEF Journaled, Has, Started
    <3>2. \A c \in Cmds : Journaled(ReserveCommand(mem, d), c)
      BY <1>j, <2>1, <3>1
    <3>3. /\ disk' \in {disk, ReserveCommand(mem, d)} /\ cur' = d
          /\ \/ pc' = "reserved" /\ mem' = ReserveCommand(mem, d)
             \/ pc' = "refuse" /\ mem' = mem
      BY <2>6 DEF Reserve, ReserveFails, Save, SaveFaults
    <3>4. ReserveCommand(mem, d).entries[d].expiry = ExpiresAt(d)
      BY <1>m DEF ReserveCommand, WithEntry, Journal
    <3>5. ExpiresAt(d)' = ExpiresAt(d)
      BY <2>0 DEF ExpiresAt
    <3>6. AgentInv'
      BY <2>0, <2>1, <2>3, <3>1, <3>3, <3>4, <3>5, <1>d DEF AgentInv, Issued, ExpiresAt
    <3>7. \A c \in Cmds : Journaled(disk', c) /\ Journaled(mem', c)
      BY <1>k, <2>1, <3>2, <3>3
    <3> QED BY <1>t, <2>0, <2>2, <3>6, <3>7, AgentStep
  <2> QED BY <1>19, <2>4, <2>5, <2>6 DEF ProcessCommand
<1>20. CASE BeginExecution \/ BeginExecutionFails
  <2>0. UNCHANGED <<rows, late, hb, agentClock, execCount, outcome, completions, cur, batch>>
    BY <1>20 DEF BeginExecution, BeginExecutionFails, serverVars, clockVars, historyVars
  <2>1. /\ pc = "reserved" /\ pc # "down" /\ cur \in Cmds /\ Issued(cur)
        /\ execCount[cur] = 0 /\ mem.entries[cur].expiry = ExpiresAt(cur)
    BY <1>20, <1>d DEF BeginExecution, BeginExecutionFails, AgentInv
  <2>2. \A k \in Slots : \A c \in Handed(k)' : Issued(c)
    BY <2>0, HandedKept
  <2>3. /\ disk' \in {disk, MarkExecuting(mem, cur)}
        /\ \/ pc' = "executing" /\ mem' = disk' /\ disk' = MarkExecuting(mem, cur)
           \/ pc' = "refuse" /\ mem' = mem
    BY <1>20 DEF BeginExecution, BeginExecutionFails, Save, SaveFaults
  <2>4. Running(MarkExecuting(mem, cur), cur)
    BY <1>m, <2>1 DEF Running, MarkExecuting, Journal, Entry
  <2>5. AgentInv'
    BY <2>0, <2>1, <2>3, <2>4, <1>d DEF AgentInv, Issued, ExpiresAt, Running
  <2>6. \A c \in Cmds : Journaled(disk', c) /\ Journaled(mem', c)
    BY <1>k, <1>j, <2>1, <2>3
  <2> QED BY <1>t, <2>0, <2>2, <2>5, <2>6, AgentStep
<1>21. CASE QueueRefusal \/ QueueRefusalFails \/ StoreOutcome \/ StoreOutcomeFails
  <2>0. UNCHANGED <<rows, late, hb, agentClock, execCount, outcome, completions>>
    BY <1>21 DEF QueueRefusal, QueueRefusalFails, StoreOutcome, StoreOutcomeFails,
                 serverVars, clockVars, historyVars
  <2>1. cur \in Cmds /\ pc # "down"
    BY <1>21, <1>d DEF QueueRefusal, QueueRefusalFails, StoreOutcome, StoreOutcomeFails,
                       AgentInv
  <2>2. \A k \in Slots : \A c \in Handed(k)' : Issued(c)
    BY <2>0, HandedKept
  <2>3. PICK r \in Results \cup {"none"} :
          /\ Truthful(r, cur)
          /\ disk' \in {disk, StoreResult(mem, cur, r, ExpiresAt(cur))}
          /\ \/ pc' = "down"
             \/ pc' = "flushCmd" /\ mem' = StoreResult(mem, cur, r, ExpiresAt(cur))
          /\ batch' \in SUBSET batch
    <3>1. CASE QueueRefusal \/ QueueRefusalFails
      BY <3>1, <1>j, <2>1 DEF QueueRefusal, QueueRefusalFails, Save, SaveFaults,
                              FlushAfter, ProcessEnds
    <3>2. CASE StoreOutcome \/ StoreOutcomeFails
      <4>1. held = outcome[cur] /\ held \in Results \cup {"none"}
        BY <3>2, <1>d DEF StoreOutcome, StoreOutcomeFails, AgentInv, TypeOK, Results
      <4>2. Truthful(held, cur)
        BY <4>1, <1>d DEF Truthful, TypeOK, Outcomes
      <4> QED BY <3>2, <4>1, <4>2 DEF StoreOutcome, StoreOutcomeFails, Save, SaveFaults,
                                      FlushAfter, ProcessEnds
    <3> QED BY <1>21, <3>1, <3>2
  <2>4. \A c \in Cmds : Journaled(StoreResult(mem, cur, r, ExpiresAt(cur)), c)
    BY <1>j, <2>1, <2>3
  <2>5. AgentInv'
    BY <1>q, <2>0, <2>3 DEF Flushing
  <2> QED BY <1>t, <1>k, <2>0, <2>2, <2>3, <2>4, <2>5, AgentStep
<1>22. CASE Execute
  <2>0. UNCHANGED <<rows, late, hb, agentClock, completions, disk, mem, cur, batch>>
    BY <1>22 DEF Execute, serverVars, clockVars
  <2>1. /\ cur \in Cmds /\ pc # "down" /\ execCount[cur] = 0 /\ Issued(cur)
        /\ Running(mem, cur) /\ Running(disk, cur)
    BY <1>22, <1>d DEF Execute, AgentInv
  <2>2. outcome[cur] = "none"
    BY <2>1, <1>d DEF ServerInv
  <2>3. PICK r \in Outcomes : held' = r /\ outcome' = [outcome EXCEPT ![cur] = r]
    BY <1>22 DEF Execute
  <2>4. /\ outcome'[cur] = r /\ \A c \in Cmds : c # cur => outcome'[c] = outcome[c]
        /\ execCount'[cur] = 1 /\ \A c \in Cmds : c # cur => execCount'[c] = execCount[c]
    BY <1>22, <1>d, <2>1, <2>3 DEF Execute, TypeOK
  <2>5. \A c \in Cmds : \A x : Truthful(x, c) => Truthful(x, c)'
    BY <2>2, <2>4 DEF Truthful, Outcomes
  <2>6. ASSUME NEW j \in Journal, NEW c \in Cmds, Journaled(j, c),
               c = cur => Running(j, cur)
        PROVE  Journaled(j, c)'
    <3>1. ExpiresAt(c)' = ExpiresAt(c) /\ (Issued(c)' <=> Issued(c))
      BY <2>0 DEF ExpiresAt, Issued
    <3>2. Truthful(j.entries[c].result, c)'
      BY <2>5, <2>6 DEF Journaled
    <3>3. CASE c = cur
      BY <2>0, <2>6, <3>1, <3>2, <3>3 DEF Journaled, Running, Started, Owed, Has
    <3>4. CASE c # cur
      BY <2>0, <2>4, <2>6, <3>1, <3>2, <3>4 DEF Journaled, Has
    <3> QED BY <3>3, <3>4
  <2>7. DiskInv' /\ MemInv'
    BY <2>0, <2>1, <2>6, <1>k, <1>m DEF DiskInv, MemInv
  <2>8. ServerInv'
    <3>1. \A m \in late' : Truthful(m.result, m.cmd)'
      BY <2>0, <2>5, <1>d DEF ServerInv, TypeOK
    <3>2. \A c \in Cmds : Issued(c)' <=> Issued(c)
      BY <2>0 DEF Issued
    <3>3. \A c \in Cmds : Truthful(rows[c].result, c)'
      BY <2>0, <2>5, <1>r DEF Truthful
    <3>4. \A k \in Slots : \A c \in Handed(k)' : Issued(c)'
      BY <2>0, <3>2, HandedKept DEF Handed
    <3>5. \A c \in Cmds : /\ (execCount[c] > 0 => Issued(c))'
                          /\ (execCount[c] = 0 => outcome[c] = "none")'
      BY <2>1, <2>4, <3>2, <1>d DEF ServerInv
    <3> QED BY <2>0, <3>1, <3>3, <3>4, <3>5, <1>r DEF ServerInv
  <2>9. AgentInv'
    BY <2>0, <2>1, <2>3, <2>4, <1>22, <1>d DEF AgentInv, Issued, Execute
  <2>10. AtMostOnce'
    BY <2>4, <1>d DEF AtMostOnce
  <2> QED BY <1>t, <2>7, <2>8, <2>9, <2>10 DEF IInv
<1>23. CASE UNCHANGED vars
  <2>1. UNCHANGED <<rows, late, hb, agentClock, execCount, outcome, completions, disk, mem,
                    pc, cur, batch, held, beat>>
    BY <1>23 DEF vars, serverVars, agentVars, clockVars, historyVars
  <2>2. AgentInv'
    BY <2>1, <1>d DEF AgentInv, Issued, Running, ExpiresAt
  <2>3. \A k \in Slots : \A c \in Handed(k)' : Issued(c)
    BY <2>1, HandedKept
  <2> QED BY <1>t, <1>k, <2>1, <2>2, <2>3, AgentStep
<1> QED
  BY <1>1, <1>2, <1>3, <1>4, <1>5, <1>6, <1>7, <1>9, <1>10, <1>11, <1>12, <1>13, <1>14,
     <1>15, <1>16, <1>17, <1>18, <1>19, <1>20, <1>21, <1>22, <1>23
     DEF Next, Operator, Server, CheckIn, RunCommand, Lifecycle

\* IInv holds of an agent that starts with an empty journal (LoadSeenStore).
LEMMA IInvInit == Init => IInv
<1> SUFFICES ASSUME Init PROVE IInv
  OBVIOUS
<1>1. TypeOK
  <2>1. EmptyJournal \in Journal
    BY DEF EmptyJournal, Journal, Absent, Entry, CommandExecutionState
  <2>2. NoRow \in Row
    BY DEF NoRow, Row, CommandStatus, EnvelopeVersion
  <2>3. revoking \in BOOLEAN /\ stopping \in BOOLEAN /\ known \in EnvelopeVersion
    BY CommandDeliveryConstants DEF Init, EnvelopeVersion
  <2> QED BY <2>1, <2>2, <2>3, Slot DEF Init, TypeOK, PC
<1>2. ASSUME NEW c \in Cmds PROVE Journaled(EmptyJournal, c)
  BY DEF Init, Journaled, EmptyJournal, Absent, Truthful, Outcomes
<1>3. DiskInv /\ MemInv
  BY <1>2 DEF DiskInv, MemInv, Init
<1>4. ServerInv
  BY DEF Init, ServerInv, NoRow, Terminal, Truthful, Outcomes, Handed, FreeSlot, NoWrites
<1>5. AgentInv /\ AtMostOnce
  BY DEF Init, AgentInv, AtMostOnce
<1> QED BY <1>1, <1>3, <1>4, <1>5 DEF IInv

\* The inductive invariant holds in every reachable state.
THEOREM Inductive == Spec => []IInv
<1>1. IInv /\ [Next]_vars => IInv'
  BY IInvStep
<1> QED BY IInvInit, <1>1, PTL DEF Spec

-----------------------------------------------------------------------------
(***************************************************************************)
(* The results.                                                            *)
(***************************************************************************)

\* Rows, requests, journals and the agent's control state keep their types.
THEOREM TypeCorrect == Spec => []TypeOK
<1>1. IInv => TypeOK
  BY DEF IInv
<1> QED BY Inductive, <1>1, PTL

\* processCommand never starts a command twice: whatever the server redelivers,
\* whichever journal writes fail, wherever the process crashes, and however far
\* the two clocks are apart.
THEOREM ExecutedAtMostOnce == Spec => []AtMostOnce
<1>1. IInv => AtMostOnce
  BY DEF IInv
<1> QED BY Inductive, <1>1, PTL

\* The journal owes the server the result of every execution until the server
\* has recorded one (StoreResult, Acknowledge and Prune in replay.go).
THEOREM ResultOwedUntilRecorded == Spec => []NoResultLost
<1>1. IInv => NoResultLost
  BY DEF IInv, DiskInv, Journaled, Owed, NoResultLost
<1> QED BY Inductive, <1>1, PTL

\* A recorded or owed success or failure is what the process returned
\* (submit_result in agents.py, RecoverInterrupted in replay.go).
THEOREM RecordedResultsAreTrue == Spec => []ResultsAreTrue
<1>1. IInv => ResultsAreTrue
  BY DEF IInv, DiskInv, ServerInv, Journaled, Truthful, ResultsAreTrue
<1> QED BY Inductive, <1>1, PTL

\* No command is refused for its own nonce (ReserveCommand, RecoverInterrupted
\* and Prune in replay.go keep nonces within entries).
THEOREM NoncesOnlyStopReplays == Spec => []NoSpuriousRepeat
<1>1. IInv => NoSpuriousRepeat
  BY DEF IInv, DiskInv, ServerInv, Journaled, Truthful, NoSpuriousRepeat
<1> QED BY Inductive, <1>1, PTL

-----------------------------------------------------------------------------
(* The refinement: CommandDelivery implements CommandContract *)

(***************************************************************************)
(* The conditions of the contract: no heartbeat outlives the agent's next  *)
(* one, nobody revokes the agent, and a heartbeat has room for a notice of *)
(* every result in the outbox.                                             *)
(***************************************************************************)
SerialBeats == MaxOpenHeartbeats = 1 /\ ~Revocable /\ NumCommands <= NoticeCap

-----------------------------------------------------------------------------
(***************************************************************************)
(* The invariant the refinement needs on top of IInv.                      *)
(***************************************************************************)
InFlight == {"reserved", "executing"}
Working  == {"reserved", "refuse", "executing", "ran"}
Resting  == {"idle", "beat", "down"}

Steady(j)    == \A c \in Cmds : j.entries[c].state \notin InFlight
Unheard(c)   == c \notin Pending(disk) /\ c \notin Pending(mem)
Delivered(c) == rows[c].status \notin {"none", "queued"}

\* The agent's control state.  Only the command that is being processed is in
\* flight in the journal, and file and memory agree unless a save has failed.
JournalFlow ==
  /\ pc \notin {"down", "refuse"} => mem = disk
  /\ pc # "down" => \A c \in Cmds :
       disk.entries[c].state \in InFlight \/ mem.entries[c].state \in InFlight
         => pc \in Working /\ c = cur
  /\ pc = "reserved" => mem.entries[cur].state = "reserved"
  /\ pc = "refuse" => Pending(disk) = Pending(mem)
  /\ pc \in Flushing => outbox \subseteq Pending(mem)

\* What is about to run, or waits in the batch, is a dispatched row for which
\* no result is in the outbox.
BatchFlow ==
  /\ ~revoking
  /\ pc \in Resting \cup {"flushLast"} => batch = {}
  /\ pc \in Working => cur \notin batch
  /\ pc \in {"reserved", "refuse", "executing"} =>
       rows[cur].status = "dispatched" /\ Unheard(cur)
  /\ pc = "ran" => held # "none" /\ Delivered(cur)
  /\ \A c \in batch : rows[c].status = "dispatched" /\ Unheard(c)

\* What an open request will write still fits the row when it commits.
WriteFits(c, w) ==
  /\ w = "dispatched" => rows[c].status = "queued"
  /\ w = "lease" => rows[c].status = "dispatched" /\ c \notin Pending(disk)
  /\ w = "expired" =>
       rows[c].status \in {"queued", "dispatched"} /\ c \notin Pending(disk)
  /\ w = "result_pending" => rows[c].status \in Reportable

\* A request is open only between two batches, so the outbox it advertised is
\* the outbox at its commit.
BeatFlow == \A k \in Slots :
  /\ hb[k].st # "free" => pc \in Resting /\ Steady(disk)
  /\ hb[k].st = "sent" => Pending(disk) \subseteq hb[k].notices
  /\ hb[k].st = "read" => \A c \in Cmds : WriteFits(c, hb[k].writes[c])
  /\ hb[k].st = "answered" => \A c \in Handed(k) :
       rows[c].status = "dispatched" /\ c \notin Pending(disk)

\* An upload still in the network is for a row that has been answered, or for
\* a result that is still in the outbox.
LateFlow == \A m \in late :
  /\ Delivered(m.cmd)
  /\ rows[m.cmd].status \in Reportable => m.cmd \in Pending(disk)
  /\ m.result # "none"
  /\ m.result = "refused" => execCount[m.cmd] = 0

Kept(j, c) ==
  /\ Has(j, c) => Delivered(c)
  /\ ResultStored(j, c) => j.entries[c].result # "none"
  /\ j.entries[c].result = "refused" => execCount[c] = 0
  /\ j.entries[c].state \in InFlight => j.entries[c].result = "none"

StoreFlow == \A c \in Cmds : Kept(disk, c) /\ Kept(mem, c)

RowFlow == \A c \in Cmds : /\ completions[c] > 0 => rows[c].status \in Terminal
                           /\ execCount[c] > 0 => Delivered(c)

RInv == JournalFlow /\ BatchFlow /\ BeatFlow /\ LateFlow /\ StoreFlow /\ RowFlow

-----------------------------------------------------------------------------
(***************************************************************************)
(* The journal operations.                                                 *)
(***************************************************************************)

\* An operation on command d leaves the entries of the other commands alone.
LEMMA OtherEntries ==
  ASSUME NEW j \in Journal, NEW d \in Cmds, NEW c \in Cmds, c # d
  PROVE  /\ ReserveCommand(j, d).entries[c] = j.entries[c]
         /\ MarkExecuting(j, d).entries[c] = j.entries[c]
         /\ Acknowledge(j, d).entries[c] = j.entries[c]
         /\ RequeueAcknowledged(j, d).entries[c] = j.entries[c]
         /\ \A r, x : StoreResult(j, d, r, x).entries[c] = j.entries[c]
BY DEF Journal, ReserveCommand, WithEntry, MarkExecuting, Acknowledge,
       RequeueAcknowledged, StoreResult

\* What each operation of SeenStore does to the entry it is about (replay.go).
LEMMA OwnEntry ==
  ASSUME NEW j \in Journal, NEW d \in Cmds
  PROVE  /\ ReserveCommand(j, d).entries[d].state = "reserved"
         /\ ReserveCommand(j, d).entries[d].result = "none"
         /\ MarkExecuting(j, d).entries[d].state = "executing"
         /\ MarkExecuting(j, d).entries[d].result = j.entries[d].result
         /\ Acknowledge(j, d).entries[d].state = "acknowledged"
         /\ Acknowledge(j, d).entries[d].result = j.entries[d].result
         /\ RequeueAcknowledged(j, d).entries[d].state =
              IF j.entries[d].state = "acknowledged" THEN "result_pending"
                                                     ELSE j.entries[d].state
         /\ RequeueAcknowledged(j, d).entries[d].result = j.entries[d].result
         /\ \A r, x : StoreResult(j, d, r, x).entries[d].state =
              IF ResultStored(j, d) THEN j.entries[d].state ELSE "result_pending"
         /\ \A r, x : StoreResult(j, d, r, x).entries[d].result =
              IF ResultStored(j, d) THEN j.entries[d].result ELSE r
<1> USE DEF Journal, Entry
<1>1. /\ ReserveCommand(j, d).entries[d].state = "reserved"
      /\ ReserveCommand(j, d).entries[d].result = "none"
  BY DEF ReserveCommand, WithEntry
<1>2. /\ MarkExecuting(j, d).entries[d].state = "executing"
      /\ MarkExecuting(j, d).entries[d].result = j.entries[d].result
  BY DEF MarkExecuting
<1>3. /\ Acknowledge(j, d).entries[d].state = "acknowledged"
      /\ Acknowledge(j, d).entries[d].result = j.entries[d].result
  BY DEF Acknowledge
<1>4. /\ RequeueAcknowledged(j, d).entries[d].state =
           IF j.entries[d].state = "acknowledged" THEN "result_pending"
                                                  ELSE j.entries[d].state
      /\ RequeueAcknowledged(j, d).entries[d].result = j.entries[d].result
  BY DEF RequeueAcknowledged
<1>5. ASSUME NEW r, NEW x
      PROVE  /\ StoreResult(j, d, r, x).entries[d].state =
                  IF ResultStored(j, d) THEN j.entries[d].state ELSE "result_pending"
             /\ StoreResult(j, d, r, x).entries[d].result =
                  IF ResultStored(j, d) THEN j.entries[d].result ELSE r
  BY DEF StoreResult, WithEntry
<1> QED BY <1>1, <1>2, <1>3, <1>4, <1>5

\* The outbox after each operation: pruning leaves it alone, only a stored
\* result and a requeued one are added to it, only an acknowledged one leaves.
LEMMA Outbox ==
  ASSUME NEW j \in Journal, NEW d \in Cmds
  PROVE  /\ Pending(Prune(j)) = Pending(j)
         /\ Pending(ReserveCommand(j, d)) = Pending(j) \ {d}
         /\ Pending(MarkExecuting(j, d)) = Pending(j) \ {d}
         /\ Pending(Acknowledge(j, d)) = Pending(j) \ {d}
         /\ Pending(RequeueAcknowledged(j, d)) \subseteq Pending(j) \cup {d}
         /\ Pending(j) \subseteq Pending(RequeueAcknowledged(j, d))
         /\ \A r, x : /\ Pending(StoreResult(j, d, r, x)) \subseteq Pending(j) \cup {d}
                      /\ Pending(j) \subseteq Pending(StoreResult(j, d, r, x))
         /\ Pending(EmptyJournal) = {}
<1> DEFINE P(i, c) == i.entries[c].state = "result_pending"
<1>1. \A c \in Cmds : P(Prune(j), c) <=> P(j, c)
  BY DEF Prune, Prunable, Absent
<1>2. \A c \in Cmds : /\ P(ReserveCommand(j, d), c) <=> P(j, c) /\ c # d
                      /\ P(MarkExecuting(j, d), c) <=> P(j, c) /\ c # d
                      /\ P(Acknowledge(j, d), c) <=> P(j, c) /\ c # d
  BY OtherEntries, OwnEntry
<1>3. \A c \in Cmds : /\ P(RequeueAcknowledged(j, d), c) => P(j, c) \/ c = d
                      /\ P(j, c) => P(RequeueAcknowledged(j, d), c)
  BY OtherEntries, OwnEntry
<1>4. ASSUME NEW r, NEW x, NEW c \in Cmds
      PROVE  /\ P(StoreResult(j, d, r, x), c) => P(j, c) \/ c = d
             /\ P(j, c) => P(StoreResult(j, d, r, x), c)
  BY OtherEntries, OwnEntry
<1>5. \A c \in Cmds : ~P(EmptyJournal, c)
  BY DEF EmptyJournal, Absent
<1>p. \A i : Pending(i) = {c \in Cmds : P(i, c)}
  BY DEF Pending
<1> HIDE DEF P
<1>8. Pending(Prune(j)) = Pending(j) /\ Pending(EmptyJournal) = {}
  BY <1>1, <1>5, <1>p
<1>9. /\ Pending(ReserveCommand(j, d)) = Pending(j) \ {d}
      /\ Pending(MarkExecuting(j, d)) = Pending(j) \ {d}
      /\ Pending(Acknowledge(j, d)) = Pending(j) \ {d}
  BY <1>2, <1>p
<1>10. /\ Pending(RequeueAcknowledged(j, d)) \subseteq Pending(j) \cup {d}
       /\ Pending(j) \subseteq Pending(RequeueAcknowledged(j, d))
  BY <1>3, <1>p
<1>11. \A r, x : /\ Pending(StoreResult(j, d, r, x)) \subseteq Pending(j) \cup {d}
                 /\ Pending(j) \subseteq Pending(StoreResult(j, d, r, x))
  BY <1>4, <1>p
<1> QED BY <1>8, <1>9, <1>10, <1>11

\* A refusal is stored only for a command that has not run, and an entry never
\* reaches the outbox without a result.
LEMMA KeptOps ==
  ASSUME NEW j \in Journal, \A c \in Cmds : Kept(j, c), NEW d \in Cmds
  PROVE  /\ \A c \in Cmds : Kept(Prune(j), c) /\ Kept(RecoverInterrupted(j), c)
         /\ Delivered(d) => \A c \in Cmds : Kept(ReserveCommand(j, d), c)
         /\ j.entries[d].state = "reserved" =>
              \A c \in Cmds : Kept(MarkExecuting(j, d), c)
         /\ d \in Pending(j) => \A c \in Cmds : Kept(Acknowledge(j, d), c)
         /\ \A c \in Cmds : Kept(RequeueAcknowledged(j, d), c)
         /\ \A r, x : Delivered(d) /\ r # "none" /\ (r = "refused" => execCount[d] = 0)
                        => \A c \in Cmds : Kept(StoreResult(j, d, r, x), c)
         /\ \A c \in Cmds : Kept(EmptyJournal, c)
<1>1. \A c \in Cmds : Kept(Prune(j), c)
  <2>1. \A c \in Cmds : Prune(j).entries[c] \in {j.entries[c], Absent}
    BY DEF Prune
  <2> QED BY <2>1 DEF Kept, Has, ResultStored, InFlight, Absent
<1>2. \A c \in Cmds : Kept(RecoverInterrupted(j), c)
  <2>1. \A c \in Cmds : RecoverInterrupted(j).entries[c] = RecoveredEntry(j.entries[c])
    BY DEF RecoverInterrupted
  <2>2. \A c \in Cmds : j.entries[c] \in Entry
    BY DEF Journal
  <2>3. ASSUME NEW e \in Entry
        PROVE  \/ RecoveredEntry(e) = e /\ e.state \notin InFlight
               \/ RecoveredEntry(e) = Absent
               \/ /\ e.state = "executing" /\ RecoveredEntry(e).state = "result_pending"
                  /\ RecoveredEntry(e).result = "unknown"
    BY DEF RecoveredEntry, Entry, InFlight
  <2> QED BY <2>1, <2>2, <2>3 DEF Kept, Has, ResultStored, InFlight, Absent
<1>3. ASSUME Delivered(d), NEW c \in Cmds PROVE Kept(ReserveCommand(j, d), c)
  <2>1. CASE c = d
    BY <1>3, <2>1, OwnEntry DEF Kept, ResultStored
  <2>2. CASE c # d
    BY <2>2, OtherEntries DEF Kept, Has, ResultStored
  <2> QED BY <2>1, <2>2
<1>4. ASSUME j.entries[d].state = "reserved", NEW c \in Cmds
      PROVE  Kept(MarkExecuting(j, d), c)
  <2>1. CASE c = d
    BY <1>4, <2>1, OwnEntry DEF Kept, Has, ResultStored, InFlight
  <2>2. CASE c # d
    BY <2>2, OtherEntries DEF Kept, Has, ResultStored
  <2> QED BY <2>1, <2>2
<1>5. ASSUME d \in Pending(j), NEW c \in Cmds PROVE Kept(Acknowledge(j, d), c)
  <2>1. CASE c = d
    BY <1>5, <2>1, OwnEntry DEF Kept, Has, ResultStored, InFlight, Pending
  <2>2. CASE c # d
    BY <2>2, OtherEntries DEF Kept, Has, ResultStored
  <2> QED BY <2>1, <2>2
<1>6. ASSUME NEW c \in Cmds PROVE Kept(RequeueAcknowledged(j, d), c)
  <2>1. CASE c = d
    BY <2>1, OwnEntry DEF Kept, Has, ResultStored, InFlight
  <2>2. CASE c # d
    BY <2>2, OtherEntries DEF Kept, Has, ResultStored
  <2> QED BY <2>1, <2>2
<1>7. ASSUME NEW r, NEW x, Delivered(d), r # "none", r = "refused" => execCount[d] = 0,
             NEW c \in Cmds
      PROVE  Kept(StoreResult(j, d, r, x), c)
  <2>1. CASE c = d
    BY <1>7, <2>1, OwnEntry DEF Kept, Has, ResultStored, InFlight
  <2>2. CASE c # d
    BY <2>2, OtherEntries DEF Kept, Has, ResultStored
  <2> QED BY <2>1, <2>2
<1>8. \A c \in Cmds : Kept(EmptyJournal, c)
  BY DEF EmptyJournal, Absent, Kept, Has, ResultStored, InFlight
<1>9. \A r, x : Delivered(d) /\ r # "none" /\ (r = "refused" => execCount[d] = 0)
                 => \A c \in Cmds : Kept(StoreResult(j, d, r, x), c)
  BY <1>7
<1>10. /\ Delivered(d) => \A c \in Cmds : Kept(ReserveCommand(j, d), c)
       /\ j.entries[d].state = "reserved" => \A c \in Cmds : Kept(MarkExecuting(j, d), c)
       /\ d \in Pending(j) => \A c \in Cmds : Kept(Acknowledge(j, d), c)
  BY <1>3, <1>4, <1>5
<1> QED BY <1>1, <1>2, <1>6, <1>8, <1>9, <1>10

\* A journal with nothing in flight stays so, and recovery finds nothing to do.
LEMMA SteadyOps ==
  ASSUME NEW j \in Journal, Steady(j), NEW d \in Cmds
  PROVE  /\ Steady(Prune(j)) /\ Steady(RecoverInterrupted(j))
         /\ Steady(Acknowledge(j, d)) /\ Steady(RequeueAcknowledged(j, d))
         /\ \A r, x : Steady(StoreResult(j, d, r, x))
         /\ Pending(RecoverInterrupted(j)) = Pending(j)
<1> USE DEF Steady, InFlight
<1>1. Steady(Prune(j))
  BY DEF Prune, Absent
<1>2. Steady(RecoverInterrupted(j)) /\ Pending(RecoverInterrupted(j)) = Pending(j)
  BY DEF RecoverInterrupted, RecoveredEntry, Absent, Pending
<1>3. Steady(Acknowledge(j, d)) /\ Steady(RequeueAcknowledged(j, d))
  BY OwnEntry, OtherEntries
<1>4. ASSUME NEW r, NEW x PROVE Steady(StoreResult(j, d, r, x))
  BY OwnEntry, OtherEntries
<1> QED BY <1>1, <1>2, <1>3, <1>4

-----------------------------------------------------------------------------
(***************************************************************************)
(* Every step keeps RInv.  First the steps of the server and the network.  *)
(***************************************************************************)

\* Nothing that RInv is about moves: clocks, quarantine, a stop request.
LEMMA QuietStep ==
  ASSUME RInv,
         UNCHANGED <<rows, hb, late, revoking, disk, mem, pc, cur, batch, outbox, held,
                     execCount, completions>>
  PROVE  RInv'
<1>1. JournalFlow'
  BY DEF RInv, JournalFlow, Pending
<1>2. BatchFlow'
  BY DEF RInv, BatchFlow, Unheard, Delivered, Pending
<1>3. BeatFlow'
  BY DEF RInv, BeatFlow, WriteFits, Steady, Pending, Handed
<1>4. LateFlow'
  BY DEF RInv, LateFlow, Delivered, Pending
<1>5. StoreFlow' /\ RowFlow'
  BY DEF RInv, StoreFlow, RowFlow, Kept, Delivered, Has, ResultStored
<1> QED BY <1>1, <1>2, <1>3, <1>4, <1>5 DEF RInv

\* POST /agents/{id}/commands: nothing is known of a row that did not exist.
LEMMA DispatchStep ==
  ASSUME IInv, RInv, NEW d \in Cmds, DispatchCommand(d)
  PROVE  RInv'
<1>1. UNCHANGED <<hb, late, revoking, disk, mem, pc, cur, batch, outbox, held,
                  execCount, completions>>
  BY DEF DispatchCommand, agentVars, historyVars
<1>2. /\ rows[d].status = "none" /\ rows'[d].status = "queued"
      /\ \A c \in Cmds : c # d => rows'[c] = rows[c]
  BY DEF DispatchCommand, IInv, TypeOK, NoRow
<1>3. JournalFlow'
  BY <1>1 DEF RInv, JournalFlow, Pending
<1>4. BatchFlow'
  BY <1>1, <1>2 DEF RInv, BatchFlow, Unheard, Delivered, Pending, IInv, TypeOK, AgentInv
<1>5. BeatFlow'
  BY <1>1, <1>2 DEF RInv, BeatFlow, WriteFits, Steady, Pending, Handed, Reportable
<1>6. LateFlow'
  BY <1>1, <1>2 DEF RInv, LateFlow, Delivered, Pending, IInv, TypeOK
<1>7. StoreFlow' /\ RowFlow'
  BY <1>1, <1>2 DEF RInv, StoreFlow, RowFlow, Kept, Delivered, Has, ResultStored, Terminal
<1> QED BY <1>3, <1>4, <1>5, <1>6, <1>7 DEF RInv

\* submit_result changes one row, the first time, and only while no request
\* that will write the row is open.
LEMMA SubmitFacts ==
  ASSUME IInv, RInv, NEW d \in Cmds, NEW r, SubmitResult(d, r)
  PROVE  /\ d \notin Locked
         /\ \A c \in Cmds : c # d => rows'[c] = rows[c] /\ completions'[c] = completions[c]
         /\ Accepting(d) => /\ rows[d].status \in Reportable
                            /\ rows'[d].status \in Terminal /\ rows'[d].result = r
         /\ ~Accepting(d) => rows' = rows /\ completions' = completions
<1>1. CASE Accepting(d)
  <2>1. rows[d] \in Row
    BY DEF IInv, TypeOK
  <2> QED BY <1>1, <2>1 DEF SubmitResult, Accepting, IInv, TypeOK, Row, Terminal
<1>2. CASE ~Accepting(d)
  BY <1>2 DEF SubmitResult
<1> QED BY <1>1, <1>2

\* An upload that is accepted is for a result in the outbox, so neither the
\* batch, nor the running command, nor an open request is about its row.
LEMMA SubmitStep ==
  ASSUME IInv, IInv', RInv, NEW d \in Cmds, NEW r, SubmitResult(d, r),
         rows[d].status \in Reportable => d \in Pending(disk),
         UNCHANGED <<hb, revoking, execCount>>
  PROVE  /\ \A c \in Cmds : Delivered(c) => Delivered(c)'
         /\ \A c \in Cmds : c \notin Pending(disk) => rows'[c] = rows[c]
         /\ \A c \in Cmds : rows'[c].status \in Reportable => rows'[c] = rows[c]
         /\ \A k \in Slots : hb[k].st = "read" =>
              \A c \in Cmds : hb[k].writes[c] # "keep" => rows'[c] = rows[c]
         /\ RowFlow'
<1>1. /\ d \notin Locked
      /\ \A c \in Cmds : c # d => rows'[c] = rows[c] /\ completions'[c] = completions[c]
      /\ Accepting(d) => rows[d].status \in Reportable /\ rows'[d].status \in Terminal
      /\ ~Accepting(d) => rows' = rows /\ completions' = completions
  BY SubmitFacts
<1>2. CASE ~Accepting(d)
  BY <1>1, <1>2 DEF Delivered, RInv, RowFlow
<1>3. CASE Accepting(d)
  <2>1. rows[d].status \in Reportable /\ d \in Pending(disk) /\ rows'[d].status \in Terminal
    BY <1>1, <1>3
  <2>2. \A c \in Cmds : Delivered(c) => Delivered(c)'
    BY <1>1, <2>1 DEF Delivered, Terminal
  <2>3. ASSUME NEW k \in Slots, hb[k].st = "read", hb[k].writes[d] # "keep" PROVE FALSE
    <3>1. hb[k].writes[d] \in Writes
      BY DEF IInv, TypeOK, HeartbeatTxn
    <3>2. WriteFits(d, hb[k].writes[d])
      BY <2>3 DEF RInv, BeatFlow
    <3>3. hb[k].writes[d] # "result_pending"
      BY <1>1, <2>3 DEF Locked, LockedBy
    <3> QED BY <2>1, <2>3, <3>1, <3>2, <3>3 DEF WriteFits, Writes, Reportable
  <2>4. RowFlow'
    BY <1>1, <2>1, <2>2 DEF RInv, RowFlow, Delivered, Terminal
  <2> QED BY <1>1, <2>1, <2>2, <2>3, <2>4 DEF Terminal, Reportable
<1> QED BY <1>2, <1>3

\* What BeatFlow says of an open request survives a result that is recorded.
LEMMA BeatsKept ==
  ASSUME RInv, UNCHANGED <<hb, disk, pc>>,
         \A c \in Cmds : c \notin Pending(disk) => rows'[c] = rows[c],
         \A k \in Slots : hb[k].st = "read" =>
              \A c \in Cmds : hb[k].writes[c] # "keep" => rows'[c] = rows[c]
  PROVE  BeatFlow'
<1> SUFFICES ASSUME NEW k \in Slots
             PROVE  (/\ hb[k].st # "free" => pc \in Resting /\ Steady(disk)
                     /\ hb[k].st = "sent" => Pending(disk) \subseteq hb[k].notices
                     /\ hb[k].st = "read" => \A c \in Cmds : WriteFits(c, hb[k].writes[c])
                     /\ hb[k].st = "answered" => \A c \in Handed(k) :
                          rows[c].status = "dispatched" /\ c \notin Pending(disk))'
  BY DEF BeatFlow
<1>1. Pending(disk)' = Pending(disk) /\ Handed(k)' = Handed(k) /\ Handed(k) \subseteq Cmds
  BY DEF Pending, Handed
<1>2. (hb[k].st # "free" => pc \in Resting /\ Steady(disk))'
  BY DEF RInv, BeatFlow, Steady
<1>3. (hb[k].st = "read" => \A c \in Cmds : WriteFits(c, hb[k].writes[c]))'
  <2> SUFFICES ASSUME hb[k].st = "read", NEW c \in Cmds
               PROVE  WriteFits(c, hb[k].writes[c])'
    OBVIOUS
  <2>1. WriteFits(c, hb[k].writes[c])
    BY DEF RInv, BeatFlow
  <2>2. hb[k].writes[c] # "keep" => rows'[c] = rows[c]
    OBVIOUS
  <2> QED BY <1>1, <2>1, <2>2 DEF WriteFits
<1>4. (hb[k].st = "answered" => \A c \in Handed(k) :
         rows[c].status = "dispatched" /\ c \notin Pending(disk))'
  BY <1>1 DEF RInv, BeatFlow
<1> QED BY <1>1, <1>2, <1>3, <1>4 DEF RInv, BeatFlow

\* An upload held back by the network is recorded or refused.
LEMMA LateStep ==
  ASSUME IInv, IInv', RInv, NEW m \in late, LateReport(m)
  PROVE  RInv'
<1>1. /\ UNCHANGED <<hb, revoking, disk, mem, pc, cur, batch, outbox, held, execCount>>
      /\ SubmitResult(m.cmd, m.result) /\ late' = late \ {m}
  BY DEF LateReport, agentVars
<1>2. m.cmd \in Cmds /\ late \subseteq [cmd : Cmds, result : Results \cup {"none"}]
  BY DEF IInv, TypeOK
<1>3. rows[m.cmd].status \in Reportable => m.cmd \in Pending(disk)
  BY DEF RInv, LateFlow
<1>4. /\ \A c \in Cmds : Delivered(c) => Delivered(c)'
      /\ \A c \in Cmds : c \notin Pending(disk) => rows'[c] = rows[c]
      /\ \A c \in Cmds : rows'[c].status \in Reportable => rows'[c] = rows[c]
      /\ \A k \in Slots : hb[k].st = "read" =>
           \A c \in Cmds : hb[k].writes[c] # "keep" => rows'[c] = rows[c]
      /\ RowFlow'
  BY <1>1, <1>2, <1>3, SubmitStep
<1>5. JournalFlow'
  BY <1>1 DEF RInv, JournalFlow, Pending
<1>6. BatchFlow'
  BY <1>1, <1>4 DEF RInv, BatchFlow, Unheard, Delivered, Pending, IInv, TypeOK, AgentInv
<1>7. BeatFlow'
  BY <1>1, <1>4, BeatsKept
<1>8. LateFlow'
  BY <1>1, <1>2, <1>4 DEF RInv, LateFlow, Pending
<1>9. StoreFlow'
  BY <1>1, <1>4 DEF RInv, StoreFlow, Kept, Has, ResultStored
<1> QED BY <1>4, <1>5, <1>6, <1>7, <1>8, <1>9 DEF RInv

\* Steps that change nothing but the heartbeat requests.
LEMMA RequestStep ==
  ASSUME RInv, BeatFlow',
         UNCHANGED <<rows, late, revoking, disk, mem, pc, cur, batch, outbox, held,
                     execCount, completions>>
  PROVE  RInv'
<1>1. JournalFlow'
  BY DEF RInv, JournalFlow, Pending
<1>2. BatchFlow'
  BY DEF RInv, BatchFlow, Unheard, Delivered, Pending
<1>3. LateFlow'
  BY DEF RInv, LateFlow, Delivered, Pending
<1>4. StoreFlow' /\ RowFlow'
  BY DEF RInv, StoreFlow, RowFlow, Kept, Delivered, Has, ResultStored
<1> QED BY <1>1, <1>2, <1>3, <1>4 DEF RInv

\* The heartbeat handler reads: a row in the outbox is noticed, so it is
\* neither leased nor written off.
LEMMA ReadStep ==
  ASSUME IInv, RInv, NEW k \in Slots, HeartbeatRead(k)
  PROVE  RInv'
<1>1. UNCHANGED <<rows, late, revoking, disk, mem, pc, cur, batch, outbox, held,
                  execCount, completions>>
  BY DEF HeartbeatRead, agentVars, historyVars
<1>2. hb[k].st = "sent" /\ hb[k] \in HeartbeatTxn /\ hb \in [Slots -> HeartbeatTxn]
  BY DEF HeartbeatRead, IInv, TypeOK
<1>3. Pending(disk)' = Pending(disk) /\ (Steady(disk)' <=> Steady(disk))
  BY <1>1 DEF Pending, Steady
<1>4. ASSUME NEW c \in Cmds PROVE WriteFits(c, PlannedWrites(k)[c])
  <2>1. c \in Pending(disk) => rows[c].status \notin {"none", "queued"} /\ c \in hb[k].notices
    BY <1>2 DEF RInv, BeatFlow, StoreFlow, Kept, Delivered, Pending, Has
  <2>2. /\ c \in Noticed(k) <=> c \in hb[k].notices /\ rows[c].status \in Reportable
        /\ c \in Walked(k) => c \in Deliverable(k)
        /\ c \in Deliverable(k) => /\ c \notin Noticed(k)
                                   /\ rows[c].status \in {"queued", "dispatched"}
    BY DEF Noticed, Walked, Deliverable
  <2>3. c \in Deliverable(k) => c \notin Pending(disk)
    BY <2>1, <2>2 DEF Reportable
  <2>4. PlannedWrites(k)[c] =
          CASE c \in Noticed(k) -> "result_pending"
            [] c \in Walked(k) /\ Lapsed(c) -> "expired"
            [] c \in Walked(k) /\ ~Lapsed(c) /\ rows[c].status = "queued" -> "dispatched"
            [] c \in Walked(k) /\ ~Lapsed(c) /\ rows[c].status = "dispatched" -> "lease"
            [] OTHER -> "keep"
    BY DEF PlannedWrites
  <2>5. CASE c \in Noticed(k)
    <3>1. c \notin Walked(k)
      BY <2>2, <2>5
    <3>2. PlannedWrites(k)[c] = "result_pending"
      BY <2>4, <2>5, <3>1
    <3> QED BY <2>2, <2>5, <3>2 DEF WriteFits
  <2>6. CASE c \notin Noticed(k)
    BY <2>2, <2>3, <2>4, <2>6 DEF WriteFits
  <2> QED BY <2>5, <2>6
<1>5. ASSUME NEW c \in Cmds PROVE WriteFits(c, NoWrites[c])
  BY DEF WriteFits, NoWrites
<1>6. /\ hb'[k].st = "read"
      /\ hb'[k].writes = PlannedWrites(k) \/ hb'[k].writes = NoWrites
      /\ \A i \in Slots : i # k => hb'[i] = hb[i]
  BY <1>2 DEF HeartbeatRead, HeartbeatTxn
<1>7. \A c \in Cmds : \A w : WriteFits(c, w) => WriteFits(c, w)'
  BY <1>1, <1>3 DEF WriteFits
<1>8. BeatFlow'
  <2> SUFFICES ASSUME NEW i \in Slots
               PROVE  (/\ hb[i].st # "free" => pc \in Resting /\ Steady(disk)
                       /\ hb[i].st = "sent" => Pending(disk) \subseteq hb[i].notices
                       /\ hb[i].st = "read" => \A c \in Cmds : WriteFits(c, hb[i].writes[c])
                       /\ hb[i].st = "answered" => \A c \in Handed(i) :
                            rows[c].status = "dispatched" /\ c \notin Pending(disk))'
    BY DEF BeatFlow
  <2>1. CASE i = k
    <3>1. pc \in Resting /\ Steady(disk)
      BY <1>2 DEF RInv, BeatFlow
    <3>2. \A c \in Cmds : WriteFits(c, hb'[k].writes[c])
      BY <1>4, <1>5, <1>6
    <3> QED BY <1>1, <1>3, <1>6, <1>7, <2>1, <3>1, <3>2
  <2>2. CASE i # k
    <3>1. hb'[i] = hb[i] /\ Handed(i)' = Handed(i)
      BY <1>6, <2>2 DEF Handed
    <3> QED BY <1>1, <1>3, <1>7, <3>1 DEF RInv, BeatFlow
  <2> QED BY <2>1, <2>2
<1> QED BY <1>1, <1>8, RequestStep

\* A request that is lost, rolled back, given up or dropped.
LEMMA SlotFreed ==
  ASSUME IInv, RInv, NEW k,
         hb' = hb \/ hb' = [hb EXCEPT ![k] = FreeSlot] \/ hb' = AnswerDropped(k),
         rows' = rows, Pending(disk') = Pending(disk),
         Steady(disk) => Steady(disk'), pc' \in Resting \/ pc' = pc
  PROVE  BeatFlow'
<1>1. \A i \in Slots : hb'[i] = hb[i] \/ hb'[i] = FreeSlot
  BY DEF IInv, TypeOK, AnswerDropped
<1>2. Pending(disk)' = Pending(disk) /\ (Steady(disk) => Steady(disk)')
  BY DEF Pending, Steady
<1> SUFFICES ASSUME NEW i \in Slots
             PROVE  (/\ hb[i].st # "free" => pc \in Resting /\ Steady(disk)
                     /\ hb[i].st = "sent" => Pending(disk) \subseteq hb[i].notices
                     /\ hb[i].st = "read" => \A c \in Cmds : WriteFits(c, hb[i].writes[c])
                     /\ hb[i].st = "answered" => \A c \in Handed(i) :
                          rows[c].status = "dispatched" /\ c \notin Pending(disk))'
  BY DEF BeatFlow
<1>3. CASE hb'[i] = FreeSlot
  BY <1>3 DEF FreeSlot
<1>4. CASE hb'[i] = hb[i]
  <2>1. Handed(i)' = Handed(i)
    BY <1>4 DEF Handed
  <2>2. \A c \in Cmds : \A w : WriteFits(c, w) => WriteFits(c, w)'
    BY <1>2 DEF WriteFits
  <2> QED BY <1>2, <1>4, <2>1, <2>2 DEF RInv, BeatFlow
<1> QED BY <1>1, <1>3, <1>4

\* The heartbeat handler commits while it is the only open request: each row it
\* writes is as it was read.
LEMMA CommitRows ==
  ASSUME IInv, RInv, NEW k \in Slots, HeartbeatCommit(k), NEW c \in Cmds
  PROVE  /\ hb[k].writes[c] = "dispatched" =>
              rows[c].status = "queued" /\ rows'[c].status = "dispatched"
         /\ hb[k].writes[c] = "lease" =>
              rows[c].status = "dispatched" /\ rows'[c].status = "dispatched"
         /\ hb[k].writes[c] = "expired" =>
              /\ rows[c].status \in {"queued", "dispatched"}
              /\ rows'[c].status = "expired" /\ c \notin Pending(disk)
         /\ hb[k].writes[c] = "result_pending" =>
              rows[c].status \in Reportable /\ rows'[c].status = "result_pending"
         /\ hb[k].writes[c] = "keep" => rows'[c] = rows[c]
         /\ hb[k].writes[c] \in Writes
         /\ rows'[c].result = rows[c].result
<1>1. /\ WriteFits(c, hb[k].writes[c])
      /\ rows'[c] = Written(rows[c], hb[k].writes[c], hb[k].at)
  BY DEF HeartbeatCommit, RInv, BeatFlow
<1>2. hb[k].writes[c] \in Writes /\ rows[c] \in Row
  BY DEF IInv, TypeOK, HeartbeatTxn
<1>3. ASSUME NEW row \in Row, NEW w \in Writes, NEW at
      PROVE  /\ w = "dispatched" => Written(row, w, at).status = "dispatched"
             /\ w = "lease" => Written(row, w, at).status = row.status
             /\ w \in {"expired", "result_pending"} => Written(row, w, at).status = w
             /\ w = "keep" => Written(row, w, at) = row
             /\ Written(row, w, at).result = row.result
  BY DEF Written, Row, Writes
<1> QED BY <1>1, <1>2, <1>3 DEF WriteFits

\* One heartbeat at a time has one slot.
LEMMA OneSlot == SerialBeats => Slots = {1}
BY DEF SerialBeats, Slots

\* Every write of a commit finds the row the request read.
LEMMA CommitStep ==
  ASSUME SerialBeats, IInv, RInv, NEW k \in Slots, HeartbeatCommit(k)
  PROVE  RInv'
<1>1. UNCHANGED <<late, revoking, disk, mem, pc, cur, batch, outbox, held, execCount,
                  completions>>
  BY DEF HeartbeatCommit, agentVars, historyVars
<1>2. /\ hb[k].st = "read" /\ hb[k] \in HeartbeatTxn
      /\ pc \in Resting /\ Steady(disk) /\ batch = {}
  BY DEF HeartbeatCommit, IInv, TypeOK, RInv, BeatFlow, BatchFlow
<1>3. Pending(disk)' = Pending(disk) /\ Pending(mem)' = Pending(mem)
      /\ (Steady(disk)' <=> Steady(disk))
  BY <1>1 DEF Pending, Steady
<1>4. ASSUME NEW c \in Cmds
      PROVE  /\ Delivered(c) => Delivered(c)'
             /\ rows[c].status \in Terminal => rows'[c] = rows[c]
             /\ rows'[c].status \in Reportable => rows[c].status \in Reportable \cup {"queued"}
             /\ hb[k].writes[c] \in {"dispatched", "lease"} =>
                  rows'[c].status = "dispatched" /\ c \notin Pending(disk)
  <2>1. Kept(disk, c) /\ (c \in Pending(disk) => Has(disk, c))
    BY DEF RInv, StoreFlow, Pending, Has
  <2>2. WriteFits(c, hb[k].writes[c])
    BY <1>2 DEF RInv, BeatFlow
  <2> QED BY <2>1, <2>2, CommitRows
             DEF Delivered, Kept, WriteFits, Terminal, Reportable, Writes
<1>5. JournalFlow'
  BY <1>1, <1>3 DEF RInv, JournalFlow
<1>6. BatchFlow'
  BY <1>1, <1>2 DEF RInv, BatchFlow, Resting
<1>7. BeatFlow'
  <2>1. \A i \in Slots : i = k
    BY OneSlot
  <2>2. /\ hb'[k].st \in {"answered", "free"}
        /\ hb'[k].st = "answered" => hb'[k].writes = hb[k].writes
    BY <1>2 DEF HeartbeatCommit, IInv, TypeOK, HeartbeatTxn, FreeSlot
  <2>3. hb'[k].st = "answered" => \A c \in Handed(k)' :
          rows'[c].status = "dispatched" /\ c \notin Pending(disk)
    BY <1>4, <2>2 DEF Handed
  <2> QED BY <1>1, <1>2, <1>3, <2>1, <2>2, <2>3 DEF BeatFlow
<1>8. LateFlow'
  BY <1>1, <1>3, <1>4 DEF RInv, LateFlow, IInv, TypeOK, Delivered
<1>9. StoreFlow' /\ RowFlow'
  BY <1>1, <1>4 DEF RInv, StoreFlow, RowFlow, Kept, Has, ResultStored
<1> QED BY <1>5, <1>6, <1>7, <1>8, <1>9 DEF RInv

-----------------------------------------------------------------------------
(***************************************************************************)
(* The steps of the agent.                                                 *)
(***************************************************************************)

\* A step of the agent leaves the rows alone and only adds to the outbox.
LEMMA AgentKeeps ==
  ASSUME IInv, RInv,
         UNCHANGED <<rows, late, execCount, completions>>,
         Pending(disk) \subseteq Pending(disk'),
         \A c \in Cmds : Kept(disk', c) /\ Kept(mem', c)
  PROVE  LateFlow' /\ StoreFlow' /\ RowFlow'
<1>1. Pending(disk)' = Pending(disk')
  BY DEF Pending
<1>2. LateFlow'
  BY <1>1 DEF RInv, LateFlow, Delivered
<1>3. StoreFlow' /\ RowFlow'
  BY DEF RInv, StoreFlow, RowFlow, Kept, Delivered, Has, ResultStored
<1> QED BY <1>2, <1>3

\* While the agent works, no request of its is open.
LEMMA NoBeat ==
  ASSUME IInv, RInv, pc \notin Resting, hb' = hb
  PROVE  BeatFlow'
<1>1. \A k \in Slots : hb'[k].st = "free"
  BY DEF RInv, BeatFlow
<1> QED BY <1>1 DEF BeatFlow

\* The process ends: the file keeps what it had or got.
LEMMA EndStep ==
  ASSUME IInv, RInv, ProcessEnds,
         UNCHANGED <<rows, late, revoking, execCount, completions>>,
         Pending(disk) \subseteq Pending(disk'),
         \A c \in Cmds : Kept(disk', c),
         BeatFlow'
  PROVE  RInv'
<1>1. pc' = "down" /\ batch' = {} /\ mem' = EmptyJournal
  BY DEF ProcessEnds
<1>2. \A c \in Cmds : Kept(mem', c)
  BY <1>1 DEF Kept, EmptyJournal, Absent, Has, ResultStored, InFlight
<1>3. JournalFlow'
  BY <1>1 DEF JournalFlow, Flushing
<1>4. BatchFlow'
  BY <1>1 DEF RInv, BatchFlow, Working
<1> QED BY <1>2, <1>3, <1>4, AgentKeeps DEF RInv

\* checkIn prunes and advertises the whole outbox.
LEMMA CheckInStep ==
  ASSUME SerialBeats, IInv, IInv', RInv, NEW k \in Slots, BeginCheckIn(k)
  PROVE  RInv'
<1>1. /\ UNCHANGED <<rows, late, revoking, cur, batch, outbox, held, execCount, completions>>
      /\ pc = "idle" /\ pc' = "beat" /\ mem' = Prune(mem) /\ disk' = Prune(mem)
  BY DEF BeginCheckIn, Save, historyVars
<1>2. mem = disk /\ disk \in Journal /\ Steady(disk) /\ batch = {}
  BY <1>1 DEF RInv, JournalFlow, BatchFlow, Steady, Working, Resting, IInv, TypeOK
<1>3. Pending(Prune(mem)) = Pending(mem) /\ Steady(Prune(mem))
  <2>1. 1 \in Cmds \/ Cmds = {}
    BY CommandDeliveryConstants DEF Cmds
  <2>2. CASE Cmds = {}
    BY <2>2 DEF Pending, Steady
  <2> QED BY <1>2, <2>1, <2>2, Outbox, SteadyOps
<1>4. PICK n \in SUBSET Pending(Prune(mem)) :
        /\ \/ n = Pending(Prune(mem)) \/ Cardinality(n) = NoticeCap
        /\ hb' = [hb EXCEPT ![k] = [FreeSlot EXCEPT !.st = "sent", !.notices = n, !.version = speaks]]
  BY DEF BeginCheckIn
<1>5. n = Pending(Prune(mem))
  <2>1. IsFiniteSet(Cmds) /\ Cardinality(Cmds) = NumCommands
    BY FS_Interval, CommandDeliveryConstants DEF Cmds
  <2>2. n \subseteq Cmds /\ Pending(Prune(mem)) \subseteq Cmds
    BY DEF Pending
  <2>3. CASE Cardinality(n) = NoticeCap
    <3>1. /\ Cardinality(n) <= NumCommands /\ Cardinality(n) \in Nat
          /\ Cardinality(n) = NumCommands => n = Cmds
      BY <2>1, <2>2, FS_Subset, FS_CardinalityType
    <3>2. NoticeCap \in Nat /\ NumCommands \in Nat /\ NumCommands <= NoticeCap
      BY CommandDeliveryConstants DEF SerialBeats
    <3> QED BY <2>2, <2>3, <3>1, <3>2
  <2> QED BY <1>4, <2>3
<1>6. \A c \in Cmds : Kept(mem', c)
  BY <1>1, <1>2, KeptOps DEF RInv, StoreFlow
<1>7. Pending(disk)' = Pending(disk) /\ Pending(mem)' = Pending(disk) /\ Steady(disk)'
  BY <1>1, <1>2, <1>3 DEF Pending, Steady
<1>8. JournalFlow'
  BY <1>1, <1>7 DEF JournalFlow, Steady, Flushing
<1>9. BatchFlow'
  BY <1>1, <1>2 DEF RInv, BatchFlow, Working
<1>10. BeatFlow'
  <2>1. \A i \in Slots : i = k
    BY OneSlot
  <2>2. hb'[k].st = "sent" /\ hb'[k].notices = n
    BY <1>4 DEF IInv, TypeOK, FreeSlot
  <2> QED BY <1>1, <1>3, <1>2, <1>5, <1>7, <2>1, <2>2 DEF BeatFlow, Resting
<1>11. LateFlow' /\ StoreFlow' /\ RowFlow'
  BY <1>1, <1>2, <1>3, <1>6, AgentKeeps
<1> QED BY <1>8, <1>9, <1>10, <1>11 DEF RInv

\* Recovery resolves everything in flight and adds to the outbox.
LEMMA RecoverSteady ==
  ASSUME NEW j \in Journal
  PROVE  /\ Steady(RecoverInterrupted(j)) /\ Steady(Prune(RecoverInterrupted(j)))
         /\ Pending(j) \subseteq Pending(RecoverInterrupted(j))
         /\ Pending(Prune(RecoverInterrupted(j))) = Pending(RecoverInterrupted(j))
<1>1. \A c \in Cmds : RecoverInterrupted(j).entries[c] = RecoveredEntry(j.entries[c])
  BY DEF RecoverInterrupted
<1>2. \A e : e.state = "result_pending" => RecoveredEntry(e) = e
  BY DEF RecoveredEntry
<1>3. \A c \in Cmds : j.entries[c] \in Entry
  BY DEF Journal
<1>4. ASSUME NEW e \in Entry PROVE RecoveredEntry(e).state \notin InFlight
  BY DEF RecoveredEntry, InFlight, Absent, Entry
<1>5. Steady(RecoverInterrupted(j))
  BY <1>1, <1>3, <1>4 DEF Steady
<1>6. Pending(j) \subseteq Pending(RecoverInterrupted(j))
  BY <1>1, <1>2 DEF Pending
<1>7. \A i : /\ Steady(i) => Steady(Prune(i))
             /\ Pending(Prune(i)) = Pending(i)
  BY DEF Steady, Pending, Prune, Prunable, Absent, InFlight
<1> QED BY <1>5, <1>6, <1>7

\* The agent dies between two durable writes, or stops between two beats.
LEMMA LifecycleStep ==
  ASSUME IInv, IInv', RInv, Crash \/ StopCompletes \/ Start \/ StartFails
  PROVE  RInv'
<1>1. UNCHANGED <<rows, late, revoking, execCount, completions>>
  BY DEF Crash, StopCompletes, Start, StartFails, serverVars, historyVars
<1>2. disk \in Journal
  BY DEF IInv, TypeOK
<1>k. \A c \in Cmds : Kept(disk, c)
  BY DEF RInv, StoreFlow
<1>3. CASE Crash \/ StopCompletes
  <2>1. ProcessEnds /\ disk' = disk /\ pc' \in Resting
    BY <1>3 DEF Crash, StopCompletes, ProcessEnds, Resting
  <2>2. hb' = hb \/ hb' = AnswerDropped(beat)
    BY <1>3 DEF Crash, StopCompletes, HbWithoutReader, serverVars
  <2>3. BeatFlow'
    BY <1>1, <2>1, <2>2, SlotFreed
  <2> QED BY <1>1, <1>k, <2>1, <2>3, EndStep
<1>r. /\ \A c \in Cmds : Kept(RecoverInterrupted(disk), c)
      /\ \A c \in Cmds : Kept(Prune(RecoverInterrupted(disk)), c)
  BY <1>2, <1>k, KeptOps, RecoverPrune
<1>s. /\ Steady(disk) => Pending(RecoverInterrupted(disk)) = Pending(disk)
      /\ Steady(RecoverInterrupted(disk)) /\ Steady(Prune(RecoverInterrupted(disk)))
      /\ Pending(disk) \subseteq Pending(RecoverInterrupted(disk))
      /\ Pending(Prune(RecoverInterrupted(disk))) = Pending(RecoverInterrupted(disk))
  <2>1. ASSUME NEW c \in Cmds, Steady(disk)
        PROVE  Pending(RecoverInterrupted(disk)) = Pending(disk)
    BY <1>2, <2>1, SteadyOps
  <2>2. Cmds = {} => Pending(RecoverInterrupted(disk)) = Pending(disk)
    BY DEF Pending
  <2> QED BY <1>2, <2>1, <2>2, RecoverSteady
<1>b. ASSUME disk' = disk \/ disk' = RecoverInterrupted(disk)
                 \/ disk' = Prune(RecoverInterrupted(disk)),
             hb' = hb, pc' \in Resting
      PROVE  BeatFlow'
  <2>1. CASE \A k \in Slots : hb[k].st = "free"
    BY <1>b, <2>1 DEF BeatFlow
  <2>2. CASE \E k \in Slots : hb[k].st # "free"
    <3>1. Steady(disk)
      BY <2>2 DEF RInv, BeatFlow
    <3>2. Pending(disk') = Pending(disk) /\ Steady(disk')
      BY <1>b, <1>s, <3>1
    <3> QED BY <1>1, <1>b, <3>2, SlotFreed
  <2> QED BY <2>1, <2>2
<1>4. CASE Start
  <2>1. /\ mem' = Prune(RecoverInterrupted(disk)) /\ disk' = Prune(RecoverInterrupted(disk))
        /\ pc = "down" /\ pc' = "idle" /\ hb' = hb /\ batch' = batch
    BY <1>4 DEF Start, Save, serverVars
  <2>2. BeatFlow'
    BY <1>b, <2>1 DEF Resting
  <2>3. JournalFlow'
    BY <1>s, <2>1 DEF JournalFlow, Steady, Flushing
  <2>4. BatchFlow'
    BY <1>1, <2>1 DEF RInv, BatchFlow, Resting, Working
  <2>5. LateFlow' /\ StoreFlow' /\ RowFlow'
    BY <1>1, <1>r, <1>s, <2>1, AgentKeeps
  <2> QED BY <2>2, <2>3, <2>4, <2>5 DEF RInv
<1>5. CASE StartFails
  <2>1. /\ disk' \in {disk, RecoverInterrupted(disk)} /\ mem' = mem
        /\ pc = "down" /\ pc' = "down" /\ hb' = hb /\ batch' = batch
    BY <1>5 DEF StartFails, SaveFaults, serverVars, agentVars
  <2>2. BeatFlow'
    BY <1>b, <2>1 DEF Resting
  <2>3. JournalFlow'
    BY <2>1 DEF JournalFlow, Flushing
  <2>4. BatchFlow'
    BY <1>1, <2>1 DEF RInv, BatchFlow, Resting, Working
  <2>5. LateFlow' /\ StoreFlow' /\ RowFlow'
    BY <1>1, <1>k, <1>r, <1>s, <2>1, AgentKeeps DEF RInv, StoreFlow
  <2> QED BY <2>2, <2>3, <2>4, <2>5 DEF RInv
<1> QED BY <1>3, <1>4, <1>5

\* The rest of the check-in: a failed prune, a request given up, an answer.
LEMMA AnswerStep ==
  ASSUME SerialBeats, IInv, IInv', RInv,
         CheckInPruneFails \/ HeartbeatGivenUp \/ ReceiveAck
  PROVE  RInv'
<1>1. UNCHANGED <<rows, late, revoking, execCount, completions>>
  BY DEF CheckInPruneFails, HeartbeatGivenUp, ReceiveAck, serverVars, historyVars
<1>2. /\ pc \in {"idle", "beat"} /\ mem = disk /\ disk \in Journal /\ batch = {}
      /\ Steady(disk) /\ \A c \in Cmds : Kept(disk, c)
  BY DEF CheckInPruneFails, HeartbeatGivenUp, ReceiveAck, RInv, JournalFlow, BatchFlow,
         StoreFlow, Resting, Working, Steady, IInv, TypeOK
<1>3. CASE CheckInPruneFails
  <2>1. ProcessEnds /\ disk' \in {disk, Prune(disk)} /\ hb' = hb /\ pc' = "down"
    BY <1>2, <1>3 DEF CheckInPruneFails, SaveFaults, serverVars, ProcessEnds
  <2>2. Pending(Prune(disk)) = Pending(disk) /\ Steady(Prune(disk))
    BY <1>2 DEF Pending, Prune, Prunable, Absent, Steady, InFlight
  <2>3. BeatFlow'
    BY <1>1, <1>2, <2>1, <2>2, SlotFreed DEF Resting
  <2>4. \A c \in Cmds : Kept(disk', c)
    BY <1>2, <2>1, KeptOps
  <2> QED BY <1>1, <2>1, <2>2, <2>3, <2>4, EndStep
<1>4. CASE HeartbeatGivenUp
  <2>1. /\ pc' = "idle" /\ hb' = AnswerDropped(beat)
        /\ UNCHANGED <<disk, mem, batch>>
    BY <1>4 DEF HeartbeatGivenUp
  <2>2. BeatFlow'
    BY <1>1, <2>1, SlotFreed DEF Resting
  <2>3. JournalFlow'
    BY <1>2, <2>1 DEF JournalFlow, Steady, Flushing
  <2>4. BatchFlow'
    BY <1>1, <1>2, <2>1 DEF RInv, BatchFlow, Working
  <2>5. LateFlow' /\ StoreFlow' /\ RowFlow'
    BY <1>1, <1>2, <2>1, AgentKeeps DEF RInv, StoreFlow
  <2> QED BY <2>2, <2>3, <2>4, <2>5 DEF RInv
<1>5. CASE ReceiveAck
  <2>1. /\ pc = "beat" /\ hb[beat].st = "answered" /\ beat \in Slots
        /\ UNCHANGED <<disk, mem>> /\ hb' = [hb EXCEPT ![beat] = FreeSlot]
        /\ \/ pc' = "idle" /\ batch' = batch
           \/ pc' = "flushFirst" /\ batch' = Handed(beat) /\ outbox' = Pending(mem)
    BY <1>5 DEF ReceiveAck, IInv, AgentInv
  <2>2. \A k \in Slots : hb'[k].st = "free"
    BY <2>1, OneSlot DEF IInv, TypeOK, FreeSlot
  <2>3. BeatFlow'
    BY <2>2 DEF BeatFlow
  <2>4. Pending(mem)' = Pending(mem) /\ Pending(disk)' = Pending(disk)
    BY <2>1 DEF Pending
  <2>5. JournalFlow'
    BY <1>2, <2>1, <2>4 DEF JournalFlow, Steady, Flushing
  <2>6. \A c \in Handed(beat) : rows[c].status = "dispatched" /\ c \notin Pending(disk)
    BY <2>1 DEF RInv, BeatFlow
  <2>7. BatchFlow'
    BY <1>1, <1>2, <2>1, <2>4, <2>6 DEF RInv, BatchFlow, Unheard, Working, Resting
  <2>8. LateFlow' /\ StoreFlow' /\ RowFlow'
    BY <1>1, <1>2, <2>1, AgentKeeps DEF RInv, StoreFlow
  <2> QED BY <2>3, <2>5, <2>7, <2>8 DEF RInv
<1> QED BY <1>3, <1>4, <1>5

\* flushPendingResults returns: into the batch, to the last flush, or out.
LEMMA FlushStep ==
  ASSUME IInv, RInv, FlushDone
  PROVE  RInv'
<1>1. /\ UNCHANGED <<rows, late, revoking, execCount, completions, hb, disk, mem, cur, held>>
      /\ pc \in Flushing
  BY DEF FlushDone, serverVars, historyVars
<1>2. /\ pc \notin Resting /\ mem = disk /\ Steady(disk) /\ batch \in SUBSET Cmds
  BY <1>1 DEF RInv, JournalFlow, Flushing, Resting, Working, Steady, IInv, TypeOK
<1>3. /\ pc' \in {"idle", "take", "flushLast"}
      /\ pc' = "flushLast" => batch' = {} /\ outbox' = Pending(mem)
      /\ pc' = "idle" => batch' = {}
      /\ batch' \in SUBSET batch
  BY <1>1 DEF FlushDone, RInv, BatchFlow
<1>4. Pending(mem)' = Pending(mem) /\ Pending(disk)' = Pending(disk)
  BY <1>1 DEF Pending
<1>5. JournalFlow'
  BY <1>1, <1>2, <1>3, <1>4 DEF JournalFlow, Steady, Flushing
<1>6. BatchFlow'
  BY <1>1, <1>2, <1>3, <1>4 DEF RInv, BatchFlow, Unheard, Working, Resting
<1>7. BeatFlow'
  BY <1>1, <1>2, NoBeat
<1>8. LateFlow' /\ StoreFlow' /\ RowFlow'
  BY <1>1, AgentKeeps DEF RInv, StoreFlow
<1> QED BY <1>5, <1>6, <1>7, <1>8 DEF RInv

\* submitResult: the entry leaves the outbox only once its row is answered.
LEMMA ReportStep ==
  ASSUME IInv, IInv', RInv, NEW d \in Cmds, Report(d)
  PROVE  RInv'
<1>1. /\ UNCHANGED <<revoking, hb, execCount>>
      /\ pc \in Flushing /\ d \in outbox
  BY DEF Report, ReportAcknowledged, AcknowledgeFails, ReportUnanswered, ReportLost,
         Uploads, historyVars
<1>2. /\ pc \notin Resting /\ pc \notin Working /\ mem = disk /\ Steady(disk)
      /\ disk \in Journal /\ d \in Pending(disk) /\ outbox \in SUBSET Pending(disk)
      /\ batch \in SUBSET Cmds /\ \A c \in Cmds : Kept(disk, c)
  BY <1>1 DEF RInv, JournalFlow, StoreFlow, Flushing, Resting, Working, Steady, IInv, TypeOK
<1>3. BeatFlow'
  BY <1>1, <1>2, NoBeat
<1>4. CASE ReportLost(d)
  <2>1. /\ UNCHANGED <<rows, completions, disk, mem, pc, cur, batch, held>>
        /\ outbox' = outbox \ {d}
        /\ late' \in {late, late \cup {[cmd |-> d, result |-> StoredResult(d)]}}
    BY <1>4 DEF ReportLost, historyVars
  <2>2. Pending(mem)' = Pending(mem) /\ Pending(disk)' = Pending(disk)
    BY <2>1 DEF Pending
  <2>3. JournalFlow'
    BY <1>2, <2>1, <2>2 DEF RInv, JournalFlow
  <2>4. BatchFlow'
    BY <1>1, <1>2, <2>1, <2>2 DEF RInv, BatchFlow, Unheard, Working
  <2>5. /\ Delivered(d) /\ StoredResult(d) # "none"
        /\ StoredResult(d) = "refused" => execCount[d] = 0
    BY <1>2 DEF Kept, StoredResult, Pending, Has, ResultStored
  <2>6. LateFlow'
    BY <1>1, <1>2, <2>1, <2>2, <2>5 DEF RInv, LateFlow, Delivered
  <2>7. StoreFlow' /\ RowFlow'
    BY <1>1, <2>1 DEF RInv, StoreFlow, RowFlow, Kept, Delivered, Has, ResultStored
  <2> QED BY <1>3, <2>3, <2>4, <2>6, <2>7 DEF RInv
<1>5. CASE ReportAcknowledged(d) \/ AcknowledgeFails(d) \/ ReportUnanswered(d)
  <2>1. SubmitResult(d, StoredResult(d)) /\ late' = late
    BY <1>5 DEF ReportAcknowledged, AcknowledgeFails, ReportUnanswered
  <2>2. /\ \A c \in Cmds : Delivered(c) => Delivered(c)'
        /\ \A c \in Cmds : c \notin Pending(disk) => rows'[c] = rows[c]
        /\ \A c \in Cmds : rows'[c].status \in Reportable => rows'[c] = rows[c]
        /\ RowFlow'
    BY <1>1, <1>2, <2>1, SubmitStep
  <2>3. \/ /\ UNCHANGED <<disk, mem, pc, cur, batch, held>> /\ outbox' = outbox \ {d}
        \/ /\ UNCHANGED <<pc, cur, batch, held>> /\ outbox' = outbox \ {d}
           /\ mem' = Acknowledge(mem, d) /\ disk' = Acknowledge(mem, d)
           /\ Accepting(d) \/ Replayed(d, StoredResult(d))
        \/ /\ pc' = "down" /\ batch' = {} /\ mem' = EmptyJournal
           /\ disk' \in {disk, Acknowledge(mem, d)}
           /\ Accepting(d) \/ Replayed(d, StoredResult(d))
    BY <1>5 DEF ReportAcknowledged, AcknowledgeFails, ReportUnanswered, Save, SaveFaults,
                ProcessEnds
  <2>4. Accepting(d) \/ Replayed(d, StoredResult(d)) => rows'[d].status \in Terminal
    BY <2>1, SubmitFacts DEF Replayed
  <2>5. /\ Pending(Acknowledge(mem, d)) = Pending(disk) \ {d}
        /\ Steady(Acknowledge(mem, d)) /\ \A c \in Cmds : Kept(Acknowledge(mem, d), c)
        /\ \A c \in Cmds : Kept(EmptyJournal, c)
    BY <1>2, Outbox, SteadyOps, KeptOps
  <2>6. /\ \/ disk' = disk
           \/ disk' = Acknowledge(mem, d) /\ rows'[d].status \in Terminal
        /\ \/ mem' = disk' /\ UNCHANGED <<pc, cur, batch, held>> /\ outbox' = outbox \ {d}
           \/ pc' = "down" /\ batch' = {} /\ mem' = EmptyJournal
    BY <1>2, <2>3, <2>4
  <2>7. /\ Pending(disk)' = Pending(disk') /\ Pending(mem)' = Pending(mem')
        /\ Pending(disk') \in {Pending(disk), Pending(disk) \ {d}} /\ Steady(disk')
        /\ Pending(disk') = Pending(disk) \/ rows'[d].status \in Terminal
        /\ \A c \in Cmds : Kept(disk', c) /\ Kept(mem', c)
    BY <1>2, <2>5, <2>6 DEF Pending
  <2>8. JournalFlow'
    BY <1>2, <2>6, <2>7 DEF JournalFlow, Steady, Flushing, Working
  <2>9. BatchFlow'
    BY <1>1, <1>2, <2>2, <2>6, <2>7 DEF RInv, BatchFlow, Unheard, Working
  <2>10. LateFlow'
    BY <1>1, <2>1, <2>2, <2>7 DEF RInv, LateFlow, IInv, TypeOK, Terminal, Reportable
  <2>11. StoreFlow'
    BY <1>1, <2>2, <2>7 DEF StoreFlow, Kept, Has, ResultStored
  <2> QED BY <1>3, <2>2, <2>8, <2>9, <2>10, <2>11 DEF RInv
<1> QED BY <1>4, <1>5 DEF Report

\* A command of the batch that the journal does not owe has not run.
LEMMA NotRun ==
  ASSUME IInv, RInv, NEW d \in Cmds, rows[d].status \in Outstanding,
         d \notin Pending(disk), disk.entries[d].state # "executing"
  PROVE  execCount[d] = 0 /\ outcome[d] = "none"
<1>1. completions[d] \in 0..2 /\ execCount[d] \in Nat
  BY DEF IInv, TypeOK
<1>2. ~(completions[d] > 0)
  BY DEF RInv, RowFlow, Outstanding, Terminal
<1>3. ~(execCount[d] > 0)
  BY <1>2 DEF IInv, DiskInv, Journaled, Owed, Pending
<1> QED BY <1>1, <1>3 DEF IInv, ServerInv

\* An answer is stored for the oldest command of the batch, or for the one the
\* agent has just dealt with, and the flush begins.
LEMMA StoredStep ==
  ASSUME IInv, IInv', RInv, NEW d \in Cmds, NEW j \in Journal,
         pc \notin Resting, pc # "flushLast", d \notin batch',
         UNCHANGED <<rows, late, revoking, hb, execCount, completions>>,
         mem' = j, disk' = j, pc' = "flushCmd", outbox' = Pending(j),
         batch' \in SUBSET batch,
         Pending(mem) \subseteq Pending(j), Pending(j) \subseteq Pending(mem) \cup {d},
         Steady(j), \A c \in Cmds : Kept(j, c)
  PROVE  RInv'
<1>1. /\ Pending(mem)' = Pending(j) /\ Pending(disk)' = Pending(j)
      /\ batch \in SUBSET Cmds
  BY DEF Pending, IInv, TypeOK
<1>2. Pending(disk) \subseteq Pending(j)
  BY DEF RInv, JournalFlow, Resting
<1>3. JournalFlow'
  BY <1>1 DEF JournalFlow, Steady, Flushing
<1>4. BatchFlow'
  BY <1>1 DEF RInv, BatchFlow, Unheard, Working, Resting
<1>5. BeatFlow'
  BY NoBeat
<1>6. LateFlow' /\ StoreFlow' /\ RowFlow'
  BY <1>2, AgentKeeps
<1> QED BY <1>3, <1>4, <1>5, <1>6 DEF RInv

\* processCommand, up to the reservation.
LEMMA ProcessStep ==
  ASSUME IInv, IInv', RInv, NEW d \in Cmds, ProcessCommand(d)
  PROVE  RInv'
<1>1. /\ UNCHANGED <<rows, late, revoking, hb, execCount, completions, held>>
      /\ pc = "take" /\ d \in batch /\ batch' = batch \ {d}
  BY DEF ProcessCommand, Refuse, AnswerSeen, Reserve, ReserveFails, Fresh, Oldest,
         serverVars, historyVars
<1>2. /\ mem = disk /\ Steady(disk) /\ mem \in Journal /\ batch \in SUBSET Cmds
      /\ \A c \in Cmds : Kept(mem, c)
      /\ \A c \in batch : rows[c].status = "dispatched" /\ Unheard(c)
      /\ pc \notin Resting /\ pc \notin Working
  BY <1>1 DEF RInv, JournalFlow, BatchFlow, StoreFlow, Steady, Working, Resting, IInv, TypeOK
<1>3. /\ rows[d].status = "dispatched" /\ Delivered(d) /\ d \notin Pending(mem)
      /\ execCount[d] = 0
  <2>1. rows[d].status = "dispatched" /\ d \notin Pending(disk)
    BY <1>1, <1>2 DEF Unheard
  <2>2. disk.entries[d].state # "executing"
    BY <1>2 DEF Steady, InFlight
  <2> QED BY <1>2, <2>1, <2>2, NotRun DEF Delivered, Outstanding
<1>4. BeatFlow'
  BY <1>1, <1>2, NoBeat
<1>5. CASE Refuse(d)
  <2>1. PICK f \in Refusals(d) :
          LET j == StoreResult(mem, d, f.result, f.expiry) IN Save(j) /\ FlushAfter(j)
    BY <1>5 DEF Refuse
  <2>2. f.result # "none"
    BY DEF Refusals
  <2> DEFINE j == StoreResult(mem, d, f.result, f.expiry)
  <2>3. /\ Pending(mem) \subseteq Pending(j) /\ Pending(j) \subseteq Pending(mem) \cup {d}
        /\ Steady(j) /\ \A c \in Cmds : Kept(j, c)
    BY <1>2, <1>3, <2>2, Outbox, SteadyOps, KeptOps
  <2>4. mem' = j /\ disk' = j /\ pc' = "flushCmd" /\ outbox' = Pending(j) /\ j \in Journal
    BY <2>1 DEF Save, FlushAfter, IInv, TypeOK
  <2> HIDE DEF j
  <2> QED BY <1>1, <1>2, <2>3, <2>4, StoredStep
<1>6. CASE AnswerSeen(d)
  <2> DEFINE j == RequeueAcknowledged(mem, d)
  <2>1. /\ Pending(mem) \subseteq Pending(j) /\ Pending(j) \subseteq Pending(mem) \cup {d}
        /\ Steady(j) /\ \A c \in Cmds : Kept(j, c)
    BY <1>2, Outbox, SteadyOps, KeptOps
  <2>2. mem' = j /\ disk' = j /\ pc' = "flushCmd" /\ outbox' = Pending(j) /\ j \in Journal
    BY <1>6 DEF AnswerSeen, Save, FlushAfter, IInv, TypeOK
  <2> HIDE DEF j
  <2> QED BY <1>1, <1>2, <2>1, <2>2, StoredStep
<1>7. CASE Reserve(d) \/ ReserveFails(d)
  <2> DEFINE j == ReserveCommand(mem, d)
  <2>1. /\ Pending(j) = Pending(mem) /\ \A c \in Cmds : Kept(j, c)
        /\ j.entries[d].state = "reserved"
        /\ \A c \in Cmds : c # d => j.entries[c] = mem.entries[c]
    <3>1. Pending(j) = Pending(mem) \ {d}
      BY <1>2, Outbox
    <3> QED BY <1>2, <1>3, <3>1, KeptOps, OwnEntry, OtherEntries
  <2>2. /\ disk' \in {disk, j} /\ cur' = d
        /\ \/ pc' = "reserved" /\ mem' = j /\ disk' = j
           \/ pc' = "refuse" /\ mem' = mem
    BY <1>7 DEF Reserve, ReserveFails, Save, SaveFaults
  <2> HIDE DEF j
  <2>3. Pending(mem)' = Pending(mem) /\ Pending(disk)' = Pending(disk)
        /\ Pending(disk') = Pending(disk)
    BY <1>2, <2>1, <2>2 DEF Pending
  <2>4. JournalFlow'
    BY <1>2, <2>1, <2>2, <2>3 DEF JournalFlow, Working, Steady, Flushing
  <2>5. BatchFlow'
    BY <1>1, <1>2, <1>3, <2>2, <2>3 DEF RInv, BatchFlow, Unheard, Resting
  <2>6. \A c \in Cmds : Kept(disk', c) /\ Kept(mem', c)
    BY <1>2, <2>1, <2>2
  <2>7. LateFlow' /\ StoreFlow' /\ RowFlow'
    BY <1>1, <2>3, <2>6, AgentKeeps
  <2> QED BY <1>4, <2>4, <2>5, <2>7 DEF RInv
<1> QED BY <1>5, <1>6, <1>7 DEF ProcessCommand

\* processCommand, from the reservation to the stored result.
LEMMA RunStep ==
  ASSUME IInv, IInv', RInv, RunCommand
  PROVE  RInv'
<1>1. /\ UNCHANGED <<rows, late, revoking, hb, completions>> /\ pc \in Working
  BY DEF RunCommand, BeginExecution, BeginExecutionFails, QueueRefusal, QueueRefusalFails,
         Execute, StoreOutcome, StoreOutcomeFails, Working, serverVars, historyVars
<1>2. /\ cur \in Cmds /\ mem \in Journal /\ disk \in Journal /\ batch \in SUBSET Cmds
      /\ \A c \in Cmds : Kept(mem, c) /\ Kept(disk, c)
      /\ \A c \in batch : rows[c].status = "dispatched" /\ Unheard(c)
      /\ pc \notin Resting /\ cur \notin batch
      /\ \A c \in Cmds : c # cur => /\ disk.entries[c].state \notin InFlight
                                   /\ mem.entries[c].state \notin InFlight
      /\ Pending(disk) = Pending(mem)
  BY <1>1 DEF RInv, JournalFlow, BatchFlow, StoreFlow, Working, Resting, IInv, AgentInv,
              TypeOK
<1>3. BeatFlow'
  BY <1>1, <1>2, NoBeat
<1>4. CASE BeginExecution \/ BeginExecutionFails
  <2>1. /\ pc = "reserved" /\ mem.entries[cur].state = "reserved" /\ mem = disk
        /\ rows[cur].status = "dispatched" /\ Unheard(cur)
        /\ UNCHANGED <<cur, batch, execCount, held>>
    BY <1>4 DEF BeginExecution, BeginExecutionFails, RInv, JournalFlow, BatchFlow,
                historyVars
  <2> DEFINE j == MarkExecuting(mem, cur)
  <2>2. /\ disk' \in {disk, j}
        /\ \/ pc' = "executing" /\ mem' = j /\ disk' = j
           \/ pc' = "refuse" /\ mem' = mem
    BY <1>4 DEF BeginExecution, BeginExecutionFails, Save, SaveFaults
  <2>3. /\ Pending(j) = Pending(mem) /\ \A c \in Cmds : Kept(j, c)
        /\ \A c \in Cmds : c # cur => j.entries[c] = mem.entries[c]
    <3>1. Pending(j) = Pending(mem) \ {cur}
      BY <1>2, Outbox
    <3> QED BY <1>2, <2>1, <3>1, KeptOps, OtherEntries DEF Unheard
  <2> HIDE DEF j
  <2>4. Pending(mem)' = Pending(mem) /\ Pending(disk)' = Pending(disk)
        /\ Pending(disk') = Pending(disk)
    BY <2>1, <2>2, <2>3 DEF Pending
  <2>5. JournalFlow'
    BY <1>2, <2>1, <2>2, <2>3, <2>4 DEF JournalFlow, Working, Flushing
  <2>6. BatchFlow'
    BY <1>1, <1>2, <2>1, <2>2, <2>4 DEF RInv, BatchFlow, Unheard, Resting
  <2>7. \A c \in Cmds : Kept(disk', c) /\ Kept(mem', c)
    BY <1>2, <2>2, <2>3
  <2>8. LateFlow' /\ StoreFlow' /\ RowFlow'
    BY <1>1, <2>1, <2>4, <2>7, AgentKeeps
  <2> QED BY <1>3, <2>5, <2>6, <2>8 DEF RInv
<1>5. CASE QueueRefusal \/ QueueRefusalFails \/ StoreOutcome \/ StoreOutcomeFails
  <2>1. PICK r :
          /\ Delivered(cur) /\ r # "none" /\ (r = "refused" => execCount[cur] = 0)
          /\ execCount' = execCount
          /\ \/ /\ mem' = StoreResult(mem, cur, r, ExpiresAt(cur)) /\ disk' = mem'
                /\ pc' = "flushCmd" /\ outbox' = Pending(mem') /\ batch' = batch
             \/ /\ disk' \in {disk, StoreResult(mem, cur, r, ExpiresAt(cur))} /\ ProcessEnds
    <3>1. CASE QueueRefusal \/ QueueRefusalFails
      <4>1. rows[cur].status = "dispatched" /\ execCount[cur] = 0 /\ execCount' = execCount
        BY <3>1 DEF QueueRefusal, QueueRefusalFails, RInv, BatchFlow, IInv, AgentInv,
                    historyVars
      <4> QED BY <3>1, <4>1 DEF QueueRefusal, QueueRefusalFails, Save, SaveFaults, FlushAfter,
                                Delivered
    <3>2. CASE StoreOutcome \/ StoreOutcomeFails
      <4>1. /\ Delivered(cur) /\ held # "none" /\ held \in Outcomes \cup {"none"}
            /\ execCount' = execCount
        BY <3>2 DEF StoreOutcome, StoreOutcomeFails, RInv, BatchFlow, IInv, TypeOK,
                    historyVars
      <4> QED BY <3>2, <4>1 DEF StoreOutcome, StoreOutcomeFails, Save, SaveFaults, FlushAfter,
                                Outcomes
    <3> QED BY <1>5, <3>1, <3>2
  <2> DEFINE j == StoreResult(mem, cur, r, ExpiresAt(cur))
  <2>2. /\ Pending(mem) \subseteq Pending(j) /\ Pending(j) \subseteq Pending(mem) \cup {cur}
        /\ \A c \in Cmds : Kept(j, c)
    BY <1>2, <2>1, Outbox, KeptOps
  <2>3. Steady(j)
    BY <1>2, OwnEntry, OtherEntries DEF Steady, InFlight, ResultStored
  <2>4. CASE pc' = "flushCmd" /\ mem' = j /\ disk' = j /\ outbox' = Pending(j) /\ batch' = batch
    <3>1. j \in Journal
      BY <2>4 DEF IInv, TypeOK
    <3> HIDE DEF j
    <3>2. pc # "flushLast" /\ cur \notin batch'
      BY <1>1, <1>2, <2>4 DEF Working
    <3> QED BY <1>1, <1>2, <2>1, <2>2, <2>3, <2>4, <3>1, <3>2, StoredStep
  <2>5. CASE disk' \in {disk, j} /\ ProcessEnds
    <3>1. Pending(disk) \subseteq Pending(disk') /\ \A c \in Cmds : Kept(disk', c)
      BY <1>2, <2>2, <2>5
    <3> QED BY <1>1, <1>3, <2>1, <2>5, <3>1, EndStep
  <2> QED BY <2>1, <2>4, <2>5
<1>6. CASE Execute
  <2>1. /\ pc = "executing" /\ pc' = "ran" /\ held' \in Outcomes
        /\ UNCHANGED <<mem, disk, cur, batch>>
        /\ execCount' = [execCount EXCEPT ![cur] = @ + 1]
    BY <1>6 DEF Execute
  <2>2. /\ mem = disk /\ disk.entries[cur].state = "executing"
        /\ rows[cur].status = "dispatched" /\ Unheard(cur)
    BY <2>1 DEF RInv, JournalFlow, BatchFlow, IInv, AgentInv, Running
  <2>3. Pending(mem)' = Pending(mem) /\ Pending(disk)' = Pending(disk)
    BY <2>1 DEF Pending
  <2>4. \A c \in Cmds : c # cur => execCount'[c] = execCount[c]
    BY <1>2, <2>1 DEF IInv, TypeOK
  <2>5. JournalFlow'
    BY <1>2, <2>1, <2>2 DEF JournalFlow, Working, Flushing
  <2>6. BatchFlow'
    BY <1>1, <1>2, <2>1, <2>2, <2>3 DEF RInv, BatchFlow, Unheard, Delivered, Resting, Outcomes
  <2>7. ASSUME NEW c \in Cmds PROVE Kept(disk, c)'
    <3>1. disk.entries[cur].result = "none"
      BY <1>2, <2>2 DEF Kept, InFlight
    <3> QED BY <1>1, <1>2, <2>1, <2>4, <3>1 DEF Kept, Delivered, Has, ResultStored
  <2>8. StoreFlow'
    BY <2>1, <2>2, <2>7 DEF StoreFlow
  <2>9. \A m \in late : m.cmd # cur
    BY <2>2 DEF RInv, LateFlow, Unheard, Reportable
  <2>10. LateFlow'
    BY <1>1, <2>3, <2>4, <2>9 DEF RInv, LateFlow, Delivered, IInv, TypeOK
  <2>11. RowFlow'
    BY <1>1, <2>2, <2>4 DEF RInv, RowFlow, Delivered
  <2> QED BY <1>3, <2>5, <2>6, <2>8, <2>10, <2>11 DEF RInv
<1> QED BY <1>4, <1>5, <1>6 DEF RunCommand

\* RInv is inductive relative to IInv.
LEMMA RInvStep ==
  ASSUME SerialBeats, IInv, IInv', RInv, [Next]_vars
  PROVE  RInv'
<1>1. CASE ServerTick \/ AgentTick \/ QuarantineAgent \/ RestoreAgent \/ StopRequested
           \/ UNCHANGED vars
  <2>1. UNCHANGED <<rows, hb, late, revoking, disk, mem, pc, cur, batch, outbox, held,
                    execCount, completions>>
    BY <1>1 DEF ServerTick, AgentTick, QuarantineAgent, RestoreAgent, StopRequested, vars,
                serverVars, agentVars, historyVars
  <2> QED BY <2>1, QuietStep
<1>2. ~RevokeRead /\ ~RevokeCommit
  BY DEF RevokeRead, RevokeCommit, SerialBeats, RInv, BatchFlow
<1>3. ASSUME NEW c \in Cmds, DispatchCommand(c) \/ Report(c) \/ ProcessCommand(c)
      PROVE  RInv'
  BY <1>3, DispatchStep, ReportStep, ProcessStep
<1>4. ASSUME NEW k \in Slots, HeartbeatRead(k) \/ HeartbeatCommit(k) \/ BeginCheckIn(k)
      PROVE  RInv'
  BY <1>4, ReadStep, CommitStep, CheckInStep
<1>5. ASSUME NEW k \in Slots, HeartbeatFails(k) PROVE RInv'
  <2>1. /\ hb' = [hb EXCEPT ![k] = FreeSlot]
        /\ UNCHANGED <<rows, late, revoking, disk, mem, pc, cur, batch, outbox, held,
                       execCount, completions>>
    BY <1>5 DEF HeartbeatFails, agentVars, historyVars
  <2>2. BeatFlow'
    BY <2>1, SlotFreed
  <2> QED BY <2>1, <2>2, RequestStep
<1>6. ASSUME NEW m \in late, LateReport(m) PROVE RInv'
  BY <1>6, LateStep
<1>7. CASE CheckInPruneFails \/ HeartbeatGivenUp \/ ReceiveAck
  BY <1>7, AnswerStep
<1>8. CASE FlushDone
  BY <1>8, FlushStep
<1>9. CASE RunCommand
  BY <1>9, RunStep
<1>10. CASE Crash \/ StopCompletes \/ Start \/ StartFails
  BY <1>10, LifecycleStep
<1> QED BY <1>1, <1>2, <1>3, <1>4, <1>5, <1>6, <1>7, <1>8, <1>9, <1>10
           DEF Next, Operator, Server, CheckIn, Lifecycle

\* RInv holds before anything was issued.
LEMMA RInvInit == Init => RInv
<1> SUFFICES ASSUME Init PROVE RInv
  OBVIOUS
<1>1. JournalFlow /\ BatchFlow
  BY DEF Init, JournalFlow, BatchFlow, EmptyJournal, Absent, InFlight, Working, Flushing
<1>2. BeatFlow
  BY DEF Init, BeatFlow, FreeSlot
<1>3. LateFlow /\ RowFlow
  BY DEF Init, LateFlow, RowFlow
<1>4. StoreFlow
  BY DEF Init, StoreFlow, Kept, EmptyJournal, Absent, Has, ResultStored, InFlight
<1> QED BY <1>1, <1>2, <1>3, <1>4 DEF RInv

-----------------------------------------------------------------------------
(***************************************************************************)
(* The refinement.                                                         *)
(***************************************************************************)

\* Before anything was issued nothing has run and nothing is answered.
LEMMA ContractInit == Init => Contract!Init
<1> SUFFICES ASSUME Init PROVE Contract!Init
  OBVIOUS
<1>1. \A c \in Cmds : RecordedAnswer(c) = "unissued"
  BY DEF Init, RecordedAnswer, NoRow, Outstanding
<1>2. outcome = [c \in Cmds |-> "none"]
  BY DEF Init
<1> QED BY <1>1, <1>2 DEF Contract!Init

\* A step that starts no process and changes no recorded answer is a stutter.
LEMMA Stutters ==
  ASSUME outcome' = outcome,
         \A c \in Cmds : RecordedAnswer(c)' = RecordedAnswer(c)
  PROVE  UNCHANGED Contract!contractVars
<1>1. [c \in Cmds |-> RecordedAnswer(c)]' = [c \in Cmds |-> RecordedAnswer(c)]
  OBVIOUS
<1> QED BY <1>1 DEF Contract!contractVars

\* A step that leaves the rows alone and starts no process.
LEMMA RowsAlone ==
  ASSUME outcome' = outcome, rows' = rows
  PROVE  UNCHANGED Contract!contractVars
<1>1. \A c \in Cmds : RecordedAnswer(c)' = RecordedAnswer(c)
  BY DEF RecordedAnswer
<1> QED BY <1>1, Stutters

\* A command is issued once.
LEMMA IssueStep ==
  ASSUME IInv, NEW d \in Cmds, DispatchCommand(d)
  PROVE  Contract!Issue(d)
<1>1. /\ rows[d].status = "none" /\ rows'[d].status = "queued" /\ outcome' = outcome
      /\ \A c \in Cmds : c # d => rows'[c] = rows[c]
  BY DEF DispatchCommand, IInv, TypeOK, NoRow, historyVars
<1>2. RecordedAnswer(d) = "unissued" /\ RecordedAnswer(d)' = "open"
  BY <1>1 DEF RecordedAnswer, Outstanding
<1>3. \A c \in Cmds : c # d => RecordedAnswer(c)' = RecordedAnswer(c)
  BY <1>1 DEF RecordedAnswer
<1> QED BY <1>1, <1>2, <1>3 DEF Contract!Issue

\* A process starts only while the row is open.
LEMMA ExecuteStep ==
  ASSUME IInv, RInv, Execute
  PROVE  cur \in Cmds /\ Contract!Run(cur)
<1>1. /\ cur \in Cmds /\ rows[cur].status = "dispatched" /\ execCount[cur] = 0
      /\ rows' = rows /\ outcome \in [Cmds -> Outcomes \cup {"none"}]
  BY DEF Execute, IInv, AgentInv, TypeOK, RInv, BatchFlow, serverVars
<1>2. outcome[cur] = "none"
  BY <1>1 DEF IInv, ServerInv
<1>3. \A c \in Cmds : RecordedAnswer(c)' = RecordedAnswer(c)
  BY <1>1 DEF RecordedAnswer
<1>4. RecordedAnswer(cur) = "open"
  BY <1>1 DEF RecordedAnswer, Outstanding
<1>5. \E o \in Outcomes : outcome' = [outcome EXCEPT ![cur] = o]
  BY DEF Execute
<1> QED BY <1>1, <1>2, <1>3, <1>4, <1>5 DEF Contract!Run

\* A result is recorded once, and it is the truth.
LEMMA RecordStep ==
  ASSUME IInv, RInv, NEW d \in Cmds, NEW r \in Results \cup {"none"}, SubmitResult(d, r),
         r # "none", r = "refused" => execCount[d] = 0, Truthful(r, d), outcome' = outcome
  PROVE  Contract!Answer(d) \/ UNCHANGED Contract!contractVars
<1>1. CASE ~Accepting(d)
  BY <1>1, RowsAlone DEF SubmitResult
<1>2. CASE Accepting(d)
  <2>1. /\ rows[d].status \in Reportable /\ rows'[d].status \in Terminal
        /\ rows'[d].result = r /\ \A c \in Cmds : c # d => rows'[c] = rows[c]
    BY <1>2, SubmitFacts
  <2>2. RecordedAnswer(d) = "open"
    BY <2>1 DEF RecordedAnswer, Reportable, Outstanding
  <2>3. RecordedAnswer(d)' = r
    BY <2>1 DEF RecordedAnswer, Terminal, Outstanding
  <2>4. \A c \in Cmds : c # d => RecordedAnswer(c)' = RecordedAnswer(c)
    BY <2>1 DEF RecordedAnswer
  <2>5. /\ r \in Contract!Answers
        /\ r \in Outcomes => outcome[d] = r
        /\ r \in Contract!Denials => outcome[d] = "none"
    BY DEF Contract!Answers, Contract!Denials, Results, Outcomes, Truthful, IInv, ServerInv
  <2>6. [c \in Cmds |-> RecordedAnswer(c)]' =
          [[c \in Cmds |-> RecordedAnswer(c)] EXCEPT ![d] = r]
    BY <2>3, <2>4
  <2> QED BY <2>2, <2>5, <2>6 DEF Contract!Answer
<1> QED BY <1>1, <1>2

\* A heartbeat writes off open rows that have not run, and no others.
LEMMA WriteOffStep ==
  ASSUME IInv, RInv, NEW k \in Slots, HeartbeatCommit(k)
  PROVE  Contract!Expire \/ UNCHANGED Contract!contractVars
<1> DEFINE S == {c \in Cmds : hb[k].writes[c] = "expired"}
<1>1. outcome' = outcome /\ hb[k].st = "read" /\ Steady(disk)
  BY DEF HeartbeatCommit, historyVars, RInv, BeatFlow
<1>2. ASSUME NEW c \in S
      PROVE  RecordedAnswer(c) = "open" /\ RecordedAnswer(c)' = "expired" /\ outcome[c] = "none"
  <2>1. /\ rows[c].status \in {"queued", "dispatched"} /\ rows'[c].status = "expired"
        /\ c \notin Pending(disk) /\ c \in Cmds
    BY CommitRows
  <2>2. disk.entries[c].state # "executing"
    BY <1>1, <2>1 DEF Steady, InFlight
  <2>3. outcome[c] = "none"
    BY <2>1, <2>2, NotRun DEF Outstanding
  <2> QED BY <2>1, <2>3 DEF RecordedAnswer, Outstanding
<1>3. ASSUME NEW c \in Cmds \ S PROVE RecordedAnswer(c)' = RecordedAnswer(c)
  <2>1. \/ rows'[c] = rows[c]
        \/ rows[c].status \in Outstanding /\ rows'[c].status \in Outstanding
    BY CommitRows DEF Writes, Reportable, Outstanding
  <2> QED BY <2>1 DEF RecordedAnswer, Outstanding
<1>4. CASE S = {}
  BY <1>1, <1>3, <1>4, Stutters
<1>5. CASE S # {}
  <2>1. S \in (SUBSET Cmds) \ {{}}
    BY <1>5
  <2>2. [c \in Cmds |-> RecordedAnswer(c)]' =
          [c \in Cmds |-> IF c \in S THEN "expired"
                          ELSE [d \in Cmds |-> RecordedAnswer(d)][c]]
    BY <1>2, <1>3
  <2>3. \A c \in S : [d \in Cmds |-> RecordedAnswer(d)][c] = "open" /\ outcome[c] = "none"
    BY <1>2
  <2> HIDE DEF S
  <2> QED BY <1>1, <2>1, <2>2, <2>3 DEF Contract!Expire
<1> QED BY <1>4, <1>5

\* Every step of the delivery is a step of the contract or none.
LEMMA ContractStep ==
  ASSUME SerialBeats, IInv, IInv', RInv, [Next]_vars
  PROVE  [Contract!Next]_(Contract!contractVars)
<1>1. ASSUME NEW d \in Cmds, DispatchCommand(d) PROVE Contract!Next
  BY <1>1, IssueStep DEF Contract!Next
<1>2. CASE Execute
  BY <1>2, ExecuteStep DEF Contract!Next
<1>3. ASSUME NEW k \in Slots, HeartbeatCommit(k)
      PROVE  Contract!Next \/ UNCHANGED Contract!contractVars
  BY <1>3, WriteOffStep DEF Contract!Next
<1>4. ASSUME NEW m \in late, LateReport(m)
      PROVE  Contract!Next \/ UNCHANGED Contract!contractVars
  <2>1. /\ m.cmd \in Cmds /\ m.result \in Results \cup {"none"} /\ m.result # "none"
        /\ m.result = "refused" => execCount[m.cmd] = 0
        /\ Truthful(m.result, m.cmd)
    BY DEF IInv, TypeOK, ServerInv, RInv, LateFlow
  <2>2. SubmitResult(m.cmd, m.result) /\ outcome' = outcome
    BY <1>4 DEF LateReport
  <2> QED BY <2>1, <2>2, RecordStep DEF Contract!Next
<1>5. ASSUME NEW d \in Cmds, Report(d)
      PROVE  Contract!Next \/ UNCHANGED Contract!contractVars
  <2>1. CASE ReportLost(d)
    BY <2>1, RowsAlone DEF ReportLost, historyVars
  <2>2. CASE ReportAcknowledged(d) \/ AcknowledgeFails(d) \/ ReportUnanswered(d)
    <3>1. SubmitResult(d, StoredResult(d)) /\ outcome' = outcome /\ pc \in Flushing
          /\ d \in outbox
      BY <2>2 DEF ReportAcknowledged, AcknowledgeFails, ReportUnanswered, Uploads
    <3>2. pc # "down" /\ d \in Pending(mem) /\ mem \in Journal
      BY <3>1 DEF RInv, JournalFlow, Flushing, IInv, TypeOK
    <3>3. /\ StoredResult(d) \in Results \cup {"none"} /\ StoredResult(d) # "none"
          /\ StoredResult(d) = "refused" => execCount[d] = 0
          /\ Truthful(StoredResult(d), d)
      BY <3>2 DEF StoredResult, Journal, Entry, RInv, StoreFlow, Kept, ResultStored, Pending,
                  IInv, MemInv, Journaled
    <3> QED BY <3>1, <3>3, RecordStep DEF Contract!Next
  <2> QED BY <1>5, <2>1, <2>2 DEF Report
<1>6. ~RevokeRead /\ ~RevokeCommit
  BY DEF RevokeRead, RevokeCommit, SerialBeats, RInv, BatchFlow
<1>7. CASE ServerTick \/ AgentTick \/ QuarantineAgent \/ RestoreAgent \/ Lifecycle \/ CheckIn
           \/ UNCHANGED vars
  <2>1. rows' = rows /\ outcome' = outcome
    BY <1>7 DEF ServerTick, AgentTick, QuarantineAgent, RestoreAgent, Lifecycle, Crash, Start,
                StartFails, StopRequested, StopCompletes, CheckIn, BeginCheckIn,
                CheckInPruneFails, HeartbeatGivenUp, ReceiveAck, FlushDone, vars, serverVars,
                historyVars
  <2> QED BY <2>1, RowsAlone
<1>8. ASSUME NEW k \in Slots, HeartbeatRead(k) \/ HeartbeatFails(k)
      PROVE  UNCHANGED Contract!contractVars
  BY <1>8, RowsAlone DEF HeartbeatRead, HeartbeatFails, historyVars
<1>9. ASSUME NEW d \in Cmds, ProcessCommand(d)
      PROVE  UNCHANGED Contract!contractVars
  BY <1>9, RowsAlone DEF ProcessCommand, Refuse, AnswerSeen, Reserve, ReserveFails,
                         serverVars, historyVars
<1>10. CASE RunCommand /\ ~Execute
  BY <1>10, RowsAlone DEF RunCommand, BeginExecution, BeginExecutionFails, QueueRefusal,
        QueueRefusalFails, StoreOutcome, StoreOutcomeFails, serverVars, historyVars
<1> QED BY <1>1, <1>2, <1>3, <1>4, <1>5, <1>6, <1>7, <1>8, <1>9, <1>10
           DEF Next, Operator, Server

\* The rows, the heartbeats, the network, the journal and its recovery keep the
\* contract of a command (agents.py, runner.go, replay.go): it runs at most once
\* and only while its answer is open, and it is answered once, with the truth.
THEOREM ContractImplemented ==
  ASSUME SerialBeats
  PROVE  Spec => ImplementsContract
<1>1. IInv /\ IInv' /\ RInv /\ [Next]_vars
        => RInv' /\ [Contract!Next]_(Contract!contractVars)
  BY RInvStep, ContractStep
<1> QED BY Inductive, RInvInit, ContractInit, <1>1, PTL DEF Spec, ImplementsContract, Contract!Spec

-----------------------------------------------------------------------------
(* The inductive invariant of the scheduler. *)

Listing(s) == s \in Seq(ToSet(s))

Busy(w) == passes[w].op # "idle"

\* A row without a next run the code computed or an operator forced does not exist.
RowsOK ==
  /\ DOMAIN tasks = Tasks
  /\ \A k \in Tasks : tasks[k] # None =>
       /\ {"next", "manual"} \subseteq DOMAIN tasks[k]
       /\ tasks[k].next \in Nat /\ tasks[k].manual \in BOOLEAN

\* What a pass will queue belongs to its due tasks, whose due times it has reached
\* and whose next runs lie after it.
PassOK(p) ==
  /\ p.now \in Nat /\ p.now <= clock
  /\ p.due \subseteq Tasks
  /\ \A k \in p.due : p.moved[k] \in Nat /\ p.moved[k] > p.now
  /\ Listing(p.queue)
  /\ \A c \in ToSet(p.queue) : c.task \in p.due /\ c.for \in Nat /\ c.for <= p.now
  /\ p.op = "run_now" => p.task \in Tasks

Open(o) == openEdits[o].task # None
OpenShape(e) == DOMAIN e = {"task", "late", "columns"}

\* An edit under way writes columns of a task, a next run among them or not.
EditOK(e) ==
  /\ e.task \in Tasks /\ DOMAIN e.columns \subseteq Columns
  /\ "next" \in DOMAIN e.columns => e.columns["next"] \in Nat

ScheduleTypes ==
  /\ clock \in Nat
  /\ budget \in [serial : BOOLEAN, clock : Nat, ops : [Classes -> Nat]]
  /\ RowsOK
  /\ Listing(commands)
  /\ active \subseteq Agents
  /\ DOMAIN passes = Workers
  /\ \A w \in Workers : Busy(w) => PassOK(passes[w])
  /\ budget.serial => \A v, w \in Workers : Busy(v) /\ Busy(w) => v = w
  /\ DOMAIN openEdits = Operators
  /\ \A o \in Operators : OpenShape(openEdits[o]) /\ (Open(o) => EditOK(openEdits[o]))

\* An occurrence that ran lies before the next run of its task, unless an operator
\* has forced that or a late edit has overtaken it, before any pass under way, which
\* will not run it again, and before the next run of an edit that is not late.
OccurrenceInv ==
  /\ \A e \in repeats : e[1] \in overtaken
  /\ \A e \in ran : e[1] \in Tasks /\ e[3] \in Nat /\ e[3] <= clock
  /\ \A e \in ran : e[1] \notin overtaken /\ tasks[e[1]] # None /\ ~tasks[e[1]].manual
       => e[3] < tasks[e[1]].next
  /\ \A w \in Workers : Busy(w) =>
       /\ \A e \in ran : e[3] <= passes[w].now
       /\ \A e \in Occurrences(passes[w].queue) \cap ran : e[1] \in overtaken
  /\ \A o \in Operators : Open(o) /\ ~openEdits[o].late /\ "next" \in DOMAIN openEdits[o].columns
       => \A e \in ran : e[1] = openEdits[o].task => e[3] < openEdits[o].columns["next"]

\* No command of a task under "skip" follows one of the same work.
Apart(s) == \A i, j \in DOMAIN s :
  i < j /\ s[j].skip /\ s[i].agent = s[j].agent => ~SameWork(s[j], s[i])
FreeOf(s, q) == \A c \in ToSet(s), d \in ToSet(q) :
  d.skip /\ c.agent = d.agent => ~SameWork(d, c)

SkipInv ==
  /\ Apart(commands)
  /\ \A w \in Workers : Busy(w) => Apart(passes[w].queue) /\ FreeOf(commands, passes[w].queue)

-----------------------------------------------------------------------------
(* Sequences of commands. *)

\* What a sequence of anything lists.
LEMMA ListingOf ==
  ASSUME NEW S, NEW s \in Seq(S)
  PROVE  Listing(s) /\ ToSet(s) = {s[i] : i \in 1..Len(s)} /\ DOMAIN s = 1..Len(s) /\ Len(s) \in Nat
BY DEF Listing, ToSet

\* A queue joins the commands without breaking the concurrency policy.
LEMMA JoinedQueue ==
  ASSUME NEW s, NEW q, Listing(s), Listing(q)
  PROVE  /\ Listing(s \o q) /\ ToSet(s \o q) = ToSet(s) \cup ToSet(q)
         /\ Apart(s) /\ Apart(q) /\ FreeOf(s, q) => Apart(s \o q)
<1> DEFINE U == ToSet(s) \cup ToSet(q)
<1>1. /\ s \in Seq(U) /\ q \in Seq(U) /\ s \o q \in Seq(U)
      /\ Len(s) \in Nat /\ Len(q) \in Nat /\ Len(s \o q) = Len(s) + Len(q)
      /\ DOMAIN s = 1..Len(s) /\ DOMAIN q = 1..Len(q) /\ DOMAIN (s \o q) = 1..Len(s) + Len(q)
  BY DEF Listing
<1>2. /\ \A i \in 1..Len(s) : (s \o q)[i] = s[i]
      /\ \A i \in Len(s) + 1..Len(s) + Len(q) : (s \o q)[i] = q[i - Len(s)]
  BY <1>1
<1>3. ToSet(s \o q) = U
  <2>1. ASSUME NEW i \in 1..Len(s) + Len(q) PROVE (s \o q)[i] \in U
    BY <1>1
  <2>2. ASSUME NEW i \in 1..Len(s) PROVE s[i] \in ToSet(s \o q)
    <3>1. i \in DOMAIN (s \o q) /\ (s \o q)[i] = s[i]
      BY <1>1, <1>2
    <3> QED BY <3>1, Zenon DEF ToSet
  <2>3. ASSUME NEW i \in 1..Len(q) PROVE q[i] \in ToSet(s \o q)
    <3>1. Len(s) + i \in DOMAIN (s \o q) /\ (s \o q)[Len(s) + i] = q[i]
      BY <1>1, <1>2
    <3> QED BY <3>1, Zenon DEF ToSet
  <2> QED BY <1>1, <2>1, <2>2, <2>3 DEF ToSet
<1>4. Listing(s \o q)
  BY <1>1, <1>3 DEF Listing
<1>5. ASSUME Apart(s), Apart(q), FreeOf(s, q),
             NEW i \in 1..Len(s) + Len(q), NEW j \in 1..Len(s) + Len(q), i < j,
             (s \o q)[j].skip, (s \o q)[i].agent = (s \o q)[j].agent
      PROVE  ~SameWork((s \o q)[j], (s \o q)[i])
  <2>1. CASE j <= Len(s)
    BY <1>1, <1>2, <1>5, <2>1 DEF Apart
  <2>2. CASE i > Len(s)
    <3>1. i - Len(s) \in DOMAIN q /\ j - Len(s) \in DOMAIN q /\ i - Len(s) < j - Len(s)
      BY <1>1, <1>5, <2>2
    <3>2. (s \o q)[i] = q[i - Len(s)] /\ (s \o q)[j] = q[j - Len(s)]
      BY <1>1, <1>2, <1>5, <2>2
    <3> QED BY <1>5, <3>1, <3>2, Zenon DEF Apart
  <2>3. CASE i <= Len(s) /\ j > Len(s)
    <3>1. i \in DOMAIN s /\ j - Len(s) \in DOMAIN q
      BY <1>1, <2>3
    <3>2. (s \o q)[i] = s[i] /\ (s \o q)[j] = q[j - Len(s)]
      BY <1>1, <1>2, <2>3
    <3>3. s[i] \in ToSet(s) /\ q[j - Len(s)] \in ToSet(q)
      BY <3>1, Zenon DEF ToSet
    <3> QED BY <1>5, <3>2, <3>3, Zenon DEF FreeOf
  <2> QED BY <1>1, <2>1, <2>2, <2>3
<1> QED BY <1>1, <1>3, <1>4, <1>5 DEF Apart

\* A command that ends leaves the others in order.
LEMMA CommandEnded ==
  ASSUME NEW s, Listing(s), NEW i \in DOMAIN s
  PROVE  /\ Listing(RemoveAt(s, i)) /\ ToSet(RemoveAt(s, i)) \subseteq ToSet(s)
         /\ Apart(s) => Apart(RemoveAt(s, i))
<1> DEFINE a == SubSeq(s, 1, i - 1)
           b == SubSeq(s, i + 1, Len(s))
           old(n) == IF n < i THEN n ELSE n + 1
<1>1. s \in Seq(ToSet(s)) /\ Len(s) \in Nat /\ DOMAIN s = 1..Len(s) /\ i \in 1..Len(s)
  BY DEF Listing
<1>2. /\ a \in Seq(ToSet(s)) /\ Len(a) = i - 1 /\ \A n \in 1..i - 1 : a[n] = s[n]
  BY <1>1
<1>3. /\ b \in Seq(ToSet(s)) /\ Len(b) = Len(s) - i /\ \A n \in 1..Len(s) - i : b[n] = s[i + n]
  BY <1>1
<1> HIDE DEF a, b
<1>4. /\ a \o b \in Seq(ToSet(s)) /\ Len(a \o b) = Len(s) - 1
      /\ DOMAIN (a \o b) = 1..Len(s) - 1
      /\ \A n \in 1..Len(s) - 1 : (a \o b)[n] = IF n <= i - 1 THEN a[n] ELSE b[n - (i - 1)]
  <2>1. /\ a \o b \in Seq(ToSet(s)) /\ Len(a \o b) = Len(a) + Len(b)
        /\ \A n \in 1..Len(a) + Len(b) : (a \o b)[n] = IF n <= Len(a) THEN a[n] ELSE b[n - Len(a)]
    BY <1>2, <1>3, ConcatProperties
  <2>2. Len(a) = i - 1 /\ Len(a) + Len(b) = Len(s) - 1
    BY <1>1, <1>2, <1>3
  <2> QED BY <2>1, <2>2
<1>5. ASSUME NEW n \in 1..Len(s) - 1 PROVE (a \o b)[n] = s[old(n)]
  <2>1. CASE n < i
    <3>1. n \in 1..i - 1 /\ n <= i - 1 /\ old(n) = n
      BY <1>1, <2>1
    <3> QED BY <1>2, <1>4, <3>1, Zenon
  <2>2. CASE n >= i
    <3>1. /\ ~(n <= i - 1) /\ n - (i - 1) \in 1..Len(s) - i
          /\ i + (n - (i - 1)) = old(n)
      BY <1>1, <2>2
    <3> QED BY <1>3, <1>4, <3>1, Zenon
  <2>3. n < i \/ n >= i
    BY <1>1
  <2> QED BY <2>1, <2>2, <2>3, Zenon
<1>6. \A n \in 1..Len(s) - 1 : old(n) \in DOMAIN s
  BY <1>1
<1>7. \A m, n \in 1..Len(s) - 1 : m < n => old(m) < old(n)
  BY <1>1
<1> HIDE DEF old
<1>8. ToSet(a \o b) \subseteq ToSet(s)
  BY <1>4, <1>5, <1>6 DEF ToSet
<1>9. Listing(a \o b)
  BY <1>4, ListingOf
<1>10. ASSUME Apart(s), NEW m \in 1..Len(s) - 1, NEW n \in 1..Len(s) - 1, m < n,
              (a \o b)[n].skip, (a \o b)[m].agent = (a \o b)[n].agent
       PROVE  ~SameWork((a \o b)[n], (a \o b)[m])
  <2>1. old(m) \in DOMAIN s /\ old(n) \in DOMAIN s /\ old(m) < old(n)
    BY <1>6, <1>7, <1>10
  <2>2. (a \o b)[m] = s[old(m)] /\ (a \o b)[n] = s[old(n)]
    BY <1>5
  <2> QED BY <1>10, <2>1, <2>2, Zenon DEF Apart
<1>11. RemoveAt(s, i) = a \o b
  BY Zenon DEF RemoveAt, a, b
<1>12. Apart(s) => Apart(a \o b)
  BY <1>4, <1>10, Zenon DEF Apart
<1> QED BY <1>8, <1>9, <1>11, <1>12, Zenon

-----------------------------------------------------------------------------
(* A pass. *)

\* compute_next_run finds a time after its base.
LEMMA NextRunLater ==
  ASSUME NEW cron, NEW zone, NEW base \in Nat, NEW t \in compute_next_run(cron, zone, base)
  PROVE  t \in Nat /\ t > base
<1>1. SearchDays * MinutesPerHour * HoursPerDay \in Nat
  BY SchedulerAssumption
<1> QED BY <1>1 DEF compute_next_run

\* What a pass that begins has decided (dispatch_scheduled_tasks_once, up to its commit).
LEMMA PassBegins ==
  ASSUME ScheduleTypes, NEW w \in Workers, NEW op \in {"dispatcher", "run_now"}, NEW read, NEW task,
         \A k \in Tasks : read[k] # None => read[k].next \in Nat,
         op = "run_now" => task \in Tasks,
         Begin(w, op, read, task)
  PROVE  \E p : /\ passes' = [passes EXCEPT ![w] = p]
                /\ p.op = op /\ p.now = clock /\ PassOK(p)
                /\ \A c \in ToSet(p.queue) :
                     /\ c.task \in Tasks /\ read[c.task] # None
                     /\ c.for = read[c.task].next /\ c.manual = read[c.task].manual
                /\ Apart(p.queue) /\ FreeOf(commands, p.queue)
<1> DEFINE now == clock
           due == Due(read, now)
           runs(k) == compute_next_run(read[k].cron, read[k].zone, now)
           jobs == Candidates(read, now)
<1>1. \A k \in due : runs(k) # {}
  BY Zenon DEF Begin, Raises
<1>2. PICK rank \in Injection(due, 1..Cardinality(due)), chosen \in SUBSET jobs :
        /\ \A j \in jobs : j \in chosen <=> ~HeldBack(read, now, rank, chosen, j)
        /\ \E list \in SetToSeqs(chosen) :
             /\ \A m, n \in DOMAIN list : m < n => rank[list[m][1]] <= rank[list[n][1]]
             /\ passes' = [passes EXCEPT ![w] =
                  [op |-> op, task |-> task, now |-> now, due |-> due,
                   moved |-> [k \in due |-> CHOOSE t \in runs(k) : TRUE],
                   queue |-> [n \in DOMAIN list |-> Command(read, list[n], now)],
                   counted |-> chosen # {} \/ \E k \in due : Refused(read[k], now)]]
  BY Zenon DEF Begin
<1>3. PICK list \in SetToSeqs(chosen) :
             /\ \A m, n \in DOMAIN list : m < n => rank[list[m][1]] <= rank[list[n][1]]
             /\ passes' = [passes EXCEPT ![w] =
                  [op |-> op, task |-> task, now |-> now, due |-> due,
                   moved |-> [k \in due |-> CHOOSE t \in runs(k) : TRUE],
                   queue |-> [n \in DOMAIN list |-> Command(read, list[n], now)],
                   counted |-> chosen # {} \/ \E k \in due : Refused(read[k], now)]]
  BY <1>2, Zenon
<1> DEFINE queue == [n \in DOMAIN list |-> Command(read, list[n], now)]
           p == [op |-> op, task |-> task, now |-> now, due |-> due,
                 moved |-> [k \in due |-> CHOOSE t \in runs(k) : TRUE],
                 queue |-> queue,
                 counted |-> chosen # {} \/ \E k \in due : Refused(read[k], now)]
<1>4. clock \in Nat /\ due \subseteq Tasks /\ \A k \in due : read[k] # None /\ read[k].next \in Nat /\ read[k].next <= now
  BY DEF ScheduleTypes, Due
<1> HIDE DEF due
<1>5. \A j \in jobs : j \in due \X active /\ j[1] \in due
  BY DEF Candidates, due
<1>6. IsFiniteSet(chosen) /\ IsFiniteSet(due)
  <2>1. IsFiniteSet(due) /\ IsFiniteSet(active)
    BY <1>4, SchedulerAssumption, FS_Subset DEF ScheduleTypes
  <2>2. IsFiniteSet(due \X active)
    BY <2>1, FS_Product
  <2> QED BY <1>5, <2>1, <2>2, FS_Subset
<1>7. Cardinality(chosen) \in Nat /\ Cardinality(due) \in Nat
  BY <1>6, FS_CardinalityType
<1>8. /\ \A n \in DOMAIN list : list[n] \in chosen /\ list[n] \in jobs /\ list[n] \in due \X active
      /\ \A m, n \in DOMAIN list : m # n => list[m] # list[n]
      /\ DOMAIN list = 1..Cardinality(chosen)
  BY <1>3, <1>5 DEF SetToSeqs
<1> HIDE DEF jobs
<1>9. \A n \in DOMAIN list :
        /\ queue[n].task = list[n][1] /\ queue[n].agent = list[n][2]
        /\ queue[n].for = read[list[n][1]].next /\ queue[n].manual = read[list[n][1]].manual
        /\ queue[n].skip = (read[list[n][1]].concurrency = "skip")
        /\ \A c : SameWork(queue[n], c) = SameWork(read[list[n][1]], c)
        /\ queue[n] = Command(read, list[n], now)
  BY DEF Command, SameWork
<1>10. DOMAIN queue = DOMAIN list /\ Listing(queue) /\ ToSet(queue) = {queue[n] : n \in DOMAIN list}
  <2>1. queue \in [1..Cardinality(chosen) -> ToSet(queue)]
    BY <1>8, Zenon DEF ToSet
  <2>2. queue \in Seq(ToSet(queue))
    BY <1>7, <2>1
  <2> QED BY <2>2 DEF Listing, ToSet
<1>11. p.op = op /\ p.task = task /\ p.now = clock /\ p.due = due /\ p.queue = queue
       /\ p.moved = [k \in due |-> CHOOSE t \in runs(k) : TRUE]
  OBVIOUS
<1>12. passes' = [passes EXCEPT ![w] = p]
  BY <1>3
<1> HIDE DEF queue, p
<1>13. \A k \in due : p.moved[k] \in Nat /\ p.moved[k] > p.now
  <2> SUFFICES ASSUME NEW k \in due PROVE p.moved[k] \in Nat /\ p.moved[k] > p.now
    OBVIOUS
  <2>1. p.moved[k] \in runs(k)
    BY <1>1, <1>11
  <2> QED BY <1>4, <1>11, <2>1, NextRunLater
<1>14. \A c \in ToSet(p.queue) :
         /\ c.task \in due /\ c.for = read[c.task].next /\ c.manual = read[c.task].manual
  BY <1>8, <1>9, <1>10, <1>11
<1>15. PassOK(p)
  BY <1>4, <1>10, <1>11, <1>13, <1>14 DEF PassOK
<1>16. Apart(queue)
  <2> SUFFICES ASSUME NEW m \in DOMAIN list, NEW n \in DOMAIN list, m < n, queue[n].skip,
                      queue[m].agent = queue[n].agent
               PROVE  ~SameWork(queue[n], queue[m])
    BY <1>10 DEF Apart
  <2>1. list[m][2] = list[n][2] /\ list[m] # list[n] /\ list[m] \in chosen /\ list[n] \in chosen
    BY <1>8, <1>9
  <2>2. list[m][1] # list[n][1] /\ list[m][1] \in due /\ list[n][1] \in due
    BY <1>8, <2>1
  <2>3. rank[list[m][1]] <= rank[list[n][1]]
    BY <1>3
  <2>4. /\ rank \in [due -> 1..Cardinality(due)]
        /\ \A k, l \in due : rank[k] = rank[l] => k = l
    BY <1>2 DEF Injection, IsInjective
  <2>5. rank[list[m][1]] < rank[list[n][1]]
    BY <1>7, <2>2, <2>3, <2>4
  <2>6. ~HeldBack(read, now, rank, chosen, list[n])
    BY <1>2, <1>8
  <2> QED BY <1>9, <2>1, <2>5, <2>6 DEF HeldBack
<1>17. FreeOf(commands, queue)
  <2> SUFFICES ASSUME NEW c \in ToSet(commands), NEW n \in DOMAIN list, queue[n].skip,
                      c.agent = queue[n].agent
               PROVE  ~SameWork(queue[n], c)
    BY <1>10 DEF FreeOf
  <2>1. ~HeldBack(read, now, rank, chosen, list[n])
    BY <1>2, <1>8
  <2> QED BY <1>9, <2>1 DEF HeldBack
<1> QED BY <1>4, <1>11, <1>12, <1>14, <1>15, <1>16, <1>17

\* Spending from the budget keeps its type, and whether the instance is serial.
LEMMA SpendKept ==
  ASSUME budget \in [serial : BOOLEAN, clock : Nat, ops : [Classes -> Nat]],
         NEW class \in Classes, Spend(class)
  PROVE  /\ budget' \in [serial : BOOLEAN, clock : Nat, ops : [Classes -> Nat]]
         /\ budget'.serial = budget.serial
BY DEF Spend

ScheduleInv == ScheduleTypes /\ (budget.serial => OccurrenceInv /\ SkipInv)

\* A pass that begins joins no other on a serial instance, and keeps the invariant
\* (dispatch_scheduled_tasks_once up to its commit).
LEMMA BeginKeeps ==
  ASSUME ScheduleInv, NEW w \in Workers, NEW op \in {"dispatcher", "run_now"}, NEW read, NEW task,
         \A k \in Tasks : /\ read[k] # None => tasks[k] # None /\ read[k].next \in Nat
                          /\ read[k] # None /\ ~read[k].manual => read[k] = tasks[k],
         op = "run_now" => task \in Tasks,
         Begin(w, op, read, task), UNCHANGED tasks,
         budget' \in [serial : BOOLEAN, clock : Nat, ops : [Classes -> Nat]],
         budget'.serial = budget.serial
  PROVE  ScheduleInv'
<1>1. PICK p : /\ passes' = [passes EXCEPT ![w] = p]
               /\ p.op = op /\ p.now = clock /\ PassOK(p)
               /\ \A c \in ToSet(p.queue) :
                    /\ c.task \in Tasks /\ read[c.task] # None
                    /\ c.for = read[c.task].next /\ c.manual = read[c.task].manual
               /\ Apart(p.queue) /\ FreeOf(commands, p.queue)
  <2>1. ScheduleTypes /\ \A k \in Tasks : read[k] # None => read[k].next \in Nat
    BY DEF ScheduleInv
  <2> QED BY <2>1, PassBegins
<1>2. /\ UNCHANGED <<clock, tasks, commands, ran, repeats, active, overtaken, openEdits>>
      /\ budget.serial => \A v \in Workers : ~Busy(v)
  BY Zenon DEF Begin, Quiet, Busy, editVars
<1>3. /\ passes'[w] = p /\ DOMAIN passes' = Workers
      /\ \A v \in Workers : v # w => passes'[v] = passes[v]
  BY <1>1 DEF ScheduleInv, ScheduleTypes
<1>4. \A q : PassOK(q)' <=> PassOK(q)
  BY <1>2 DEF PassOK
<1>5. ScheduleTypes'
  <2>1. RowsOK' /\ clock' \in Nat /\ Listing(commands)' /\ active' \subseteq Agents
    BY <1>2, Zenon DEF ScheduleInv, ScheduleTypes, RowsOK
  <2>4. /\ DOMAIN openEdits' = Operators
        /\ \A o \in Operators : OpenShape(openEdits'[o]) /\ (Open(o)' => EditOK(openEdits'[o]))
    BY <1>2 DEF ScheduleInv, ScheduleTypes, Open, OpenShape, EditOK
  <2>2. ASSUME NEW v \in Workers, Busy(v)' PROVE PassOK(passes[v])'
    BY <1>1, <1>3, <1>2, <2>2 DEF ScheduleInv, ScheduleTypes, Busy, PassOK
  <2>3. budget.serial => \A v \in Workers : Busy(v)' => v = w
    BY <1>2, <1>3 DEF Busy
  <2> QED BY <1>3, <2>1, <2>2, <2>3, <2>4 DEF ScheduleTypes, OpenShape, EditOK
<1>6. ASSUME budget.serial PROVE OccurrenceInv'
  <2>1. \A v \in Workers : Busy(v)' => passes'[v] = p
    BY <1>2, <1>3, <1>6 DEF Busy
  <2>2. \A e \in ran : e[3] <= p.now
    BY <1>1, <1>6 DEF ScheduleInv, OccurrenceInv
  <2>3. \A e \in Occurrences(p.queue) \cap ran : e[1] \in overtaken
    <3> SUFFICES ASSUME NEW c \in ToSet(p.queue), ~c.manual, <<c.task, c.agent, c.for>> \in ran,
                        c.task \notin overtaken
        PROVE FALSE
      BY DEF Occurrences
    <3>0. /\ c.task \in Tasks /\ read[c.task] # None
          /\ c.for = read[c.task].next /\ c.manual = read[c.task].manual
      BY <1>1
    <3>1. /\ read[c.task] = tasks[c.task] /\ tasks[c.task] # None
          /\ ~tasks[c.task].manual /\ read[c.task].next \in Nat
      BY <3>0, Zenon
    <3>2. <<c.task, c.agent, c.for>>[1] = c.task /\ <<c.task, c.agent, c.for>>[3] = c.for
      OBVIOUS
    <3>3. c.for < tasks[c.task].next
      BY <1>6, <3>0, <3>1, <3>2 DEF ScheduleInv, OccurrenceInv
    <3> QED BY <3>0, <3>1, <3>3
  <2>4. \A v \in Workers : Busy(v)' =>
          /\ \A e \in ran' : e[3] <= passes'[v].now
          /\ \A e \in Occurrences(passes'[v].queue) \cap ran' : e[1] \in overtaken'
    BY <1>2, <2>1, <2>2, <2>3
  <2>5. /\ \A e \in repeats' : e[1] \in overtaken'
        /\ \A e \in ran' : e[1] \in Tasks /\ e[3] \in Nat /\ e[3] <= clock'
        /\ \A e \in ran' : e[1] \notin overtaken' /\ tasks'[e[1]] # None /\ ~tasks'[e[1]].manual
             => e[3] < tasks'[e[1]].next
        /\ \A o \in Operators : Open(o)' /\ ~openEdits'[o].late /\ "next" \in DOMAIN openEdits'[o].columns
             => \A e \in ran' : e[1] = openEdits'[o].task => e[3] < openEdits'[o].columns["next"]
    BY <1>2, <1>6, Zenon DEF ScheduleInv, OccurrenceInv, Open
  <2> QED BY <2>4, <2>5, Zenon DEF OccurrenceInv, Occurrences
<1>7. ASSUME budget.serial PROVE SkipInv'
  <2>1. \A v \in Workers : Busy(v)' => passes'[v] = p
    BY <1>2, <1>3, <1>7 DEF Busy
  <2>2. Apart(commands)' /\ Apart(p.queue)' /\ FreeOf(commands, p.queue)'
    BY <1>1, <1>2, <1>7 DEF ScheduleInv, SkipInv, Apart, FreeOf, SameWork
  <2>3. ASSUME NEW v \in Workers, Busy(v)'
        PROVE  Apart(passes[v].queue)' /\ FreeOf(commands, passes[v].queue)'
    BY <1>1, <1>2, <2>1, <2>3 DEF Apart, FreeOf, SameWork
  <2> QED BY <2>2, <2>3, Zenon DEF SkipInv
<1> QED BY <1>5, <1>6, <1>7 DEF ScheduleInv

\* A pass that ends without a trace: rolled back, or nothing to commit
\* (pass_fails, and dispatch_scheduled_tasks_once with no count).
LEMMA IdleKeeps ==
  ASSUME ScheduleInv, NEW w \in Workers, passes' = [passes EXCEPT ![w] = Idle],
         UNCHANGED <<clock, tasks, commands, ran, repeats, active, budget, overtaken, openEdits>>
  PROVE  ScheduleInv'
<1>1. /\ ~Busy(w)' /\ DOMAIN passes' = Workers
      /\ \A v \in Workers : v # w => passes'[v] = passes[v]
  BY DEF ScheduleInv, ScheduleTypes, Busy, Idle
<1>2. \A v \in Workers : Busy(v)' => v # w /\ passes'[v] = passes[v] /\ Busy(v)
  BY <1>1 DEF Busy
<1>3. ScheduleTypes'
  BY <1>1, <1>2 DEF ScheduleInv, ScheduleTypes, RowsOK, PassOK, Open, OpenShape, EditOK
<1>4. budget.serial => OccurrenceInv'
  BY <1>2 DEF ScheduleInv, OccurrenceInv, Open
<1>5. budget.serial => SkipInv'
  BY <1>2 DEF ScheduleInv, SkipInv, Apart, FreeOf, SameWork
<1> QED BY <1>3, <1>4, <1>5 DEF ScheduleInv

\* A pass that commits: its occurrences join those that ran, each of its tasks has
\* a next run after them, and its queue joins the commands
\* (dispatch_scheduled_tasks_once, run_scheduled_task_now).
LEMMA CommitKeeps ==
  ASSUME ScheduleInv, NEW w \in Workers, Busy(w), NEW read,
         DOMAIN read = Tasks,
         \A k \in Tasks : read[k] # None =>
           /\ {"next", "manual"} \subseteq DOMAIN read[k]
           /\ read[k].next \in Nat /\ read[k].manual \in BOOLEAN
           /\ ~read[k].manual => read[k] = tasks[k],
         \A k \in passes[w].due : {"next", "manual"} \subseteq DOMAIN read[k],
         tasks' = Moved(read, passes[w]), Queue(passes[w].queue),
         passes' = [passes EXCEPT ![w] = Idle],
         UNCHANGED <<clock, active, budget>>
  PROVE  ScheduleInv'
<1> DEFINE p == passes[w]
<1>1. /\ ~Busy(w)' /\ DOMAIN passes' = Workers
      /\ \A v \in Workers : v # w => passes'[v] = passes[v]
  BY DEF ScheduleInv, ScheduleTypes, Busy, Idle
<1>2. \A v \in Workers : Busy(v)' => v # w /\ passes'[v] = passes[v] /\ Busy(v)
  BY <1>1 DEF Busy
<1>3. budget.serial => \A v \in Workers : ~Busy(v)'
  BY <1>2 DEF ScheduleInv, ScheduleTypes
<1>4. PassOK(p)
  BY DEF ScheduleInv, ScheduleTypes
<1>5. ASSUME NEW k \in p.due
      PROVE  k \in Tasks /\ tasks'[k] # None => {"next", "manual"} \subseteq DOMAIN tasks'[k]
                /\ tasks'[k].next = p.moved[k] /\ tasks'[k].manual = FALSE
  BY <1>4 DEF Moved, PassOK, Recurring
<1>6. ASSUME NEW k \in Tasks, k \notin p.due PROVE tasks'[k] = read[k]
  BY <1>6 DEF Moved
<1>7. Listing(commands) /\ Listing(p.queue) /\ commands' = commands \o p.queue
  BY <1>4 DEF ScheduleInv, ScheduleTypes, PassOK, Queue
<1>11. /\ UNCHANGED overtaken /\ DOMAIN openEdits' = Operators
       /\ \A o \in Operators :
            /\ openEdits'[o].task = openEdits[o].task /\ openEdits'[o].columns = openEdits[o].columns
            /\ ~openEdits'[o].late =>
                 ~openEdits[o].late /\ \A c \in ToSet(p.queue) : c.task # openEdits[o].task
  <2>1. /\ openEdits' = [o \in Operators |->
             IF \E c \in ToSet(p.queue) : c.task = openEdits[o].task
             THEN [openEdits[o] EXCEPT !.late = TRUE] ELSE openEdits[o]]
        /\ UNCHANGED overtaken
    BY Zenon DEF Queue
  <2>2. \A o \in Operators : DOMAIN openEdits[o] = {"task", "late", "columns"}
    BY DEF ScheduleInv, ScheduleTypes, OpenShape
  <2>3. \A o \in Operators :
          LET e == [openEdits[o] EXCEPT !.late = TRUE] IN
          e.task = openEdits[o].task /\ e.columns = openEdits[o].columns /\ e.late
    BY <2>2
  <2> QED BY <2>1, <2>3
<1> HIDE DEF p
<1>8. ScheduleTypes'
  <2>1. RowsOK'
    <3>1. DOMAIN tasks' = Tasks
      BY DEF Moved
    <3>2. ASSUME NEW k \in Tasks, tasks'[k] # None
          PROVE  /\ {"next", "manual"} \subseteq DOMAIN tasks'[k]
                 /\ tasks'[k].next \in Nat /\ tasks'[k].manual \in BOOLEAN
      <4>1. CASE k \in p.due
        BY <1>4, <1>5, <3>2, <4>1 DEF PassOK
      <4>2. CASE k \notin p.due
        BY <1>6, <3>2, <4>2
      <4> QED BY <4>1, <4>2
    <3> QED BY <3>1, <3>2 DEF RowsOK
  <2>2. Listing(commands)'
    BY <1>7, JoinedQueue
  <2>3. \A v \in Workers : Busy(v)' => PassOK(passes[v])'
    BY <1>2 DEF ScheduleInv, ScheduleTypes, PassOK
  <2>4. DOMAIN openEdits' = Operators /\ \A o \in Operators : Open(o)' => EditOK(openEdits'[o])
    BY <1>11 DEF ScheduleInv, ScheduleTypes, Open, EditOK
  <2>5. \A o \in Operators : DOMAIN openEdits'[o] = {"task", "late", "columns"}
    BY DEF Queue, ScheduleInv, ScheduleTypes, OpenShape
  <2> QED BY <1>1, <1>2, <2>1, <2>2, <2>3, <2>4, <2>5 DEF ScheduleInv, ScheduleTypes, OpenShape, EditOK
<1>9. ASSUME budget.serial PROVE OccurrenceInv'
  <2>1. ran' = ran \cup Occurrences(p.queue) /\ \A e \in repeats' : e[1] \in overtaken'
    <3>1. /\ \A e \in repeats : e[1] \in overtaken
          /\ \A e \in Occurrences(p.queue) \cap ran : e[1] \in overtaken
      BY <1>9 DEF ScheduleInv, OccurrenceInv, p
    <3> QED BY <1>11, <3>1 DEF Queue, p
  <2>2. ASSUME NEW e \in ran'
        PROVE  e[1] \in Tasks /\ e[3] \in Nat /\ e[3] <= p.now
    <3>1. CASE e \in ran
      BY <1>9, <3>1 DEF ScheduleInv, OccurrenceInv, p
    <3>2. CASE e \in Occurrences(p.queue)
      BY <1>4, <3>2 DEF Occurrences, PassOK
    <3> QED BY <2>1, <3>1, <3>2
  <2>3. ASSUME NEW e \in ran', e[1] \notin overtaken', tasks'[e[1]] # None, ~tasks'[e[1]].manual
        PROVE  e[3] < tasks'[e[1]].next
    <3>1. CASE e[1] \in p.due
      <4>1. tasks'[e[1]].next = p.moved[e[1]] /\ p.moved[e[1]] \in Nat /\ p.moved[e[1]] > p.now
        BY <1>4, <1>5, <2>2, <2>3, <3>1 DEF PassOK
      <4> QED BY <1>4, <2>2, <4>1 DEF PassOK
    <3>2. CASE e[1] \notin p.due
      <4>1. e \in ran
        BY <1>4, <2>1, <3>2 DEF Occurrences, PassOK
      <4>2. tasks'[e[1]] = tasks[e[1]] /\ tasks[e[1]] # None /\ ~tasks[e[1]].manual
        <5>1. e[1] \in Tasks /\ tasks'[e[1]] = read[e[1]]
          BY <1>6, <2>2, <3>2
        <5> QED BY <2>3, <5>1
      <4> QED BY <1>9, <1>11, <2>3, <4>1, <4>2 DEF ScheduleInv, OccurrenceInv
    <3> QED BY <3>1, <3>2
  <2>4. \A e \in ran' : e[3] <= clock'
    BY <1>4, <2>2 DEF PassOK, ScheduleInv, ScheduleTypes
  <2>5. ASSUME NEW o \in Operators, Open(o)', ~openEdits'[o].late,
               "next" \in DOMAIN openEdits'[o].columns,
               NEW e \in ran', e[1] = openEdits'[o].task
        PROVE  e[3] < openEdits'[o].columns["next"]
    <3>1. e \notin Occurrences(p.queue)
      BY <1>11, <2>5 DEF Occurrences
    <3>2. /\ e \in ran /\ Open(o) /\ ~openEdits[o].late /\ "next" \in DOMAIN openEdits[o].columns
          /\ e[1] = openEdits[o].task
      BY <1>11, <2>1, <2>5, <3>1 DEF Open
    <3>3. e[3] < openEdits[o].columns["next"]
      BY <1>9, <3>2 DEF ScheduleInv, OccurrenceInv
    <3> QED BY <1>11, <3>3
  <2> QED BY <1>3, <1>9, <2>1, <2>2, <2>3, <2>4, <2>5 DEF OccurrenceInv
<1>10. ASSUME budget.serial PROVE SkipInv'
  <2>1. Apart(commands) /\ Apart(p.queue) /\ FreeOf(commands, p.queue)
    BY <1>10 DEF ScheduleInv, SkipInv, p
  <2>2. Apart(commands \o p.queue)
    BY <1>7, <2>1, JoinedQueue
  <2>3. Apart(commands)'
    BY <1>7, <2>2 DEF Apart, SameWork
  <2> QED BY <1>3, <1>10, <2>3, Zenon DEF SkipInv
<1> QED BY <1>8, <1>9, <1>10 DEF ScheduleInv

\* A row is written, outside a pass and an edit: a next run lies after the present
\* (create_scheduled_task, delete_scheduled_task).
LEMMA RowKeeps ==
  ASSUME ScheduleInv, NEW k \in Tasks,
         DOMAIN tasks' = Tasks, \A l \in Tasks : l # k => tasks'[l] = tasks[l],
         tasks'[k] # None =>
           /\ {"next", "manual"} \subseteq DOMAIN tasks'[k]
           /\ tasks'[k].next \in Nat /\ tasks'[k].manual \in BOOLEAN
           /\ tasks'[k].next > clock,
         UNCHANGED <<clock, commands, ran, repeats, active, passes, overtaken, openEdits>>,
         budget' \in [serial : BOOLEAN, clock : Nat, ops : [Classes -> Nat]],
         budget'.serial = budget.serial
  PROVE  ScheduleInv'
<1>2. RowsOK'
  BY DEF ScheduleInv, ScheduleTypes, RowsOK
<1>3. \A v \in Workers : Busy(v)' = Busy(v)
  BY DEF Busy
<1>4. ScheduleTypes'
  BY <1>2, <1>3 DEF ScheduleInv, ScheduleTypes, PassOK, Open, EditOK, OpenShape
<1>5. ASSUME budget.serial PROVE OccurrenceInv'
  <2>1. ASSUME NEW e \in ran, e[1] \notin overtaken, tasks'[e[1]] # None, ~tasks'[e[1]].manual
        PROVE  e[3] < tasks'[e[1]].next
    <3>1. e[1] \in Tasks /\ e[3] \in Nat /\ e[3] <= clock /\ clock \in Nat
      BY <1>5 DEF ScheduleInv, OccurrenceInv, ScheduleTypes
    <3>2. tasks[e[1]] # None /\ ~tasks[e[1]].manual => e[3] < tasks[e[1]].next
      BY <1>5, <2>1 DEF ScheduleInv, OccurrenceInv
    <3>3. CASE e[1] # k
      BY <2>1, <3>1, <3>2, <3>3
    <3>4. CASE e[1] = k
      BY <2>1, <3>1, <3>2, <3>4
    <3> QED BY <3>3, <3>4
  <2> QED BY <1>3, <1>5, <2>1 DEF ScheduleInv, OccurrenceInv, Occurrences, Open
<1>6. ASSUME budget.serial PROVE SkipInv'
  BY <1>3, <1>6 DEF ScheduleInv, SkipInv, Apart, FreeOf, SameWork
<1> QED BY <1>4, <1>5, <1>6 DEF ScheduleInv

\* The schedule starts empty.
LEMMA ScheduleStarts == SchedulerInit => ScheduleInv
<1> SUFFICES ASSUME SchedulerInit PROVE ScheduleInv
  OBVIOUS
<1>1. Listing(<< >>) /\ ToSet(<< >>) = {} /\ DOMAIN << >> = {}
  BY DEF Listing, ToSet
<1>2. \A w \in Workers : ~Busy(w)
  BY DEF SchedulerInit, Busy, Idle
<1>4. \A o \in Operators : ~Open(o)
  BY DEF SchedulerInit, Open, NoEdit
<1>3. ScheduleTypes
  BY <1>1, <1>2, <1>4, SchedulerAssumption
  DEF SchedulerInit, ScheduleTypes, RowsOK, OpenShape, NoEdit
<1>6. OccurrenceInv
  BY <1>2, <1>4 DEF SchedulerInit, OccurrenceInv
<1>5. SkipInv
  BY <1>1, <1>2 DEF SchedulerInit, SkipInv, Apart
<1> QED BY <1>3, <1>5, <1>6 DEF ScheduleInv

\* A pass that begins keeps the invariant (dispatcher_reads, run_now_reads).
LEMMA ReadSteps ==
  ASSUME ScheduleInv, NEW w \in Workers, dispatcher_reads(w) \/ \E k \in Tasks : run_now_reads(w, k)
  PROVE  ScheduleInv'
<1>0. /\ budget \in [serial : BOOLEAN, clock : Nat, ops : [Classes -> Nat]] /\ clock \in Nat
      /\ DOMAIN tasks = Tasks
      /\ \A k \in Tasks : tasks[k] # None =>
           {"next", "manual"} \subseteq DOMAIN tasks[k] /\ tasks[k].next \in Nat
  BY DEF ScheduleInv, ScheduleTypes, RowsOK
<1>1. CASE dispatcher_reads(w)
  <2>1. Begin(w, "dispatcher", tasks, None) /\ UNCHANGED <<tasks, budget>>
    BY <1>1 DEF dispatcher_reads
  <2> QED BY <1>0, <2>1, BeginKeeps
<1>2. ASSUME NEW k \in Tasks, run_now_reads(w, k) PROVE ScheduleInv'
  <2> DEFINE read == [tasks EXCEPT ![k].next = clock, ![k].manual = TRUE]
  <2>1. Begin(w, "run_now", read, k) /\ tasks[k] # None /\ Spend("run") /\ UNCHANGED tasks
    BY <1>2 DEF run_now_reads
  <2>2. /\ budget' \in [serial : BOOLEAN, clock : Nat, ops : [Classes -> Nat]]
        /\ budget'.serial = budget.serial
    BY <1>0, <2>1, SpendKept DEF Classes
  <2>3. \A l \in Tasks : l # k => read[l] = tasks[l]
    BY <1>0
  <2>4. read[k].next = clock /\ read[k].manual = TRUE
    BY <1>0, <2>1
  <2> HIDE DEF read
  <2>5. \A l \in Tasks : /\ read[l] # None => tasks[l] # None /\ read[l].next \in Nat
                         /\ read[l] # None /\ ~read[l].manual => read[l] = tasks[l]
    BY <1>0, <2>1, <2>3, <2>4
  <2> QED BY <2>1, <2>2, <2>5, BeginKeeps
<1> QED BY <1>1, <1>2

\* A pass that ends keeps the invariant (dispatch_scheduled_tasks_once,
\* run_scheduled_task_now, and a pass that is rolled back).
LEMMA PassEnds ==
  ASSUME ScheduleInv, NEW w \in Workers,
         dispatch_scheduled_tasks_once(w) \/ run_scheduled_task_now(w) \/ pass_fails(w)
  PROVE  ScheduleInv'
<1>0. /\ DOMAIN tasks = Tasks
      /\ \A k \in Tasks : tasks[k] # None =>
           /\ {"next", "manual"} \subseteq DOMAIN tasks[k]
           /\ tasks[k].next \in Nat /\ tasks[k].manual \in BOOLEAN
  BY DEF ScheduleInv, ScheduleTypes, RowsOK
<1>1. CASE pass_fails(w)
  BY <1>1, IdleKeeps DEF pass_fails, editVars
<1>2. CASE dispatch_scheduled_tasks_once(w)
  <2>1. /\ Busy(w) /\ passes' = [passes EXCEPT ![w] = Idle] /\ UNCHANGED <<clock, active, budget>>
        /\ \A k \in passes[w].due : tasks[k] # None
    BY <1>2, Zenon DEF dispatch_scheduled_tasks_once, Busy, Intact
  <2>2. CASE passes[w].counted
    <3>1. tasks' = Moved(tasks, passes[w]) /\ Queue(passes[w].queue)
      BY <1>2, <2>2 DEF dispatch_scheduled_tasks_once
    <3>2. passes[w].due \subseteq Tasks
      BY <2>1 DEF ScheduleInv, ScheduleTypes, PassOK
    <3> QED BY <1>0, <2>1, <3>1, <3>2, CommitKeeps
  <2>3. CASE ~passes[w].counted
    BY <1>2, <2>1, <2>3, IdleKeeps DEF dispatch_scheduled_tasks_once, editVars
  <2> QED BY <2>2, <2>3
<1>3. CASE run_scheduled_task_now(w)
  <2> DEFINE p == passes[w]
             read == [tasks EXCEPT ![p.task].next = p.now, ![p.task].manual = TRUE]
  <2>1. /\ Busy(w) /\ passes' = [passes EXCEPT ![w] = Idle] /\ UNCHANGED <<clock, active, budget>>
        /\ \A k \in p.due : tasks[k] # None
        /\ p.op = "run_now" /\ (p.task # None => tasks[p.task] # None)
        /\ tasks' = Moved(read, p) /\ Queue(p.queue)
    BY <1>3 DEF run_scheduled_task_now, Busy, Intact
  <2>2. p.now \in Nat /\ p.task \in Tasks /\ p.due \subseteq Tasks
    BY <2>1 DEF ScheduleInv, ScheduleTypes, PassOK
  <2>3. p.task # None
    BY <2>2, SchedulerAssumption
  <2> HIDE DEF p
  <2>4. /\ DOMAIN read = Tasks /\ \A l \in Tasks : l # p.task => read[l] = tasks[l]
        /\ {"next", "manual"} \subseteq DOMAIN read[p.task]
        /\ read[p.task].next = p.now /\ read[p.task].manual = TRUE
    BY <1>0, <2>1, <2>2, <2>3
  <2> HIDE DEF read
  <2>5. \A k \in p.due : {"next", "manual"} \subseteq DOMAIN read[k]
    BY <1>0, <2>1, <2>2, <2>4
  <2>6. ASSUME NEW k \in Tasks, read[k] # None
        PROVE  /\ {"next", "manual"} \subseteq DOMAIN read[k]
               /\ read[k].next \in Nat /\ read[k].manual \in BOOLEAN
               /\ ~read[k].manual => read[k] = tasks[k]
    <3>1. CASE k = p.task
      BY <2>2, <2>4, <3>1
    <3>2. CASE k # p.task
      BY <1>0, <2>4, <2>6, <3>2
    <3> QED BY <3>1, <3>2
  <2>7. /\ tasks' = Moved(read, passes[w]) /\ Queue(passes[w].queue)
        /\ \A k \in passes[w].due : {"next", "manual"} \subseteq DOMAIN read[k]
    BY <2>1, <2>5 DEF p
  <2>8. \A k \in Tasks : read[k] # None =>
          /\ {"next", "manual"} \subseteq DOMAIN read[k]
          /\ read[k].next \in Nat /\ read[k].manual \in BOOLEAN
          /\ ~read[k].manual => read[k] = tasks[k]
    BY <2>6, Zenon
  <2>9. DOMAIN read = Tasks /\ Busy(w) /\ passes' = [passes EXCEPT ![w] = Idle]
        /\ UNCHANGED <<clock, active, budget>>
    BY <2>1, <2>4
  <2> QED BY <2>7, <2>8, <2>9, CommitKeeps, ZenonT(30)
<1> QED BY <1>1, <1>2, <1>3

\* A task that is created runs after the present; one that is deleted leaves no row
\* (create_scheduled_task, delete_scheduled_task).
LEMMA TaskSteps ==
  ASSUME ScheduleInv, NEW k \in Tasks, create_scheduled_task(k) \/ delete_scheduled_task(k)
  PROVE  ScheduleInv'
<1>1. /\ UNCHANGED <<clock, commands, ran, repeats, active, passes, overtaken, openEdits>>
      /\ Spend("task")
  BY Zenon DEF create_scheduled_task, delete_scheduled_task, editVars
<1>2. /\ clock \in Nat /\ DOMAIN tasks = Tasks
      /\ budget' \in [serial : BOOLEAN, clock : Nat, ops : [Classes -> Nat]]
      /\ budget'.serial = budget.serial
  BY <1>1, SpendKept DEF ScheduleInv, ScheduleTypes, RowsOK, Classes
<1>3. ASSUME NEW row, tasks' = [tasks EXCEPT ![k] = row]
      PROVE  /\ DOMAIN tasks' = Tasks /\ \A l \in Tasks : l # k => tasks'[l] = tasks[l]
             /\ tasks'[k] = row
  BY <1>2, <1>3
<1>4. CASE create_scheduled_task(k)
  <2>1. PICK terms \in TaskTerms :
          \E next \in compute_next_run(terms.cron, terms.zone, clock) :
            tasks' = [tasks EXCEPT ![k] = [enabled |-> terms.enabled, target |-> terms.target,
              kind |-> terms.kind, script |-> terms.script, payload |-> terms.payload, id |-> k,
              cron |-> terms.cron, zone |-> terms.zone, concurrency |-> terms.concurrency,
              misfire |-> terms.misfire, manual |-> FALSE, next |-> next]]
    BY <1>4, Zenon DEF create_scheduled_task
  <2>2. PICK next \in compute_next_run(terms.cron, terms.zone, clock) :
            tasks' = [tasks EXCEPT ![k] = [enabled |-> terms.enabled, target |-> terms.target,
              kind |-> terms.kind, script |-> terms.script, payload |-> terms.payload, id |-> k,
              cron |-> terms.cron, zone |-> terms.zone, concurrency |-> terms.concurrency,
              misfire |-> terms.misfire, manual |-> FALSE, next |-> next]]
    BY <2>1, Zenon
  <2>3. next \in Nat /\ next > clock
    BY <1>2, <2>2, NextRunLater
  <2> QED BY <1>1, <1>2, <1>3, <2>2, <2>3, RowKeeps
<1>5. CASE delete_scheduled_task(k)
  <2>1. tasks' = [tasks EXCEPT ![k] = None]
    BY <1>5 DEF delete_scheduled_task
  <2> QED BY <1>1, <1>2, <1>3, <2>1, RowKeeps
<1> QED BY <1>4, <1>5

\* An edit that reads its task plans a next run after the present, so after all that
\* ran (update_scheduled_task, toggle_scheduled_task, up to their commits).
LEMMA LoadKeeps ==
  ASSUME ScheduleInv, NEW o \in Operators, NEW k \in Tasks, NEW edited,
         Load(o, k, edited),
         edited["next"] = tasks[k]["next"] \/ (edited["next"] \in Nat /\ edited["next"] > clock)
  PROVE  ScheduleInv'
<1> DEFINE e == [task |-> k, late |-> FALSE,
                 columns |-> [f \in {g \in Columns : edited[g] # tasks[k][g]} |-> edited[f]]]
<1>1. /\ UNCHANGED <<clock, tasks, commands, ran, repeats, active, passes, overtaken>>
      /\ Spend("task") /\ openEdits' = [openEdits EXCEPT ![o] = e]
  BY Zenon DEF Load
<1>2. /\ budget' \in [serial : BOOLEAN, clock : Nat, ops : [Classes -> Nat]]
      /\ budget'.serial = budget.serial
  BY <1>1, SpendKept DEF ScheduleInv, ScheduleTypes, Classes
<1>3. /\ e.task = k /\ OpenShape(e) /\ DOMAIN e.columns \subseteq Columns
      /\ "next" \in DOMAIN e.columns => e.columns["next"] \in Nat /\ e.columns["next"] > clock
  BY DEF OpenShape
<1> HIDE DEF e
<1>4. /\ DOMAIN openEdits' = Operators /\ openEdits'[o] = e
      /\ \A q \in Operators : q # o => openEdits'[q] = openEdits[q]
  BY <1>1 DEF ScheduleInv, ScheduleTypes
<1>5. \A q \in Operators : OpenShape(openEdits'[q]) /\ (Open(q)' => EditOK(openEdits'[q]))
  BY <1>3, <1>4 DEF ScheduleInv, ScheduleTypes, Open, EditOK
<1>6. \A v \in Workers : Busy(v)' = Busy(v)
  BY <1>1 DEF Busy
<1>7. ScheduleTypes'
  BY <1>1, <1>2, <1>4, <1>5, <1>6 DEF ScheduleInv, ScheduleTypes, RowsOK, PassOK, OpenShape, EditOK
<1>8. ASSUME budget.serial PROVE OccurrenceInv'
  <2>1. ASSUME NEW q \in Operators, Open(q)', ~openEdits'[q].late,
               "next" \in DOMAIN openEdits'[q].columns,
               NEW r \in ran, r[1] = openEdits'[q].task
        PROVE  r[3] < openEdits'[q].columns["next"]
    <3>1. r[3] \in Nat /\ r[3] <= clock /\ clock \in Nat
      BY <1>8 DEF ScheduleInv, ScheduleTypes, OccurrenceInv
    <3>2. CASE q = o
      BY <1>3, <1>4, <2>1, <3>1, <3>2
    <3>3. CASE q # o
      BY <1>4, <1>8, <2>1, <3>3 DEF ScheduleInv, OccurrenceInv, Open
    <3> QED BY <3>2, <3>3
  <2> QED BY <1>1, <1>6, <1>8, <2>1 DEF ScheduleInv, OccurrenceInv, Occurrences
<1>9. ASSUME budget.serial PROVE SkipInv'
  BY <1>1, <1>6, <1>9 DEF ScheduleInv, SkipInv, Apart, FreeOf, SameWork
<1> QED BY <1>2, <1>7, <1>8, <1>9 DEF ScheduleInv

\* An edit reads its task (update_scheduled_task, toggle_scheduled_task).
LEMMA LoadSteps ==
  ASSUME ScheduleInv, NEW o \in Operators, NEW k \in Tasks,
         update_scheduled_task_load(o, k) \/ toggle_scheduled_task_load(o, k)
  PROVE  ScheduleInv'
<1>1. /\ clock \in Nat
      /\ tasks[k] # None => {"next", "manual"} \subseteq DOMAIN tasks[k]
  BY DEF ScheduleInv, ScheduleTypes, RowsOK
<1>2. CASE update_scheduled_task_load(o, k)
  <2>1. PICK e \in Edits :
          /\ tasks[k] # None
          /\ LET edited == [tasks[k] EXCEPT !.enabled = e.enabled, !.concurrency = e.concurrency,
                                            !.cron = e.cron]
             IN  \/ e.cron = tasks[k].cron /\ Load(o, k, edited)
                 \/ \E next \in compute_next_run(e.cron, tasks[k].zone, clock) :
                      Load(o, k, [edited EXCEPT !.next = next])
    BY <1>2, Zenon DEF update_scheduled_task_load
  <2> DEFINE edited == [tasks[k] EXCEPT !.enabled = e.enabled, !.concurrency = e.concurrency,
                                       !.cron = e.cron]
  <2>2. edited["next"] = tasks[k]["next"] /\ "next" \in DOMAIN edited
    <3>1. "next" \in DOMAIN tasks[k]
      BY <1>1, <2>1, Zenon
    <3> QED BY <3>1
  <2>3. \/ Load(o, k, edited)
        \/ \E next \in compute_next_run(e.cron, tasks[k].zone, clock) :
             Load(o, k, [edited EXCEPT !.next = next])
    BY <2>1, Zenon
  <2> HIDE DEF edited
  <2>4. CASE Load(o, k, edited)
    BY <2>2, <2>4, LoadKeeps
  <2>5. ASSUME NEW next \in compute_next_run(e.cron, tasks[k].zone, clock),
               Load(o, k, [edited EXCEPT !.next = next])
        PROVE  ScheduleInv'
    <3>1. next \in Nat /\ next > clock
      BY <1>1, NextRunLater
    <3>2. [edited EXCEPT !.next = next]["next"] = next
      BY <2>2
    <3> QED BY <2>5, <3>1, <3>2, LoadKeeps
  <2> QED BY <2>3, <2>4, <2>5
<1>3. CASE toggle_scheduled_task_load(o, k)
  <2>0. tasks[k] # None
    BY <1>3, Zenon DEF toggle_scheduled_task_load
  <2>1. tasks[k] # None /\ "next" \in DOMAIN tasks[k]
    BY <1>1, <2>0
  <2>2. CASE Load(o, k, [tasks[k] EXCEPT !.enabled = FALSE])
    <3>1. [tasks[k] EXCEPT !.enabled = FALSE]["next"] = tasks[k]["next"]
      BY <2>1
    <3> QED BY <2>2, <3>1, LoadKeeps
  <2>3. ASSUME NEW next \in compute_next_run(tasks[k].cron, tasks[k].zone, clock),
               Load(o, k, [tasks[k] EXCEPT !.enabled = TRUE, !.next = next])
        PROVE  ScheduleInv'
    <3>1. next \in Nat /\ next > clock
      BY <1>1, NextRunLater
    <3>2. [tasks[k] EXCEPT !.enabled = TRUE, !.next = next]["next"] = next
      BY <2>1
    <3> QED BY <2>3, <3>1, <3>2, LoadKeeps
  <2>4. \/ Load(o, k, [tasks[k] EXCEPT !.enabled = FALSE])
        \/ \E next \in compute_next_run(tasks[k].cron, tasks[k].zone, clock) :
             Load(o, k, [tasks[k] EXCEPT !.enabled = TRUE, !.next = next])
    BY <1>3, Zenon DEF toggle_scheduled_task_load
  <2> QED BY <2>2, <2>3, <2>4, Zenon
<1> QED BY <1>2, <1>3

\* An edit commits what it computed: the next run lies after what ran, or the edit is
\* late and has overtaken its task (update_scheduled_task, toggle_scheduled_task).
LEMMA EditSteps ==
  ASSUME ScheduleInv, NEW o \in Operators, edit_commits(o)
  PROVE  ScheduleInv'
<1> DEFINE e == openEdits[o]
           k == e.task
           row == Rewritten(tasks[k], e.columns)
           written == e.late /\ "next" \in DOMAIN e.columns
<1>1. /\ UNCHANGED <<clock, commands, ran, repeats, active, passes, budget>>
      /\ k # None /\ openEdits' = [openEdits EXCEPT ![o] = NoEdit]
      /\ tasks[k] = None => UNCHANGED <<tasks, overtaken>>
      /\ tasks[k] # None => /\ tasks' = [tasks EXCEPT ![k] = row]
                            /\ overtaken' = overtaken \cup IF written THEN {k} ELSE {}
  BY DEF edit_commits
<1>2. /\ k \in Tasks /\ DOMAIN e.columns \subseteq Columns
      /\ "next" \in DOMAIN e.columns => e.columns["next"] \in Nat
  BY <1>1 DEF ScheduleInv, ScheduleTypes, Open, EditOK
<1>3. /\ DOMAIN openEdits' = Operators /\ openEdits'[o] = NoEdit
      /\ \A q \in Operators : q # o => openEdits'[q] = openEdits[q]
  BY <1>1 DEF ScheduleInv, ScheduleTypes
<1>4. ~Open(o)' /\ OpenShape(NoEdit)
  BY <1>3 DEF Open, NoEdit, OpenShape
<1>0. RowsOK
  BY DEF ScheduleInv, ScheduleTypes
<1> HIDE DEF k, row, written
<1>5. /\ DOMAIN tasks = Tasks
      /\ tasks[k] # None => /\ {"next", "manual"} \subseteq DOMAIN tasks[k]
                            /\ tasks[k].next \in Nat /\ tasks[k].manual \in BOOLEAN
  BY <1>0, <1>2 DEF RowsOK
<1>6. ASSUME tasks[k] # None
      PROVE  /\ DOMAIN row = DOMAIN tasks[k]
             /\ "next" \in DOMAIN e.columns => row.next = e.columns["next"] /\ row.manual = FALSE
             /\ "next" \notin DOMAIN e.columns => row.next = tasks[k].next /\ row.manual = tasks[k].manual
  <2>1. "manual" \notin DOMAIN e.columns
    BY <1>2 DEF Columns
  <2> HIDE DEF e
  <2> QED BY <1>5, <1>6, <2>1 DEF Rewritten, row
<1>7. /\ DOMAIN tasks' = Tasks /\ \A l \in Tasks : l # k => tasks'[l] = tasks[l]
      /\ tasks'[k] = IF tasks[k] = None THEN None ELSE row
  BY <1>1, <1>2, <1>5
<1>8. overtaken \subseteq overtaken' /\ (tasks[k] # None /\ written => k \in overtaken')
  BY <1>1, Zenon
<1>9. \A q \in Operators : Open(q)' => q # o /\ Open(q) /\ openEdits'[q] = openEdits[q]
  BY <1>3, <1>4 DEF Open
<1>10. \A v \in Workers : Busy(v)' = Busy(v)
  BY <1>1 DEF Busy
<1>11. ScheduleTypes'
  <2>1. RowsOK'
    <3>1. ASSUME NEW l \in Tasks, tasks'[l] # None
          PROVE  /\ {"next", "manual"} \subseteq DOMAIN tasks'[l]
                 /\ tasks'[l].next \in Nat /\ tasks'[l].manual \in BOOLEAN
      <4>1. CASE l = k
        BY <1>2, <1>5, <1>6, <1>7, <3>1, <4>1
      <4>2. CASE l # k
        BY <1>0, <1>7, <3>1, <4>2 DEF RowsOK
      <4> QED BY <4>1, <4>2
    <3> QED BY <1>7, <3>1 DEF RowsOK
  <2>2. \A q \in Operators : OpenShape(openEdits'[q]) /\ (Open(q)' => EditOK(openEdits'[q]))
    BY <1>3, <1>4, <1>9 DEF ScheduleInv, ScheduleTypes
  <2> QED BY <1>1, <1>3, <1>10, <2>1, <2>2 DEF ScheduleInv, ScheduleTypes, PassOK, OpenShape, EditOK
<1>12. ASSUME budget.serial PROVE OccurrenceInv'
  <2>1. ASSUME NEW r \in ran, r[1] \notin overtaken', tasks'[r[1]] # None, ~tasks'[r[1]].manual
        PROVE  r[3] < tasks'[r[1]].next
    <3>1. /\ r[1] \in Tasks
          /\ r[1] \notin overtaken /\ tasks[r[1]] # None /\ ~tasks[r[1]].manual
               => r[3] < tasks[r[1]].next
      BY <1>12 DEF ScheduleInv, OccurrenceInv
    <3>2. CASE r[1] # k
      BY <1>7, <1>8, <2>1, <3>1, <3>2
    <3>3. CASE r[1] = k /\ "next" \notin DOMAIN e.columns
      BY <1>6, <1>7, <1>8, <2>1, <3>1, <3>3
    <3>4. CASE r[1] = k /\ "next" \in DOMAIN e.columns
      <4>1. tasks[k] # None /\ ~e.late
        BY <1>7, <1>8, <2>1, <3>4 DEF written
      <4>2. r[3] < e.columns["next"]
        BY <1>1, <1>12, <3>4, <4>1 DEF ScheduleInv, OccurrenceInv, Open, k
      <4> QED BY <1>6, <1>7, <3>4, <4>1, <4>2
    <3> QED BY <3>2, <3>3, <3>4
  <2>2. \A q \in Operators : Open(q)' /\ ~openEdits'[q].late /\ "next" \in DOMAIN openEdits'[q].columns
          => \A r \in ran : r[1] = openEdits'[q].task => r[3] < openEdits'[q].columns["next"]
    BY <1>9, <1>12 DEF ScheduleInv, OccurrenceInv
  <2>3. /\ \A r \in repeats : r[1] \in overtaken'
        /\ \A v \in Workers : Busy(v) =>
             /\ \A r \in ran : r[3] <= passes[v].now
             /\ \A r \in Occurrences(passes[v].queue) \cap ran : r[1] \in overtaken'
        /\ \A r \in ran : r[1] \in Tasks /\ r[3] \in Nat /\ r[3] <= clock
    BY <1>8, <1>12 DEF ScheduleInv, OccurrenceInv
  <2> QED BY <1>1, <1>10, <2>1, <2>2, <2>3 DEF OccurrenceInv, Occurrences
<1>13. ASSUME budget.serial PROVE SkipInv'
  BY <1>1, <1>10, <1>13 DEF ScheduleInv, SkipInv, Apart, FreeOf, SameWork
<1> QED BY <1>1, <1>11, <1>12, <1>13 DEF ScheduleInv

\* An operator's own installation obeys no concurrency rule, and on a serial instance
\* no pass is under way (_apply_patch_approval_policy).
LEMMA InstallStep ==
  ASSUME ScheduleInv, NEW a \in Agents, _apply_patch_approval_policy(a)
  PROVE  ScheduleInv'
<1>1. PICK c : /\ commands' = Append(commands, c) /\ c.skip = FALSE
               /\ UNCHANGED <<clock, tasks, ran, repeats, active, passes, overtaken, openEdits>>
               /\ Spend("install") /\ (budget.serial => Quiet)
  BY DEF _apply_patch_approval_policy, editVars
<1>2. /\ budget' \in [serial : BOOLEAN, clock : Nat, ops : [Classes -> Nat]]
      /\ budget'.serial = budget.serial
  BY <1>1, SpendKept DEF ScheduleInv, ScheduleTypes, Classes
<1>3. Listing(commands)
  BY DEF ScheduleInv, ScheduleTypes
<1>4. /\ commands' \in Seq(ToSet(commands) \cup {c})
      /\ Len(commands) \in Nat /\ DOMAIN commands = 1..Len(commands)
      /\ DOMAIN commands' = 1..Len(commands) + 1 /\ commands'[Len(commands) + 1] = c
      /\ \A i \in 1..Len(commands) : commands'[i] = commands[i]
  BY <1>1, <1>3 DEF Listing
<1>5. Listing(commands)'
  <2>1. \A S : \A s \in Seq(S) : Listing(s)
    BY ListingOf
  <2> QED BY <1>4, <2>1 DEF Listing, ToSet
<1>6. \A v \in Workers : Busy(v)' = Busy(v)
  BY <1>1 DEF Busy
<1>7. ScheduleTypes'
  BY <1>1, <1>2, <1>5, <1>6 DEF ScheduleInv, ScheduleTypes, RowsOK, PassOK, Open, OpenShape, EditOK
<1>8. ASSUME budget.serial PROVE OccurrenceInv'
  BY <1>1, <1>6, <1>8 DEF ScheduleInv, OccurrenceInv, Occurrences, Open
<1>9. ASSUME budget.serial PROVE SkipInv'
  <2>1. \A v \in Workers : ~Busy(v)'
    BY <1>1, <1>6, <1>9 DEF Quiet, Busy
  <2>2. Apart(commands)
    BY <1>9 DEF ScheduleInv, SkipInv
  <2>3. ASSUME NEW i \in DOMAIN commands', NEW j \in DOMAIN commands', i < j, commands'[j].skip,
               commands'[i].agent = commands'[j].agent
        PROVE  ~SameWork(commands[j], commands[i])'
    <3>1. i \in DOMAIN commands /\ j \in DOMAIN commands
      BY <1>1, <1>4, <2>3
    <3>2. commands'[i] = commands[i] /\ commands'[j] = commands[j]
      BY <1>4, <3>1
    <3> QED BY <2>2, <2>3, <3>1, <3>2 DEF Apart, SameWork
  <2> QED BY <2>1, <2>3 DEF SkipInv, Apart, SameWork
<1> QED BY <1>2, <1>7, <1>8, <1>9 DEF ScheduleInv

\* The clock, the trust of endpoints, their policies, scans and windows, and the end
\* of commands keep the invariant.
LEMMA SettingSteps ==
  ASSUME ScheduleInv,
         \/ \E p \in PatchPolicyIds : patch_policies(p)
         \/ \E a \in Agents : endpoint(a) \/ set_trust(a)
         \/ \E i \in DOMAIN commands : command_ends(i)
         \/ tick
  PROVE  ScheduleInv'
<1>1. /\ clock \in Nat /\ active \subseteq Agents /\ Listing(commands)
      /\ budget \in [serial : BOOLEAN, clock : Nat, ops : [Classes -> Nat]]
  BY DEF ScheduleInv, ScheduleTypes
<1>2. UNCHANGED <<tasks, ran, repeats, passes, overtaken, openEdits>>
  BY Zenon DEF patch_policies, endpoint, set_trust, command_ends, tick, editVars
<1>3. \/ UNCHANGED commands
      \/ \E i \in DOMAIN commands : commands' = RemoveAt(commands, i)
  BY Zenon DEF patch_policies, endpoint, set_trust, command_ends, tick
<1>4. /\ Listing(commands') /\ ToSet(commands') \subseteq ToSet(commands)
      /\ Apart(commands) => Apart(commands')
  BY <1>1, <1>3, CommandEnded
<1>5. clock' \in Nat /\ clock' >= clock
  <2>1. clock' = clock \/ clock' = clock + 1
    BY Zenon DEF patch_policies, endpoint, set_trust, command_ends, tick
  <2> QED BY <1>1, <2>1
<1>6. active' \subseteq Agents
  BY <1>1 DEF patch_policies, endpoint, set_trust, command_ends, tick
<1>7. /\ budget' \in [serial : BOOLEAN, clock : Nat, ops : [Classes -> Nat]]
      /\ budget'.serial = budget.serial
  <2>1. UNCHANGED budget \/ Spend("patch") \/ Spend("agent")
    BY Zenon DEF patch_policies, endpoint, set_trust, command_ends, tick
  <2> QED BY <1>1, <2>1, SpendKept DEF Classes
<1>8. \A v \in Workers : Busy(v)' = Busy(v)
  BY <1>2 DEF Busy
<1>9. ScheduleTypes'
  <2>1. ASSUME NEW v \in Workers, Busy(v) PROVE PassOK(passes[v])'
    <3>1. PassOK(passes[v])
      BY <2>1 DEF ScheduleInv, ScheduleTypes
    <3> QED BY <1>1, <1>2, <1>5, <3>1 DEF PassOK
  <2>2. RowsOK' /\ DOMAIN passes' = Workers
    BY <1>2 DEF ScheduleInv, ScheduleTypes, RowsOK
  <2>4. /\ DOMAIN openEdits' = Operators
        /\ \A o \in Operators : OpenShape(openEdits'[o]) /\ (Open(o)' => EditOK(openEdits'[o]))
    BY <1>2 DEF ScheduleInv, ScheduleTypes, Open
  <2>3. budget'.serial => \A v, w \in Workers : Busy(v)' /\ Busy(w)' => v = w
    BY <1>7, <1>8 DEF ScheduleInv, ScheduleTypes
  <2> QED BY <1>4, <1>5, <1>6, <1>7, <1>8, <2>1, <2>2, <2>3, <2>4
    DEF ScheduleTypes, Listing, OpenShape, EditOK
<1>10. ASSUME budget.serial PROVE OccurrenceInv'
  <2>1. \A e \in ran : e[3] <= clock'
    BY <1>1, <1>5, <1>10 DEF ScheduleInv, OccurrenceInv
  <2> QED BY <1>2, <1>8, <1>10, <2>1 DEF ScheduleInv, OccurrenceInv, Occurrences, Open
<1>11. ASSUME budget.serial PROVE SkipInv'
  <2>1. Apart(commands')
    BY <1>4, <1>11 DEF ScheduleInv, SkipInv
  <2>2. ASSUME NEW v \in Workers, Busy(v)
        PROVE  Apart(passes'[v].queue) /\ FreeOf(commands', passes'[v].queue)
    BY <1>2, <1>4, <1>11, <2>2 DEF ScheduleInv, SkipInv, FreeOf
  <2> QED BY <1>8, <2>1, <2>2 DEF SkipInv, Apart, FreeOf, SameWork
<1> QED BY <1>7, <1>9, <1>10, <1>11 DEF ScheduleInv

\* Every step of the schedule keeps the invariant.
LEMMA ScheduleStep == ScheduleInv /\ [SchedulerNext]_schedulerVars => ScheduleInv'
<1> SUFFICES ASSUME ScheduleInv, [SchedulerNext]_schedulerVars PROVE ScheduleInv'
  OBVIOUS
<1>1. CASE \E w \in Workers : dispatcher_reads(w) \/ \E k \in Tasks : run_now_reads(w, k)
  BY <1>1, ReadSteps
<1>2. CASE \E w \in Workers : \/ dispatch_scheduled_tasks_once(w)
                              \/ run_scheduled_task_now(w) \/ pass_fails(w)
  BY <1>2, PassEnds
<1>3. CASE \E k \in Tasks : create_scheduled_task(k) \/ delete_scheduled_task(k)
  BY <1>3, TaskSteps
<1>7. CASE \E o \in Operators : \/ edit_commits(o)
                                \/ \E k \in Tasks : \/ update_scheduled_task_load(o, k)
                                                     \/ toggle_scheduled_task_load(o, k)
  BY <1>7, EditSteps, LoadSteps
<1>4. CASE \E a \in Agents : _apply_patch_approval_policy(a)
  BY <1>4, InstallStep
<1>5. CASE \/ \E p \in PatchPolicyIds : patch_policies(p)
           \/ \E a \in Agents : endpoint(a) \/ set_trust(a)
           \/ \E i \in DOMAIN commands : command_ends(i)
           \/ tick
  BY <1>5, SettingSteps
<1>6. CASE UNCHANGED schedulerVars
  <2>1. UNCHANGED <<clock, tasks, commands, ran, repeats, active, passes, budget, overtaken, openEdits>>
    BY <1>6 DEF schedulerVars, taskVars, editVars
  <2>2. ScheduleTypes'
    BY <2>1 DEF ScheduleInv, ScheduleTypes, RowsOK, Busy, PassOK, Open, OpenShape, EditOK
  <2>3. budget.serial => OccurrenceInv' /\ SkipInv'
    BY <2>1 DEF ScheduleInv, OccurrenceInv, SkipInv, Busy, Occurrences, Apart, FreeOf, SameWork, Open
  <2> QED BY <2>1, <2>2, <2>3 DEF ScheduleInv
<1> QED BY <1>1, <1>2, <1>3, <1>4, <1>5, <1>6, <1>7, Zenon DEF SchedulerNext

\* With one pass or dispatch at a time a due time of a task is dispatched to an endpoint
\* once, unless an edit wrote a next run it computed before a pass ran the task, and
\* "skip" never queues work the endpoint has unfinished, for any tasks, endpoints, edits
\* in any number and order, failures and manual runs (dispatch_scheduled_tasks_once,
\* run_scheduled_task_now, update_scheduled_task, toggle_scheduled_task).
THEOREM WorkDispatchedOnce == SchedulerSpec => []WorkNotDoubled
<1>1. ScheduleInv => WorkNotDoubled
  BY DEF ScheduleInv, OccurrenceInv, SkipInv, Apart, SameWork, WorkNotDoubled
<1> QED BY <1>1, ScheduleStarts, ScheduleStep, PTL DEF SchedulerSpec

-----------------------------------------------------------------------------
(* Scans reach the snapshots unchanged, which the report and the gate share. *)

SnapshotsFromScans ==
  /\ DOMAIN snapshots = Agents
  /\ \A a \in Agents : snapshots[a] # None => \E s \in Scans : snapshots[a].missing = s.missing

\* Every step either leaves the snapshots alone or stores one section
\* (submit_inventory).
LEMMA SnapshotStep ==
  SchedulerNext => UNCHANGED snapshots \/ \E a \in Agents, s \in Scans : store_section(a, s, clock)
<1> SUFFICES ASSUME SchedulerNext
    PROVE  UNCHANGED snapshots \/ \E a \in Agents, s \in Scans : store_section(a, s, clock)
  OBVIOUS
<1> USE DEF patchVars
<1>1. CASE \E w \in Workers : dispatcher_reads(w) \/ \E k \in Tasks : run_now_reads(w, k)
  BY <1>1, Zenon DEF dispatcher_reads, run_now_reads, Begin
<1>2. CASE \E w \in Workers : \/ dispatch_scheduled_tasks_once(w)
                              \/ run_scheduled_task_now(w) \/ pass_fails(w)
  BY <1>2, Zenon DEF dispatch_scheduled_tasks_once, run_scheduled_task_now, pass_fails
<1>3. CASE \E k \in Tasks : create_scheduled_task(k) \/ delete_scheduled_task(k)
  BY <1>3, Zenon DEF create_scheduled_task, delete_scheduled_task
<1>7. CASE \E o \in Operators : \/ edit_commits(o)
                                \/ \E k \in Tasks : \/ update_scheduled_task_load(o, k)
                                                     \/ toggle_scheduled_task_load(o, k)
  <2>1. ASSUME NEW o \in Operators, edit_commits(o) PROVE UNCHANGED snapshots
    BY <2>1 DEF edit_commits
  <2>2. ASSUME NEW o \in Operators, NEW k \in Tasks,
               update_scheduled_task_load(o, k) \/ toggle_scheduled_task_load(o, k)
        PROVE  UNCHANGED snapshots
    BY <2>2, Zenon DEF update_scheduled_task_load, toggle_scheduled_task_load, Load
  <2> QED BY <1>7, <2>1, <2>2
<1>4. CASE \E p \in PatchPolicyIds : patch_policies(p)
  BY <1>4, Zenon DEF patch_policies, create_patch_policy, revise_patch_policy, delete_patch_policy
<1>5. CASE \E a \in Agents : _apply_patch_approval_policy(a) \/ endpoint(a) \/ set_trust(a)
  BY <1>5, Zenon DEF _apply_patch_approval_policy, endpoint, set_trust, submit_inventory, window_turns
<1>6. CASE (\E i \in DOMAIN commands : command_ends(i)) \/ tick
  BY <1>6, Zenon DEF command_ends, tick
<1> QED BY <1>1, <1>2, <1>3, <1>4, <1>5, <1>6, <1>7, Zenon DEF SchedulerNext

\* What is stored as missing is what some scan reported (store_section).
LEMMA SnapshotsInvariant == SchedulerSpec => []SnapshotsFromScans
<1>1. SchedulerInit => SnapshotsFromScans
  BY DEF SchedulerInit, PatchInit, SnapshotsFromScans
<1>2. SnapshotsFromScans /\ [SchedulerNext]_schedulerVars => SnapshotsFromScans'
  <2> SUFFICES ASSUME SnapshotsFromScans, [SchedulerNext]_schedulerVars PROVE SnapshotsFromScans'
    OBVIOUS
  <2>1. CASE UNCHANGED snapshots
    BY <2>1 DEF SnapshotsFromScans
  <2>2. ASSUME NEW a \in Agents, NEW s \in Scans, store_section(a, s, clock)
        PROVE  SnapshotsFromScans'
    BY <2>2 DEF store_section, SnapshotsFromScans
  <2> QED BY <2>1, <2>2, SnapshotStep, Zenon DEF schedulerVars, patchVars
<1> QED BY <1>1, <1>2, PTL DEF SchedulerSpec

\* The compliance an operator reads and the gate of an installation agree, for
\* every policy, clock and snapshot whose updates have a KB number or an identity to
\* be installed by, as the agent's scan gives them (endpoint_compliance,
\* evaluate_patch_install): they apply the same rules to the same missing updates,
\* however many of them bear one KB number.
THEOREM ComplianceMatchesGate == SchedulerSpec => []ComplianceAgrees
<1>1. SnapshotsFromScans => ComplianceAgrees
  <2> SUFFICES ASSUME SnapshotsFromScans, NEW a \in Agents
      PROVE  LET all == [all |-> TRUE, kbs |-> {}, ids |-> {}]
                 gate == evaluate_patch_install(a, all, clock).outcome
             IN  /\ endpoint_compliance(a, clock) = "compliant" => gate # "allowed"
                 /\ endpoint_compliance(a, clock) = "non_compliant" => gate # "no_approved_updates"
    BY Zenon DEF ComplianceAgrees
  <2> DEFINE all == [all |-> TRUE, kbs |-> {}, ids |-> {}]
             rev == resolve_effective_patch_policy(a)
             missing == latest_missing_updates(a)
             good == Approved(rev, missing, clock)
             kbs == {u.kb : u \in good} \ {None}
             ids == {u.id : u \in {g \in good : g.kb = None}} \ {None}
             gate == evaluate_patch_install(a, all, clock).outcome
             shown == endpoint_compliance(a, clock)
  <2>1. rev # None =>
          gate = IF rev.window /\ a \notin openWindows THEN "maintenance_window_required"
                 ELSE IF kbs = {} /\ ids = {} THEN "no_approved_updates" ELSE "allowed"
    BY DEF evaluate_patch_install
  <2>2. shown \in {"compliant", "non_compliant"} =>
          /\ rev # None /\ snapshots[a] # None
          /\ good # {} <=> shown = "non_compliant"
    BY DEF endpoint_compliance, latest_missing_updates, _usable
  <2>3. good # {} /\ snapshots[a] # None => kbs # {} \/ ids # {}
    <3> SUFFICES ASSUME snapshots[a] # None, NEW u \in good PROVE kbs # {} \/ ids # {}
      OBVIOUS
    <3>1. \E i \in DOMAIN snapshots[a].missing : u = snapshots[a].missing[i]
      BY DEF Approved, latest_missing_updates
    <3>2. u.kb = None => u.id # None
      BY <3>1, ScansAssumption DEF SnapshotsFromScans
    <3> HIDE DEF good
    <3> QED BY <3>2
  <2>4. good = {} => kbs = {} /\ ids = {}
    <3> HIDE DEF good
    <3> QED OBVIOUS
  <2> HIDE DEF rev, good, kbs, ids, gate, shown
  <2>5. /\ shown = "compliant" => gate # "allowed"
        /\ shown = "non_compliant" => gate # "no_approved_updates"
    BY <2>1, <2>2, <2>3, <2>4
  <2> QED BY <2>5 DEF shown, gate
<1> QED BY <1>1, SnapshotsInvariant, PTL
=============================================================================
