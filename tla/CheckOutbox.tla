---------------------------- MODULE CheckOutbox ----------------------------
(***************************************************************************)
(* The agent's side of monitoring: it evaluates the checks a heartbeat     *)
(* assigns, keeps the results in a bounded outbox on disk and sends them   *)
(* in batches that the server takes or refuses as a whole                  *)
(* (agent/internal/monitoring, flushMonitoringResults of                   *)
(* service/runner.go, submit_monitoring_results of server/app/api/         *)
(* agents.py).                                                             *)
(*                                                                         *)
(* Every change of the store is saved before the agent goes on, by a       *)
(* rename, and a save that fails ends the process: memory and file are one *)
(* variable and a failed save is a stop before the step.  Times are what   *)
(* has passed (`age`) or is left of them (`wait`).                         *)
(***************************************************************************)
EXTENDS Instances, Integers, Sequences, FiniteSets

CONSTANTS
  CheckOrder,        \* the checks, in the order a heartbeat lists them
  MaxPendingResults, FlushBatch,
  EvaluateEvery,     \* schedule.interval_seconds
  AcceptedAge,       \* max(3 * interval, 300 s)
  FutureSkew,        \* 5 min
  Leads,             \* how far the endpoint's clock may be ahead of the server's
  Revisions          \* policy revisions an assignment may name; 0 is none

Checks == {CheckOrder[i] : i \in DOMAIN CheckOrder}

VARIABLES
  assigned,     \* the server: the revision each check is assigned by
  told,         \* the agent: what the latest heartbeat answered
  outbox, checkStates,
  loop,         \* where the check-in is
  lead          \* how far the endpoint's clock is ahead, for as long as the agent runs

outboxVars == <<assigned, told, outbox, checkStates, loop, lead>>

Unassigned == [k \in Checks |-> 0]

\* A result; its age is what the server's clock says, `stored` is whether the server
\* has its row.
Result == [key : Checks, rev : Revisions, age : {0 - n : n \in Leads} \cup 0..AcceptedAge + 1,
           stored : BOOLEAN]

NoState == [rev |-> 0, wait |-> 0]

OutboxInit ==
  /\ assigned = Unassigned /\ told = Unassigned
  /\ outbox = << >> /\ checkStates = [k \in Checks |-> NoState]
  /\ loop = "idle"
  /\ lead \in IF budget.checkIns THEN Leads ELSE {0}

----------------------------------------------------------------------------
(* The agent. *)

checkIn ==
  /\ budget.checkIns
  /\ loop = "idle"
  /\ told' = assigned /\ loop' = "evaluate"
  /\ UNCHANGED <<assigned, outbox, checkStates, budget, lead>>

\* A mutant: results of a superseded assignment stay in the outbox.
MutCurrent(r) == told[r.key] # 0

\* The agent holds on to results whose assignment still stands.
Current(r) == told[r.key] = r.rev

Due(k) == told[k] # 0 /\ (checkStates[k].rev # told[k] \/ checkStates[k].wait = 0)

\* A full outbox pauses the checks that come last.
Evaluate ==
  LET kept  == SelectSeq(outbox, Current)
      due   == SelectSeq(CheckOrder, Due)
      room  == MaxPendingResults - Len(kept)
      taken == SubSeq(due, 1, IF room < Len(due) THEN room ELSE Len(due))
      now   == {taken[i] : i \in DOMAIN taken}
  IN  /\ loop = "evaluate"
      /\ outbox' = kept \o [i \in DOMAIN taken |->
                              [key |-> taken[i], rev |-> told[taken[i]], age |-> 0 - lead,
                               stored |-> FALSE]]
      /\ checkStates' = [k \in Checks |->
           CASE k \in now -> [rev |-> told[k], wait |-> EvaluateEvery]
             [] k \notin now /\ checkStates[k].rev # told[k] -> NoState
             [] OTHER -> checkStates[k]]
      /\ loop' = "flush"
      /\ UNCHANGED <<assigned, told, budget, lead>>

PendingBatch == 1..(IF FlushBatch < Len(outbox) THEN FlushBatch ELSE Len(outbox))

\* The server takes a batch if it takes each result of it; one from the future waits
\* for the server's clock, one that is too old is refused for ever.
FromTheFuture(r) == r.age < 0 - FutureSkew
TooOld(r)        == r.age > AcceptedAge
Taken(r) == assigned[r.key] = r.rev /\ ~FromTheFuture(r) /\ ~TooOld(r)

\* A row that exists already is acknowledged as a duplicate.
Stored == [i \in DOMAIN outbox |->
             IF i \in PendingBatch THEN [outbox[i] EXCEPT !.stored = TRUE] ELSE outbox[i]]

submit_results ==
  /\ loop = "flush" /\ outbox # << >>
  /\ IF \A i \in PendingBatch : Taken(outbox[i])
     THEN outbox' = Stored /\ loop' = "acknowledge"
     ELSE loop' = "idle" /\ UNCHANGED outbox
  /\ UNCHANGED <<assigned, told, checkStates, budget, lead>>

\* The request or its answer is lost, or the server cannot handle it now.
submission_lost ==
  /\ Spend("loss")
  /\ loop = "flush" /\ outbox # << >>
  /\ \/ (\A i \in PendingBatch : Taken(outbox[i])) /\ outbox' = Stored
     \/ UNCHANGED outbox
  /\ loop' = "idle"
  /\ UNCHANGED <<assigned, told, checkStates, lead>>

AcknowledgePrefix ==
  /\ loop = "acknowledge"
  /\ outbox' = SubSeq(outbox, Cardinality(PendingBatch) + 1, Len(outbox))
  /\ loop' = "flush"
  /\ UNCHANGED <<assigned, told, checkStates, budget, lead>>

flushed ==
  /\ loop = "flush" /\ outbox = << >>
  /\ loop' = "idle"
  /\ UNCHANGED <<assigned, told, outbox, checkStates, budget, lead>>

\* The process ends, also because a save failed, and LoadStore reads the file.
monitor_restarts ==
  /\ Spend("crash")
  /\ loop # "idle"
  /\ loop' = "idle" /\ told' = Unassigned
  /\ UNCHANGED <<assigned, outbox, checkStates, lead>>

----------------------------------------------------------------------------
(* Operators and time. *)

\* A policy is revised, removed, or another one takes its place: the server's
\* resolve_effective_policy assigns the check by another revision, or not at all.
assignment_changes(k) == \E n \in Revisions :
  /\ Spend("reassign")
  /\ assigned[k] # n
  /\ assigned' = [assigned EXCEPT ![k] = n]
  /\ UNCHANGED <<told, outbox, checkStates, loop, lead>>

Older(r) == [r EXCEPT !.age = IF @ <= AcceptedAge THEN @ + 1 ELSE @]
Nearer(s) == [s EXCEPT !.wait = IF @ > 0 THEN @ - 1 ELSE @]

time_goes_on ==
  /\ outbox' = [i \in DOMAIN outbox |-> Older(outbox[i])]
  /\ checkStates' = [k \in Checks |-> Nearer(checkStates[k])]
  /\ outbox' # outbox \/ checkStates' # checkStates
  /\ UNCHANGED <<assigned, told, loop, budget, lead>>

AgentStep == checkIn \/ Evaluate \/ submit_results \/ AcknowledgePrefix \/ flushed

OutboxNext ==
  \/ AgentStep
  \/ submission_lost \/ monitor_restarts \/ time_goes_on
  \/ \E k \in Checks : assignment_changes(k)

\* The agent checks in for as long as it runs; nothing is said of how fast.
OutboxFairness == WF_outboxVars(AgentStep)

----------------------------------------------------------------------------
(* Properties. *)

\* Leaving the outbox without having been stored, other than for a new assignment.
Vanishes(r) == /\ ~r.stored /\ Current(r)
               /\ \A i \in DOMAIN outbox' :
                    LET n == outbox'[i]
                    IN  <<n.key, n.rev>> # <<r.key, r.rev>> \/ n.age \notin {r.age, Older(r).age}

(* What a check found reaches the server: no lost answer, restart or full outbox
   makes the agent forget a result the server has not stored while its assignment
   stands, and a new assignment never leaves the outbox stuck on results the server
   refuses.  It empties in the end, unless a result has waited past the age the
   server accepts, and is refused with its batch for as long as the assignment stands,
   or is dated by a clock that is ahead, and is refused until the server's gets there. *)
ResultsReported ==
  /\ [][\A i \in DOMAIN outbox : ~Vanishes(outbox[i])]_outboxVars
  /\ outbox # << >> ~>
       \/ outbox = << >>
       \/ \E i \in DOMAIN outbox : TooOld(outbox[i]) \/ FromTheFuture(outbox[i])
=============================================================================
