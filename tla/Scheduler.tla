----------------------------- MODULE Scheduler -----------------------------
(***************************************************************************)
(* Recurring tasks (server/app/core/scheduler.py, api/scheduled_tasks.py)  *)
(* and the patch gate their installations pass.                            *)
(*                                                                         *)
(* A pass of the dispatcher reads the due tasks, decides, and commits once *)
(* at the end, if anything was dispatched or counted as skipped.  Nothing  *)
(* claims a task: run-now is a pass of its own, and so is the dispatcher   *)
(* of every other server process.  So a pass is two steps.  So is an edit, *)
(* which computes a next run from the time it read the task.               *)
(***************************************************************************)
EXTENDS PatchPolicies, SequencesExt

CONSTANTS
  Tasks,
  TaskTerms,          \* what operators write: a task, its next run aside
  Edits,              \* the parts of a task an operator rewrites
  SiteAgents,         \* site -> its agents
  Governed,           \* <<agent, kind>> under an approval policy
  MinutesPerHour, HoursPerDay,
  SearchDays,         \* how far ahead a next run is looked for: five years
  MisfireGrace,       \* 24 hours
  Payloads,           \* install_updates payloads operators send
  Workers,            \* passes that may run at once
  Operators,          \* edits that may run at once
  Budgets             \* the instances: how long, and how often each kind of step happens

VARIABLES
  clock,
  tasks,              \* task -> its row, or None
  commands,           \* the commands that have not ended, oldest first
  ran,                \* <<task, agent, due time>> dispatched so far
  repeats,            \* those dispatched more than once
  overtaken,          \* tasks given a next run that was computed before they last ran
  active,             \* agents whose trust state is active
  passes,             \* worker -> the pass it is in
  openEdits,          \* operator -> the edit that has read its task and not committed
  budget

Classes == {"task", "run", "install", "patch", "agent"}

ASSUME SchedulerAssumption ==
  /\ IsFiniteSet(Tasks) /\ IsFiniteSet(Agents) /\ None \notin Tasks
  /\ MinutesPerHour \in Nat \ {0} /\ HoursPerDay \in Nat \ {0} /\ SearchDays \in Nat
  /\ Budgets \subseteq [serial : BOOLEAN, clock : Nat, ops : [Classes -> Nat]]

editVars == <<overtaken, openEdits>>
taskVars == <<clock, tasks, commands, ran, repeats, active, passes, budget, editVars>>
schedulerVars == <<taskVars, patchVars>>

Idle == [op |-> "idle", task |-> None, now |-> 0, due |-> {}, moved |-> << >>, queue |-> << >>,
         counted |-> FALSE]
NoEdit == [task |-> None, columns |-> << >>, late |-> FALSE]

SchedulerInit ==
  /\ PatchInit
  /\ budget \in Budgets
  /\ clock = 0
  /\ tasks = [k \in Tasks |-> None]
  /\ commands = << >> /\ ran = {} /\ repeats = {} /\ overtaken = {}
  /\ active = Agents
  /\ passes = [w \in Workers |-> Idle]
  /\ openEdits = [o \in Operators |-> NoEdit]

Spend(class) == /\ budget.ops[class] > 0
                /\ budget' = [budget EXCEPT !.ops[class] = @ - 1]

----------------------------------------------------------------------------
(* Cron expressions.  A field is a set of parts, each a range with a step; the
   day of the month, the month and the weekday are the days they select together,
   which may be none within the search. *)

\* Values outside the field's own range are dropped.
parse_cron_field(field, lo, hi) ==
  {v \in lo..hi : \E part \in field :
     /\ part.from <= v /\ v <= part.to
     /\ (v - part.from) % part.step = 0}

validate_cron_expression(cron) ==
  /\ parse_cron_field(cron.minute, 0, MinutesPerHour - 1) # {}
  /\ parse_cron_field(cron.hour, 0, HoursPerDay - 1) # {}

\* The first minute after the base whose local time the fields accept, if there
\* is one within the search: none is an error.
compute_next_run(cron, zone, base) ==
  LET minutes == parse_cron_field(cron.minute, 0, MinutesPerHour - 1)
      hours == parse_cron_field(cron.hour, 0, HoursPerDay - 1)
      fits(t) == /\ (t + zone) % MinutesPerHour \in minutes
                 /\ ((t + zone) \div MinutesPerHour) % HoursPerDay \in hours
                 /\ (t + zone) \div (MinutesPerHour * HoursPerDay) \in cron.days
  IN  {t \in base + 1 .. base + SearchDays * MinutesPerHour * HoursPerDay :
         fits(t) /\ \A u \in base + 1 .. t - 1 : ~fits(u)}

----------------------------------------------------------------------------
(* One pass *)

Due(rows, now) == {k \in Tasks : rows[k] # None /\ rows[k].enabled /\ rows[k].next <= now}

Misfired(task, now) == now - task.next > MisfireGrace /\ task.misfire = "skip"

TargetAgents(task) ==
  active \cap (IF task.target \in Agents THEN {task.target} ELSE SiteAgents[task.target])

\* A mutant: only a command of the same task counts.
Mut_SameWork(task, c) == c.task = task.id

\* The command the concurrency rule looks for.
SameWork(task, c) ==
  IF task.script # None THEN c.script = task.script ELSE c.kind = task.kind

Gate(task, a, now) ==
  IF task.kind = "install_updates" THEN evaluate_patch_install(a, task.payload, now)
  ELSE [outcome |-> "allowed", payload |-> task.payload]

\* The dispatches <<task, agent>> that neither a refusal, a misfire nor the gate stops.
Candidates(rows, now) ==
  {j \in Due(rows, now) \X active :
     LET task == rows[j[1]] IN
     /\ task.kind # "reboot" /\ ~Misfired(task, now)
     /\ j[2] \in TargetAgents(task) /\ <<j[2], task.kind>> \notin Governed
     /\ Gate(task, j[2], now).outcome = "allowed"}

Command(rows, j, now) ==
  LET task == rows[j[1]] IN
  [agent |-> j[2], kind |-> task.kind, script |-> task.script, task |-> j[1], for |-> task.next,
   manual |-> task.manual, skip |-> task.concurrency = "skip",
   payload |-> Gate(task, j[2], now).payload]

\* The concurrency rule holds a dispatch back if the endpoint has the same work
\* unfinished, or the pass has queued it for a task it took before.
HeldBack(rows, now, rank, chosen, j) ==
  /\ rows[j[1]].concurrency = "skip"
  /\ \/ \E c \in ToSet(commands) : c.agent = j[2] /\ SameWork(rows[j[1]], c)
     \/ \E d \in chosen : /\ d[2] = j[2] /\ rank[d[1]] < rank[j[1]]
                         /\ SameWork(rows[j[1]], Command(rows, d, now))

Refused(task, now) ==
  \/ task.kind = "reboot" \/ Misfired(task, now)
  \/ \E a \in TargetAgents(task) : <<a, task.kind>> \in Governed

\* A pass raises, and undoes all it did, if a due task has no next run.
Raises(rows, now) == \E k \in Due(rows, now) : compute_next_run(rows[k].cron, rows[k].zone, now) = {}

Quiet == \A w \in Workers : passes[w].op = "idle"

\* The pass takes the due tasks in any order, each once for every target, and
\* plans their next runs.  A serial instance has one pass or dispatch at a time.
Begin(w, op, rows, task) ==
  LET now == clock
      due == Due(rows, now)
      jobs == Candidates(rows, now)
      runs(k) == compute_next_run(rows[k].cron, rows[k].zone, now)
  IN
  /\ passes[w].op = "idle"
  /\ budget.serial => Quiet
  /\ ~Raises(rows, now)
  /\ \E rank \in Injection(due, 1..Cardinality(due)), chosen \in SUBSET jobs :
       /\ \A j \in jobs : j \in chosen <=> ~HeldBack(rows, now, rank, chosen, j)
       /\ \E list \in SetToSeqs(chosen) :
            /\ \A m, n \in DOMAIN list : m < n => rank[list[m][1]] <= rank[list[n][1]]
            /\ passes' = [passes EXCEPT ![w] =
                 [op |-> op, task |-> task, now |-> now, due |-> due,
                  moved |-> [k \in due |-> CHOOSE t \in runs(k) : TRUE],
                  queue |-> [n \in DOMAIN list |-> Command(rows, list[n], now)],
                  counted |-> chosen # {} \/ \E k \in due : Refused(rows[k], now)]]
  /\ UNCHANGED <<clock, commands, ran, repeats, active, editVars, patchVars>>

dispatcher_reads(w) ==
  /\ Due(tasks, clock) # {}
  /\ Begin(w, "dispatcher", tasks, None)
  /\ UNCHANGED <<tasks, budget>>

\* The task is made due now, then a whole pass runs; a disabled task is not in it.
run_now_reads(w, k) ==
  /\ Spend("run")
  /\ tasks[k] # None
  /\ Begin(w, "run_now", [tasks EXCEPT ![k].next = clock, ![k].manual = TRUE], k)
  /\ UNCHANGED tasks

\* A computed next run takes the place of one an operator forced.
Recurring(task, next) == [task EXCEPT !.next = next, !.manual = FALSE]

\* A mutant: the next run is left as it was.
Mut_Moved(rows, p) ==
  [k \in Tasks |-> IF k \in p.due THEN [rows[k] EXCEPT !.next = @] ELSE rows[k]]

Moved(rows, p) ==
  [k \in Tasks |-> IF k \in p.due THEN Recurring(rows[k], p.moved[k]) ELSE rows[k]]

\* The rows of the tasks must still be there, or the whole pass is rolled back.
Intact(p) == \A k \in p.due \cup ({p.task} \ {None}) : tasks[k] # None

\* The history leaves out what was run by hand.
Occurrences(queue) ==
  {<<c.task, c.agent, c.for>> : c \in {d \in ToSet(queue) : ~d.manual}}
Queue(queue) ==
  /\ commands' = commands \o queue
  /\ ran' = ran \cup Occurrences(queue)
  /\ repeats' = repeats \cup (ran \cap Occurrences(queue))
  /\ openEdits' = [o \in Operators |->
       IF \E c \in ToSet(queue) : c.task = openEdits[o].task
       THEN [openEdits[o] EXCEPT !.late = TRUE] ELSE openEdits[o]]
  /\ UNCHANGED overtaken

dispatch_scheduled_tasks_once(w) ==
  /\ passes[w].op = "dispatcher" /\ Intact(passes[w])
  /\ passes' = [passes EXCEPT ![w] = Idle]
  /\ IF passes[w].counted
     THEN tasks' = Moved(tasks, passes[w]) /\ Queue(passes[w].queue)
     ELSE UNCHANGED <<tasks, commands, ran, repeats, editVars>>
  /\ UNCHANGED <<clock, active, budget, patchVars>>

\* Run-now commits in any case.
run_scheduled_task_now(w) ==
  LET p == passes[w] IN
  /\ p.op = "run_now" /\ Intact(p)
  /\ passes' = [passes EXCEPT ![w] = Idle]
  /\ tasks' = Moved([tasks EXCEPT ![p.task].next = p.now, ![p.task].manual = TRUE], p)
  /\ Queue(p.queue)
  /\ UNCHANGED <<clock, active, budget, patchVars>>

\* A failure anywhere in a pass undoes all of it.
pass_fails(w) ==
  /\ passes[w].op # "idle"
  /\ ~Intact(passes[w])
  /\ passes' = [passes EXCEPT ![w] = Idle]
  /\ UNCHANGED <<clock, tasks, commands, ran, repeats, active, budget, editVars, patchVars>>

----------------------------------------------------------------------------
(* Operators *)

Columns == {"enabled", "concurrency", "cron", "next"}

\* An id is not used again: the model's is, once no request refers to it.
Unreferenced(k) ==
  /\ \A w \in Workers : k \notin passes[w].due \cup {passes[w].task}
  /\ \A o \in Operators : openEdits[o].task # k

create_scheduled_task(k) == \E terms \in TaskTerms :
  \E next \in compute_next_run(terms.cron, terms.zone, clock) :
  /\ Spend("task")
  /\ tasks[k] = None /\ Unreferenced(k)
  /\ validate_cron_expression(terms.cron) /\ terms.kind # "reboot"
  /\ tasks' = [tasks EXCEPT ![k] = [enabled |-> terms.enabled, target |-> terms.target,
       kind |-> terms.kind, script |-> terms.script, payload |-> terms.payload, id |-> k,
       cron |-> terms.cron, zone |-> terms.zone, concurrency |-> terms.concurrency,
       misfire |-> terms.misfire, manual |-> FALSE, next |-> next]]
  /\ UNCHANGED <<clock, commands, ran, repeats, active, passes, editVars, patchVars>>

\* What an edit has read and computed; only the columns it changed are written.
Load(o, k, edited) ==
  /\ Spend("task")
  /\ openEdits[o].task = None /\ tasks[k] # None
  /\ openEdits' = [openEdits EXCEPT ![o] =
       [task |-> k, late |-> FALSE,
        columns |-> [f \in {g \in Columns : edited[g] # tasks[k][g]} |-> edited[f]]]]
  /\ UNCHANGED <<clock, tasks, commands, ran, repeats, active, passes, overtaken, patchVars>>

\* Only a new expression or time zone moves the next run.
update_scheduled_task_load(o, k) == \E e \in Edits :
  /\ tasks[k] # None /\ validate_cron_expression(e.cron)
  /\ LET edited == [tasks[k] EXCEPT !.enabled = e.enabled, !.concurrency = e.concurrency,
                                    !.cron = e.cron]
     IN  \/ e.cron = tasks[k].cron /\ Load(o, k, edited)
         \/ /\ e.cron # tasks[k].cron
            /\ \E next \in compute_next_run(e.cron, tasks[k].zone, clock) :
                 Load(o, k, [edited EXCEPT !.next = next])

toggle_scheduled_task_load(o, k) ==
  /\ tasks[k] # None
  /\ \/ tasks[k].enabled /\ Load(o, k, [tasks[k] EXCEPT !.enabled = FALSE])
     \/ /\ ~tasks[k].enabled
        /\ \E next \in compute_next_run(tasks[k].cron, tasks[k].zone, clock) :
             Load(o, k, [tasks[k] EXCEPT !.enabled = TRUE, !.next = next])

Rewritten(row, columns) ==
  [f \in DOMAIN row |-> IF f \in DOMAIN columns THEN columns[f]
                        ELSE IF f = "manual" /\ "next" \in DOMAIN columns THEN FALSE ELSE row[f]]

\* Both edits end in a commit of their own; it fails if the row is gone.
edit_commits(o) ==
  LET e == openEdits[o] IN
  /\ e.task # None
  /\ openEdits' = [openEdits EXCEPT ![o] = NoEdit]
  /\ IF tasks[e.task] = None THEN UNCHANGED <<tasks, overtaken>>
     ELSE /\ tasks' = [tasks EXCEPT ![e.task] = Rewritten(tasks[e.task], e.columns)]
          /\ overtaken' = overtaken \cup IF e.late /\ "next" \in DOMAIN e.columns THEN {e.task} ELSE {}
  /\ UNCHANGED <<clock, commands, ran, repeats, active, passes, budget, patchVars>>

delete_scheduled_task(k) ==
  /\ Spend("task")
  /\ tasks[k] # None
  /\ tasks' = [tasks EXCEPT ![k] = None]
  /\ UNCHANGED <<clock, commands, ran, repeats, active, passes, editVars, patchVars>>

\* An operator's own installation passes the same gate.
_apply_patch_approval_policy(a) == \E payload \in Payloads :
  LET gate == evaluate_patch_install(a, payload, clock) IN
  /\ Spend("install")
  /\ budget.serial => Quiet
  /\ a \in active /\ gate.outcome = "allowed"
  /\ commands' = Append(commands, [agent |-> a, kind |-> "install_updates", script |-> None,
       task |-> None, for |-> clock, manual |-> TRUE, skip |-> FALSE, payload |-> gate.payload])
  /\ UNCHANGED <<clock, tasks, ran, repeats, active, passes, editVars, patchVars>>

patch_policies(p) ==
  /\ Spend("patch")
  /\ create_patch_policy(p) \/ revise_patch_policy(p) \/ delete_patch_policy(p)
  /\ UNCHANGED <<clock, tasks, commands, ran, repeats, active, passes, editVars>>

----------------------------------------------------------------------------
(* Endpoints and time *)

endpoint(a) ==
  /\ Spend("agent")
  /\ (a \in active /\ submit_inventory(a, clock)) \/ window_turns(a)
  /\ UNCHANGED <<clock, tasks, commands, ran, repeats, active, passes, editVars>>

set_trust(a) ==
  /\ Spend("agent")
  /\ active' = IF a \in active THEN active \ {a} ELSE active \cup {a}
  /\ UNCHANGED <<clock, tasks, commands, ran, repeats, passes, editVars, patchVars>>

\* A command reaches a terminal status: a result, a cancellation or its expiry.  An
\* endpoint that does not check in brings none of them about.
command_ends(i) ==
  /\ commands' = RemoveAt(commands, i)
  /\ UNCHANGED <<clock, tasks, ran, repeats, active, passes, budget, editVars, patchVars>>

tick ==
  /\ clock < budget.clock
  /\ clock' = clock + 1
  /\ UNCHANGED <<tasks, commands, ran, repeats, active, passes, budget, editVars, patchVars>>

SchedulerNext ==
  \/ \E w \in Workers : \/ dispatcher_reads(w) \/ dispatch_scheduled_tasks_once(w)
                        \/ run_scheduled_task_now(w) \/ pass_fails(w)
                        \/ \E k \in Tasks : run_now_reads(w, k)
  \/ \E k \in Tasks : create_scheduled_task(k) \/ delete_scheduled_task(k)
  \/ \E o \in Operators : \/ edit_commits(o)
                          \/ \E k \in Tasks : \/ update_scheduled_task_load(o, k)
                                               \/ toggle_scheduled_task_load(o, k)
  \/ \E p \in PatchPolicyIds : patch_policies(p)
  \/ \E a \in Agents : _apply_patch_approval_policy(a) \/ endpoint(a) \/ set_trust(a)
  \/ \E i \in DOMAIN commands : command_ends(i)
  \/ tick

\* The dispatcher is woken every 15 seconds, and a pass ends.
SchedulerFairness ==
  /\ WF_schedulerVars(\E w \in Workers : dispatcher_reads(w))
  /\ WF_schedulerVars(\E w \in Workers : \/ dispatch_scheduled_tasks_once(w)
                                         \/ run_scheduled_task_now(w) \/ pass_fails(w))

SchedulerSpec == SchedulerInit /\ [][SchedulerNext]_schedulerVars /\ SchedulerFairness

----------------------------------------------------------------------------
(* With one pass or dispatch at a time, a due time of a task is dispatched to an
   endpoint once, whatever is skipped, retried, run by hand, edited or rolled back
   in between, unless an edit gave the task a next run computed before a pass that
   ran it in the meantime; and the concurrency policy "skip" queues no command while
   the endpoint has an unfinished one of the same work, from any task of the same
   pass or an earlier one. *)
WorkNotDoubled ==
  budget.serial =>
    /\ \A e \in repeats : e[1] \in overtaken
    /\ \A i, j \in DOMAIN commands :
         i < j /\ commands[j].skip /\ commands[i].agent = commands[j].agent
         => ~(IF commands[j].script # None THEN commands[i].script = commands[j].script
              ELSE commands[i].kind = commands[j].kind)

\* A target that the concurrency rule lets the task run on.
FreeTarget(task) ==
  \E a \in TargetAgents(task) :
    \/ task.concurrency # "skip"
    \/ ~\E c \in ToSet(commands) : c.agent = a /\ SameWork(task, c)

(* A due task settles: an enabled task with a target in service that is free to run
   it does not stay due, whatever else is due, busy or rolled back, although a pass
   that only finds busy endpoints commits nothing.  It may, while a due task without
   a next run makes every pass raise. *)
DueTaskRuns ==
  \A k \in Tasks :
    []<>(~(/\ tasks[k] # None
           /\ tasks[k].enabled /\ tasks[k].next <= clock
           /\ tasks[k].kind # "install_updates"
           /\ FreeTarget(tasks[k])
           /\ ~Raises(tasks, clock)))

(* Compliance and the gate agree: an endpoint shown as compliant has nothing
   that an installation of everything would be allowed to install, and one
   shown as non-compliant is never answered that nothing is approved. *)
ComplianceAgrees ==
  \A a \in Agents :
    LET all == [all |-> TRUE, kbs |-> {}, ids |-> {}]
        gate == evaluate_patch_install(a, all, clock).outcome
    IN  /\ endpoint_compliance(a, clock) = "compliant" => gate # "allowed"
        /\ endpoint_compliance(a, clock) = "non_compliant" => gate # "no_approved_updates"
=============================================================================
