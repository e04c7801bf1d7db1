------------------------------ MODULE Rollouts ------------------------------
(***************************************************************************)
(* Staged rollouts of agent releases (server/app/api/agent_updates.py,     *)
(* core/agent_updates.py): a release is published, its rollout advanced by *)
(* percentage stages, paused, resumed and halted, by an operator or by the *)
(* failures its endpoints report.                                          *)
(*                                                                         *)
(* An operator's handler loads the release without a lock and commits      *)
(* later: two steps.  The ORM writes a column only when the value assigned *)
(* differs from the value loaded, so a stale handler may leave a newer     *)
(* state alone or overwrite it.  A report takes the lock of the audit      *)
(* chain before it counts and keeps it to its commit: one step.            *)
(***************************************************************************)
EXTENDS Instances, FiniteSets, TLC

CONSTANTS
  Agents,
  Releases,        \* the ids publish_release may draw
  ReleaseTerms,    \* what administrators publish
  Percents,        \* the stages they ask for
  MaxDispatch,     \* the most agents one call dispatches to
  Bucket,          \* rollout_bucket(release, agent): a hash, below 100
  Endpoint,        \* Agents -> [platform, channel, capable, v3, governed]
  InitialVersion,  \* Agents -> the version it runs
  Silent,          \* agents that have not said which version they run
  Slots            \* 1..n: handlers the server may be running at once

\* A stage is a percentage, and a release is never judged on no attempt at all.
ASSUME RolloutAssumption ==
  /\ Percents \subseteq 0..100
  /\ Bucket \in [Releases -> [Agents -> 0..99]]
  /\ \A terms \in ReleaseTerms : terms.minAttempts \in Nat \ {0}
  /\ IsFiniteSet(Slots)

\* MAJOR.MINOR.PATCH as one number, and the pre-release (0: none).
NoVersion == [core |-> 0, pre |-> 0]

\* A pre-release comes before its release.
version_sort_key(v) == [core |-> v.core, final |-> IF v.pre = 0 THEN 1 ELSE 0, pre |-> v.pre]

Older(v, w) ==
  LET a == version_sort_key(v)  b == version_sort_key(w) IN
  \/ a.core < b.core
  \/ a.core = b.core /\ a.final < b.final
  \/ a.core = b.core /\ a.final = b.final /\ a.pre < b.pre

Versions == {InitialVersion[a] : a \in Agents} \cup {t.version : t \in ReleaseTerms}

AgentUpdateReleaseState == {"absent", "published", "rolling", "paused", "halted"}
AgentUpdateAttemptStatus == {"none", "dispatched", "succeeded", "rolled_back", "failed"}
Outcomes == {"succeeded", "rolled_back", "failed"}

AgentUpdateRelease == [state : AgentUpdateReleaseState, percent : 0..100,
                       terms : ReleaseTerms \cup {None}]

VARIABLES
  releases,
  attempts,        \* [release, agent] -> the status of the attempt row
  issued,          \* [release, agent] -> update commands signed for the agent
  reached,         \* history: the widest stage a committed call asked for
  recorded,        \* agents.agent_version
  trusted,         \* agents whose trust state is active; the others are quarantined
  running,         \* the version the agent runs
  outcome,         \* [release, agent] -> what became of the update, on the agent
  sent,            \* outcome reports the network may deliver, any number of times
  txns

vars == <<releases, attempts, issued, reached, recorded, trusted, running, outcome, sent, txns, budget>>

Classes == {"publish", "advance", "steer", "report", "agent"}

Free == [op |-> "free", on |-> None, row |-> None, halt |-> FALSE, percent |-> 0, picked |-> {}]

Init ==
  /\ budget \in Budgets
  /\ releases = [r \in Releases |-> [state |-> "absent", percent |-> 0, terms |-> None]]
  /\ attempts = [r \in Releases |-> [a \in Agents |-> "none"]]
  /\ issued = [r \in Releases |-> [a \in Agents |-> 0]]
  /\ reached = [r \in Releases |-> 0]
  /\ outcome = [r \in Releases |-> [a \in Agents |-> "none"]]
  /\ running = InitialVersion
  /\ recorded = [a \in Agents |-> IF a \in Silent THEN NoVersion ELSE InitialVersion[a]]
  /\ trusted = Agents /\ sent = {}
  /\ txns = [t \in Slots |-> Free]

(***************************************************************************)
(* Decisions                                                               *)
(***************************************************************************)
_status_counts(rows, statuses) == Cardinality({a \in Agents : rows[a] \in statuses})

evaluate_halt(r, rows) ==
  LET resolved == _status_counts(rows, Outcomes)
      failed   == _status_counts(rows, {"rolled_back", "failed"})
  IN  /\ resolved >= releases[r].terms.minAttempts
      /\ failed * 100 >= releases[r].terms.threshold * resolved

evaluate_eligibility(r, a, percent) ==
  LET terms == releases[r].terms IN
  /\ a \in trusted
  /\ Endpoint[a].capable
  /\ Endpoint[a].platform = terms.platform
  /\ Endpoint[a].channel = terms.channel
  /\ recorded[a] # NoVersion
  /\ Older(recorded[a], terms.version)
  /\ ~Older(terms.version, terms.min)
  /\ Bucket[r][a] < percent

\* An approval policy over self-updates is a refusal; a rollout has no approver.
Dispatchable(r, percent) ==
  {a \in Agents : /\ attempts[r][a] = "none"
                  /\ evaluate_eligibility(r, a, percent)
                  /\ Endpoint[a].v3
                  /\ ~Endpoint[a].governed}

\* The candidates come in no particular order; the first max_dispatch are taken.
Batches(eligible) ==
  {b \in SUBSET eligible :
     Cardinality(b) = IF Cardinality(eligible) < MaxDispatch THEN Cardinality(eligible) ELSE MaxDispatch}

(***************************************************************************)
(* Publishing                                                              *)
(***************************************************************************)
publish_release(r) == \E terms \in ReleaseTerms :
  /\ Spend("publish")
  /\ releases[r].state = "absent"
  /\ ~Older(terms.version, terms.min)
  /\ ~\E q \in Releases : /\ releases[q].state # "absent"
                          /\ releases[q].terms.version = terms.version
                          /\ releases[q].terms.channel = terms.channel
                          /\ releases[q].terms.platform = terms.platform
  /\ releases' = [releases EXCEPT ![r] = [state |-> "published", percent |-> 0, terms |-> terms]]
  /\ UNCHANGED <<attempts, issued, reached, recorded, trusted, running, outcome, sent, txns>>

(***************************************************************************)
(* Operators' handlers: load, then commit                                  *)
(***************************************************************************)
Calm == \A t \in Slots : txns[t].op = "free"

\* A handler starts; a serial instance runs one request at a time.
_load_release(t, r, class) ==
  /\ Spend(class)
  /\ txns[t].op = "free" /\ \A u \in Slots : u < t => txns[u].op # "free"
  /\ Cardinality({u \in Slots : txns[u].op # "free"}) < budget.slots
  /\ releases[r].state # "absent"
  /\ UNCHANGED <<releases, attempts, issued, reached, recorded, trusted, running, outcome, sent>>

Loaded(t, op, r, percent, picked) ==
  txns' = [txns EXCEPT ![t] = [op |-> op, on |-> r,
             row |-> [state |-> releases[r].state, percent |-> releases[r].percent],
             halt |-> evaluate_halt(r, attempts[r]), percent |-> percent, picked |-> picked]]

advance_load(t, r) == \E percent \in Percents :
  /\ _load_release(t, r, "advance")
  /\ releases[r].state \notin {"paused", "halted"}
  /\ percent >= releases[r].percent
  /\ \E picked \in Batches(Dispatchable(r, percent)) : Loaded(t, "advance", r, percent, picked)

halt_load(t, r) ==
  /\ _load_release(t, r, "steer")
  /\ releases[r].state # "halted"
  /\ Loaded(t, "halt", r, 0, {})

\* A mutant: a halted release may be paused.
Mut_pause_load(t, r) ==
  /\ _load_release(t, r, "steer")
  /\ Loaded(t, "pause", r, 0, {})

pause_load(t, r) ==
  /\ _load_release(t, r, "steer")
  /\ releases[r].state # "halted"
  /\ Loaded(t, "pause", r, 0, {})

resume_load(t, r) ==
  /\ _load_release(t, r, "steer")
  /\ releases[r].state = "paused"
  /\ Loaded(t, "resume", r, 0, {})

Committing(t, op) == /\ txns[t].op = op
                     /\ txns' = [txns EXCEPT ![t] = Free]
                     /\ UNCHANGED <<recorded, trusted, running, outcome, sent, budget>>

\* The column is written only when it changes from the value loaded.
SetState(t, state) ==
  LET r == txns[t].on IN
  releases' = [releases EXCEPT ![r].state = IF txns[t].row.state = state THEN @ ELSE state]

_halt_release(t) == SetState(t, "halted") /\ UNCHANGED <<attempts, issued, reached>>

\* The unique (release_id, agent_id) of an attempt: a conflict rolls everything back.
Conflict(t) == \E a \in txns[t].picked : attempts[txns[t].on][a] # "none"

\* A mutant: the attempt of an agent that already has one is written again.
Mut_dispatch_update_command(t) ==
  LET r == txns[t].on IN
  /\ attempts' = [attempts EXCEPT ![r] =
       [a \in Agents |-> IF a \in txns[t].picked THEN "dispatched" ELSE @[a]]]
  /\ issued' = [issued EXCEPT ![r] = [a \in Agents |-> IF a \in txns[t].picked THEN @[a] + 1 ELSE @[a]]]

_dispatch_update_command(t) ==
  LET r == txns[t].on IN
  /\ ~Conflict(t)
  /\ attempts' = [attempts EXCEPT ![r] =
       [a \in Agents |-> IF a \in txns[t].picked THEN "dispatched" ELSE @[a]]]
  /\ issued' = [issued EXCEPT ![r] = [a \in Agents |-> IF a \in txns[t].picked THEN @[a] + 1 ELSE @[a]]]

advance_rollout(t) ==
  LET r == txns[t].on IN
  /\ Committing(t, "advance")
  /\ \/ txns[t].halt /\ _halt_release(t)
     \/ /\ ~txns[t].halt
        /\ _dispatch_update_command(t)
        /\ reached' = [reached EXCEPT ![r] = IF txns[t].percent > @ THEN txns[t].percent ELSE @]
        /\ releases' = [releases EXCEPT
             ![r].state = IF txns[t].row.state = "rolling" THEN @ ELSE "rolling",
             ![r].percent = IF txns[t].row.percent = txns[t].percent THEN @ ELSE txns[t].percent]

halt_release(t) == Committing(t, "halt") /\ _halt_release(t)

pause_release(t) ==
  /\ Committing(t, "pause")
  /\ SetState(t, "paused") /\ UNCHANGED <<attempts, issued, reached>>

resume_release(t) ==
  /\ Committing(t, "resume")
  /\ \/ txns[t].halt /\ _halt_release(t)
     \/ /\ ~txns[t].halt
        /\ SetState(t, IF txns[t].row.percent > 0 THEN "rolling" ELSE "published")
        /\ UNCHANGED <<attempts, issued, reached>>

\* A handler fails and its transaction is rolled back: a conflict, a deadlock of
\* the release's row and the audit chain's lock, a lost connection.
rolled_back(t) ==
  /\ txns[t].op # "free"
  /\ Conflict(t) \/ budget.slots > 1
  /\ txns' = [txns EXCEPT ![t] = Free]
  /\ UNCHANGED <<releases, attempts, issued, reached, recorded, trusted, running, outcome, sent, budget>>

(***************************************************************************)
(* Endpoints                                                               *)
(***************************************************************************)
\* The agent carries the command out; it refuses a version it has outgrown.
agent_updates(r, a) == \E o \in Outcomes :
  /\ issued[r][a] > 0 /\ outcome[r][a] = "none"
  /\ o # "failed" => Older(running[a], releases[r].terms.version)
  /\ outcome' = [outcome EXCEPT ![r][a] = o]
  /\ running' = [running EXCEPT ![a] = IF o = "succeeded" THEN releases[r].terms.version ELSE @]
  /\ sent' = sent \cup {[on |-> r, agent |-> a, status |-> o, observed |-> running'[a]]}
  /\ UNCHANGED <<releases, attempts, issued, reached, recorded, trusted, txns, budget>>

\* A mutant: the report is stored and the rollout is not judged.
Mut_report_self_update(m) ==
  /\ Spend("report")
  /\ budget.serial => Calm
  /\ recorded' = [recorded EXCEPT ![m.agent] = m.observed]
  /\ attempts' = [attempts EXCEPT ![m.on][m.agent] = IF @ = "none" THEN @ ELSE m.status]
  /\ UNCHANGED <<releases, issued, reached, trusted, running, outcome, sent, txns>>

\* The attempt is rewritten by whatever is reported, and the counts that include
\* it are judged before the commit.
report_self_update(m) ==
  /\ Spend("report")
  /\ budget.serial => Calm
  /\ recorded' = [recorded EXCEPT ![m.agent] = m.observed]
  /\ attempts' = [attempts EXCEPT ![m.on][m.agent] = IF @ = "none" THEN @ ELSE m.status]
  /\ releases' = IF attempts[m.on][m.agent] # "none" /\ evaluate_halt(m.on, attempts'[m.on])
                 THEN [releases EXCEPT ![m.on].state = "halted"] ELSE releases
  /\ UNCHANGED <<issued, reached, trusted, running, outcome, sent, txns>>

\* A check-in says which version runs.
heartbeat(a) ==
  /\ recorded[a] # running[a]
  /\ recorded' = [recorded EXCEPT ![a] = running[a]]
  /\ UNCHANGED <<releases, attempts, issued, reached, trusted, running, outcome, sent, txns, budget>>

\* Quarantine and release; a quarantined agent still reports and checks in.
set_trust(a) ==
  /\ Spend("agent")
  /\ trusted' = IF a \in trusted THEN trusted \ {a} ELSE trusted \cup {a}
  /\ UNCHANGED <<releases, attempts, issued, reached, recorded, running, outcome, sent, txns>>

Next ==
  \/ \E r \in Releases : publish_release(r)
  \/ \E t \in Slots, r \in Releases :
       advance_load(t, r) \/ halt_load(t, r) \/ pause_load(t, r) \/ resume_load(t, r)
  \/ \E t \in Slots : \/ advance_rollout(t) \/ halt_release(t) \/ pause_release(t)
                      \/ resume_release(t) \/ rolled_back(t)
  \/ \E r \in Releases, a \in Agents : agent_updates(r, a)
  \/ \E m \in sent : report_self_update(m)
  \/ \E a \in Agents : heartbeat(a) \/ set_trust(a)

Spec == Init /\ [][Next]_vars

(***************************************************************************)
(* Properties                                                              *)
(***************************************************************************)
(* One update per agent, and within the stage: whatever administrators advance at
   the same time, a release signs at most one update command for an endpoint, and
   only for one whose bucket lies below the widest stage a call asked for; with
   requests taken one at a time that is the stage the release itself shows. *)
OneUpdatePerAgent ==
  \A r \in Releases :
    /\ \A a \in Agents : /\ issued[r][a] <= 1
                         /\ issued[r][a] = 1 <=> attempts[r][a] # "none"
                         /\ issued[r][a] = 1 => Bucket[r][a] < reached[r]
    /\ budget.serial => releases[r].percent = reached[r]

(* Failures halt: with requests taken one at a time, a release whose reported
   failures reach its threshold is halted, in every order of reports, repeated
   and rewritten reports, pauses and resumes. *)
FailuresHalt ==
  budget.serial =>
    \A r \in Releases :
      releases[r].state # "absent" /\ evaluate_halt(r, attempts[r]) /\ Calm => releases[r].state = "halted"

(* A halt holds: a halted release signs no command and leaves that state only
   by the commit of a handler that loaded it before it was halted. *)
HaltHolds ==
  [][\A r \in Releases :
       releases[r].state = "halted" =>
         \/ releases'[r].state = "halted" /\ issued'[r] = issued[r]
         \/ \E t \in Slots : /\ txns[t].on = r /\ txns'[t] = Free
                             /\ txns[t].row.state # "halted"
                             /\ ~budget.serial]_vars
=============================================================================
