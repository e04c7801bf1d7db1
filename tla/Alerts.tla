------------------------------- MODULE Alerts -------------------------------
(***************************************************************************)
(* Monitoring of one endpoint: policies and their revisions, maintenance   *)
(* windows, check results from the agent and from the server's own sweep,  *)
(* alerts and what operators do to them (server/app/core/monitoring.py,    *)
(* api/agents.py, the monitoring handlers of api/management.py), and the   *)
(* notifications the alerts enqueue (Notifications).                       *)
(*                                                                         *)
(* A submission and a sweep read the policy first and write the result and *)
(* the alert later, so they are two steps.  An alert is locked from its    *)
(* read to the commit; its handlers are one step.                          *)
(***************************************************************************)
EXTENDS Notifications

CONSTANTS
  Policies,          \* identifiers, in the order of their creation
  Scope,             \* Policies -> 0..4: global, client, site, agent, of another endpoint
  Keys,
  CheckType,         \* Keys -> {"agent", "offline", "patch_age"}
  CheckLists,        \* the lists of checks operators write: Keys -> {"absent", "on", "off"}
  InitialPolicies,   \* Policies -> CheckLists \cup {None}
  AgentStatuses,     \* what the agent may report
  Warning, Critical, RaiseSamples, ClearSamples, Interval,   \* of the server's checks
  MaxAge,            \* max(3 * interval, 300 s)
  Skews,             \* how far the clock of the agent may be ahead
  MaxSkew,           \* 5 minutes
  KeepResults,       \* settings.check_result_history_per_key
  WindowTerms, MaxWindows, MaxPolicies,
  ActionRequests,    \* request_id of operators' actions
  Slots,
  (* bounds of the model *)
  NumResults, MaxClock

Pairs    == Policies \X Keys
Statuses == {"ok", "warning", "critical", "unknown"}

ASSUME AlertsAssumption ==
  /\ IsFiniteSet(Policies) /\ IsFiniteSet(Keys)
  /\ AgentStatuses \subseteq Statuses /\ Skews \subseteq Nat /\ MaxAge \in Nat

Classes  == {"edit", "act", "window", "server", "prune", "hook", "retry", "stop"}

MonitoringPolicy == [present : BOOLEAN, enabled : BOOLEAN, version : Nat,
                     checks : [Keys -> {"absent", "on", "off"}]]

CheckResult == [by : {"agent", "server"}, policy : Policies, rev : Nat, key : Keys,
                status : Statuses, at : Nat, pending : Statuses \cup {None}, count : Nat]

Event == [type : STRING, gen : Nat, request : ActionRequests \cup {None}, saw : Nat]

Alert == [state : {"absent", "open", "acknowledged", "resolved"}, gen : Nat, occurrences : Nat,
          total : Nat, opened : Nat, at : Nat, last : Nat, status : Statuses, version : Nat,
          suppressed : BOOLEAN, events : Seq(Event), failures : SUBSET (1..NumResults)]

NoAlert == [state |-> "absent", gen |-> 0, occurrences |-> 0, total |-> 0, opened |-> 0,
            at |-> 0, last |-> 0, status |-> "ok", version |-> 0, suppressed |-> FALSE,
            events |-> << >>, failures |-> {}]

Free == [op |-> "free"]

VARIABLES
  clock, lastSeen,
  patched,      \* the latest inventory of updates and the newest install in it
  policies, windows,
  results,      \* every result made, by the agent or by the server
  stored,       \* the rows of check_results, in the order received
  observed,     \* the rows of alert_observations
  forgotten,    \* history: results retention deleted while they were still acceptable
  alerts,
  actions,      \* what operators have sent and may send again
  txns

alertVars == <<clock, lastSeen, patched, policies, windows, results, stored, observed, forgotten,
               alerts, actions, txns, budget>>
vars == <<alertVars, notificationVars>>

Init ==
  /\ NotificationsInit
  /\ budget \in Budgets
  /\ mail = budget.mail
  /\ clock = 0 /\ lastSeen = 0 /\ patched = [scan |-> "none", newest |-> 0]
  /\ policies = [p \in Policies |->
       [present |-> InitialPolicies[p] # None, enabled |-> InitialPolicies[p] # None,
        version |-> IF InitialPolicies[p] = None THEN 0 ELSE 1,
        checks |-> IF InitialPolicies[p] = None THEN [k \in Keys |-> "absent"]
                   ELSE InitialPolicies[p]]]
  /\ windows = {} /\ results = << >> /\ stored = << >> /\ observed = {}
  /\ forgotten = {}
  /\ alerts = [a \in Pairs |-> NoAlert]
  /\ actions = [r \in ActionRequests |-> None]
  /\ txns = [t \in Slots |-> Free]

----------------------------------------------------------------------------
(* The policy that governs a check: broader scopes first, then older policies;
   a later entry replaces an earlier one, a disabled entry removes it. *)

_applicable_policies == {p \in Policies : policies[p].present /\ policies[p].enabled /\ Scope[p] < 4}

After(p, q) == Scope[p] > Scope[q] \/ (Scope[p] = Scope[q] /\ p > q)

resolve_effective_policy ==
  [k \in Keys |->
     LET named == {p \in _applicable_policies : policies[p].checks[k] # "absent"}
         last  == {p \in named : \A q \in named \ {p} : After(p, q)}
     IN  {<<p, policies[p].version>> : p \in {x \in last : policies[x].checks[k] = "on"}}]

\* A window suppresses at a time inside it, on the days of its recurrence.
active_maintenance_windows(at) ==
  {w \in windows : w.from <= at /\ at < w.to /\ (w.days = {} \/ at \in w.days)}

----------------------------------------------------------------------------
(* The life of an alert. *)

WithEvent(al, type, request, saw) ==
  [al EXCEPT !.events = Append(@, [type |-> type, gen |-> al.gen, request |-> request, saw |-> saw])]

Unresolved(al) == al.state \in {"open", "acknowledged"}

Resolve(al, type, request, saw) ==
  WithEvent([al EXCEPT !.state = "resolved", !.suppressed = FALSE, !.version = @ + 1],
            type, request, saw)

_ensure_alert_shell(al, r) ==
  IF al.state = "absent" THEN [NoAlert EXCEPT !.state = "resolved", !.status = r.status, !.version = 1]
  ELSE al

\* A mutant: reopening leaves the version as it was.
MutReopened(al, r) ==
  WithEvent([al EXCEPT !.state = "open", !.gen = @ + 1, !.occurrences = 1, !.opened = r.at],
            IF al.gen = 0 THEN "opened" ELSE "reopened", None, 0)

\* A failing result on a resolved alert begins a new generation.
Reopened(al, r) ==
  WithEvent([al EXCEPT !.state = "open", !.gen = @ + 1, !.occurrences = 1, !.opened = r.at,
                       !.version = @ + 1],
            IF al.gen = 0 THEN "opened" ELSE "reopened", None, 0)

\* A mutant: any later arrival counts as news.
MutOutOfOrder(al, i) == FALSE

\* A result at or before the latest one is only counted.
OutOfOrder(al, i) == al.last # 0 /\ (results[i].at < al.at \/ (results[i].at = al.at /\ i <= al.last))

CountedLate(al, i) ==
  IF results[i].status = "ok" THEN al
  ELSE [al EXCEPT !.total = @ + 1, !.failures = @ \cup {i},
                  !.occurrences = IF Unresolved(al) /\ results[i].at >= al.opened THEN @ + 1 ELSE @]

CountedNow(al, i) ==
  LET r   == results[i]
      now == [al EXCEPT !.status = r.status, !.at = r.at, !.last = i]
      hit == [now EXCEPT !.suppressed = active_maintenance_windows(r.at) # {},
                         !.total = @ + 1, !.failures = @ \cup {i}]
  IN  CASE r.status = "ok" /\ ~Unresolved(al) -> [now EXCEPT !.suppressed = FALSE]
        [] r.status = "ok" /\ Unresolved(al)  -> Resolve(now, "automatic_recovery", None, 0)
        [] r.status # "ok" /\ Unresolved(al)  -> [hit EXCEPT !.occurrences = @ + 1]
        [] OTHER -> Reopened(hit, r)

\* The alerts after result i.
Applied(i) ==
  LET r == results[i] IN
  [a \in Pairs |->
     IF a[2] # r.key THEN alerts[a]
     ELSE IF a[1] # r.policy
          THEN IF Unresolved(alerts[a]) THEN Resolve(alerts[a], "policy_superseded", None, 0)
               ELSE alerts[a]
          ELSE IF (r.status = "ok" /\ alerts[a].state = "absent") \/ i \in observed THEN alerts[a]
               ELSE LET al == _ensure_alert_shell(alerts[a], r)
                    IN  IF OutOfOrder(al, i) THEN CountedLate(al, i) ELSE CountedNow(al, i)]

\* The events an update of the alerts has appended, for the notifications.
NewEvents(new) ==
  {[type |-> new[a].events[Len(new[a].events)].type, inWindow |-> new[a].suppressed, alert |-> a]
     : a \in {x \in Pairs : Len(new[x].events) > Len(alerts[x].events)}}

\* Alerts and the notifications of their events are written by one transaction.
SetAlerts(new) ==
  /\ alerts' = new
  /\ deliveries' = Enqueued(NewEvents(new))
  /\ Len(deliveries') <= NumDeliveries
  /\ UNCHANGED <<endpoints, senders, mail>>

\* apply_check_result_to_alert, all of it: a good result of a check without an
\* alert leaves no observation.
apply_check_result_to_alert(i) ==
  LET a == <<results[i].policy, results[i].key>>
  IN  /\ observed' = IF results[i].status = "ok" /\ alerts[a].state = "absent" THEN observed
                     ELSE observed \cup {i}
      /\ SetAlerts(Applied(i))

----------------------------------------------------------------------------
(* The agent: it makes results under the assignments it was given and submits
   each until it is acknowledged, and again when the answer is lost. *)

NewResult(p, rev, k, status, at) ==
  [by |-> "agent", policy |-> p, rev |-> rev, key |-> k, status |-> status, at |-> at,
   pending |-> None, count |-> 0]

\* A heartbeat assigns every check but the offline one.  The patch age is the
\* server's to evaluate; the agent does not know the type and calls it unknown.
make_result(k, status, skew) ==
  /\ Len(results) < budget.results /\ k \in budget.evaluates
  /\ CheckType[k] # "offline"
  /\ (status = "unknown") = (CheckType[k] = "patch_age")
  /\ \A i \in DOMAIN results :                                    \* once per interval
       results[i].by = "agent" /\ results[i].key = k => results[i].at # clock + skew
  /\ \E pr \in resolve_effective_policy[k] :
       results' = Append(results, NewResult(pr[1], pr[2], k, status, clock + skew))
  /\ UNCHANGED <<clock, lastSeen, patched, policies, windows, stored, observed, forgotten, alerts, actions,
                 txns, budget, notificationVars>>

Stale(r) == r.at + MaxAge < clock

Acceptable(r) == /\ <<r.policy, r.rev>> \in resolve_effective_policy[r.key]
                 /\ CheckType[r.key] # "offline"
                 /\ r.at <= clock + MaxSkew /\ ~Stale(r)

submit_monitoring_results(t, i) ==
  /\ txns[t] = Free /\ Cardinality({u \in Slots : txns[u] # Free}) < budget.slots
  /\ results[i].by = "agent"
  /\ Acceptable(results[i])
  /\ i \notin {stored[n] : n \in DOMAIN stored}              \* else a duplicate
  /\ txns' = [txns EXCEPT ![t] = [op |-> "submit", id |-> i]]
  /\ UNCHANGED <<clock, lastSeen, patched, policies, windows, results, stored, observed, forgotten, alerts,
                 actions, budget, notificationVars>>

\* The primary key of check_results turns a concurrent copy into a duplicate.
store_result(t) ==
  /\ txns[t].op = "submit"
  /\ txns' = [txns EXCEPT ![t] = Free]
  /\ IF txns[t].id \in {stored[n] : n \in DOMAIN stored}
     THEN UNCHANGED <<stored, observed, alerts, notificationVars>>
     ELSE stored' = Append(stored, txns[t].id) /\ apply_check_result_to_alert(txns[t].id)
  /\ UNCHANGED <<clock, lastSeen, patched, policies, windows, results, forgotten, actions, budget>>

heartbeat ==
  /\ lastSeen # clock
  /\ Spend("server")
  /\ lastSeen' = clock
  /\ UNCHANGED <<clock, patched, policies, windows, results, stored, observed, forgotten, alerts, actions,
                 txns, notificationVars>>

submit_inventory(scan, newest) ==
  /\ Spend("server")
  /\ patched' = [scan |-> scan, newest |-> newest]
  /\ UNCHANGED <<clock, lastSeen, policies, windows, results, stored, observed, forgotten, alerts, actions,
                 txns, notificationVars>>

----------------------------------------------------------------------------
(* The checks the server evaluates itself, in its sweep over the agents. *)

classify_numeric(value) == CASE value > Critical -> "critical"
                             [] value > Warning /\ value <= Critical -> "warning"
                             [] OTHER -> "ok"

Severity(s) == CASE s = "unknown" -> 0 [] s = "ok" -> 1 [] s = "warning" -> 2 [] s = "critical" -> 3

\* A change of status is believed after so many samples in a row.
_apply_hysteresis(raw, previous) ==
  LET current  == previous.status
      required == CASE current = "unknown" /\ raw = "ok" -> 1
                    [] Severity(raw) > Severity(current) /\ ~(current = "unknown" /\ raw = "ok")
                         -> RaiseSamples
                    [] OTHER -> ClearSamples
      count    == IF previous.pending = raw THEN previous.count + 1 ELSE 1
      settled  == [status |-> raw, pending |-> None, count |-> 0]
      waiting  == [status |-> current, pending |-> raw, count |-> count]
  IN  IF raw = "unknown" \/ raw = current THEN settled
      ELSE IF count >= required THEN settled ELSE waiting

\* The first sample: nothing before it.
FirstSample(raw) ==
  IF raw \in {"warning", "critical"} /\ RaiseSamples > 1
  THEN [status |-> "unknown", pending |-> raw, count |-> 1]
  ELSE [status |-> raw, pending |-> None, count |-> 0]

PatchStatus == IF patched.scan # "dated" \/ patched.newest > clock THEN "unknown"
               ELSE classify_numeric(clock - patched.newest)

RawStatus(k) == IF CheckType[k] = "offline" THEN classify_numeric(clock - lastSeen) ELSE PatchStatus

\* The latest result of a check by the time of its evaluation.
Latest(k) ==
  LET rows == {n \in {stored[m] : m \in DOMAIN stored} : results[n].key = k}
  IN  {n \in rows : \A m \in rows : results[m].at < results[n].at
                                    \/ (results[m].at = results[n].at /\ m <= n)}

\* evaluate_offline_checks and evaluate_patch_age_checks of one check.
evaluate_checks(t, k) ==
  /\ txns[t] = Free /\ Cardinality({u \in Slots : txns[u] # Free}) < budget.slots
  /\ CheckType[k] # "agent" /\ Len(results) < budget.results
  /\ Spend("server")
  /\ \E pr \in resolve_effective_policy[k] :
       LET before == {n \in Latest(k) : results[n].policy = pr[1] /\ results[n].rev = pr[2]}
           sample == IF before = {} THEN FirstSample(RawStatus(k))
                     ELSE _apply_hysteresis(RawStatus(k), results[CHOOSE n \in before : TRUE])
       IN  /\ \A n \in before : clock >= results[n].at + Interval
           /\ results' = Append(results, [by |-> "server", policy |-> pr[1], rev |-> pr[2], key |-> k,
                                          at |-> clock, status |-> sample.status, pending |-> sample.pending,
                                          count |-> sample.count])
           /\ txns' = [txns EXCEPT ![t] = [op |-> "sweep", id |-> Len(results')]]
  /\ UNCHANGED <<clock, lastSeen, patched, policies, windows, stored, observed, forgotten, alerts, actions,
                 notificationVars>>

\* An unknown patch age is stored and opens no alert.
store_evaluation(t) ==
  LET i == txns[t].id IN
  /\ txns[t].op = "sweep"
  /\ txns' = [txns EXCEPT ![t] = Free]
  /\ stored' = Append(stored, i)
  /\ IF CheckType[results[i].key] = "patch_age" /\ results[i].status = "unknown"
     THEN UNCHANGED <<observed, alerts, notificationVars>>
     ELSE apply_check_result_to_alert(i)
  /\ UNCHANGED <<clock, lastSeen, patched, policies, windows, results, forgotten, actions, budget>>

\* Retention keeps the latest received of each check.
Doomed(n) ==
  Cardinality({m \in DOMAIN stored :
                 results[stored[m]].key = results[stored[n]].key /\ m > n}) >= KeepResults

prune_check_results ==
  LET doomed == {n \in DOMAIN stored : Doomed(n)}
  IN  /\ doomed # {}
      /\ \E kept \in Ascending(DOMAIN stored \ doomed) :
           stored' = [n \in DOMAIN kept |-> stored[kept[n]]]
      /\ observed' = observed \ {stored[n] : n \in doomed}
      /\ forgotten' = forgotten \cup {i \in observed \ observed' :
                                       results[i].by # "server" /\ ~Stale(results[i])}
      /\ UNCHANGED <<clock, lastSeen, patched, policies, windows, results, alerts, actions, txns,
                     budget, notificationVars>>

----------------------------------------------------------------------------
(* Operators: policies, windows, alerts. *)

create_monitoring_policy(p, checks) ==
  /\ Spend("edit")
  /\ policies[p].version = 0
  /\ Cardinality({q \in Policies : policies[q].present}) < MaxPolicies
  /\ policies' = [policies EXCEPT ![p] =
                    [present |-> TRUE, enabled |-> TRUE, version |-> 1, checks |-> checks]]
  /\ UNCHANGED <<clock, lastSeen, patched, windows, results, stored, observed, forgotten, alerts, actions,
                 txns, notificationVars>>

\* The alerts of a policy after its active checks became `keys`.
PolicyAlerts(p, keys, type) ==
  [a \in Pairs |-> IF a[1] = p /\ a[2] \notin keys /\ Unresolved(alerts[a])
                   THEN Resolve(alerts[a], type, None, 0) ELSE alerts[a]]

\* The next version is unique: of two concurrent revisions one is refused.
revise_monitoring_policy(p, checks, enabled) ==
  /\ Spend("edit")
  /\ policies[p].present
  /\ policies' = [policies EXCEPT ![p] = [present |-> TRUE, enabled |-> enabled,
                                          version |-> @.version + 1, checks |-> checks]]
  /\ SetAlerts(PolicyAlerts(p, IF enabled THEN {k \in Keys : checks[k] = "on"} ELSE {},
                            "policy_revised"))
  /\ UNCHANGED <<clock, lastSeen, patched, windows, results, stored, observed, forgotten, actions, txns>>

delete_monitoring_policy(p) ==
  /\ Spend("edit")
  /\ policies[p].present
  /\ policies' = [policies EXCEPT ![p].present = FALSE]
  /\ SetAlerts(PolicyAlerts(p, {}, "policy_deleted"))
  /\ UNCHANGED <<clock, lastSeen, patched, windows, results, stored, observed, forgotten, actions, txns>>

create_maintenance_window(w) ==
  /\ Spend("window")
  /\ w \notin windows /\ Cardinality(windows) < MaxWindows
  /\ windows' = windows \cup {w}
  /\ UNCHANGED <<clock, lastSeen, patched, policies, results, stored, observed, forgotten, alerts, actions,
                 txns, notificationVars>>

delete_maintenance_window(w) ==
  /\ w \in windows
  /\ windows' = windows \ {w}
  /\ UNCHANGED <<clock, lastSeen, patched, policies, results, stored, observed, forgotten, alerts, actions,
                 txns, budget, notificationVars>>

\* An operator looks at an alert and decides; the request carries its version.
compose_action(r, a, kind) ==
  /\ Spend("act")
  /\ actions[r] = None /\ alerts[a].state # "absent"
  /\ \A q \in ActionRequests : actions[q] = None => q >= r
  /\ actions' = [actions EXCEPT ![r] = [alert |-> a, kind |-> kind, version |-> alerts[a].version,
                                        saw |-> alerts[a].gen]]
  /\ UNCHANGED <<clock, lastSeen, patched, policies, windows, results, stored, observed, forgotten, alerts,
                 txns, notificationVars>>

\* _lock_alert_action lets a request through once and only at its version.
Admits(r) ==
  LET al == alerts[actions[r].alert]
  IN  /\ \A n \in DOMAIN al.events : al.events[n].request # r
      /\ al.version = actions[r].version

Act(r, kind, Update(_)) ==
  /\ actions[r] # None /\ actions[r].kind = kind /\ Admits(r)
  /\ SetAlerts([alerts EXCEPT ![actions[r].alert] = Update(@)])
  /\ UNCHANGED <<clock, lastSeen, patched, policies, windows, results, stored, observed, forgotten, actions,
                 txns, budget>>

acknowledge_monitoring_alert(r) ==
  /\ actions[r] # None /\ alerts[actions[r].alert].state = "open"
  /\ Act(r, "acknowledge", LAMBDA al :
           WithEvent([al EXCEPT !.state = "acknowledged", !.version = @ + 1],
                     "acknowledged", r, actions[r].saw))

\* Assigning and commenting write an event that notifies nobody.
Annotate(r, kind, type) ==
  Act(r, kind, LAMBDA al : WithEvent([al EXCEPT !.version = @ + 1], type, r, actions[r].saw))

assign_monitoring_alert(r) == Annotate(r, "assign", "assigned")
comment_on_monitoring_alert(r) == Annotate(r, "comment", "commented")

resolve_monitoring_alert(r) ==
  /\ actions[r] # None /\ alerts[actions[r].alert].state # "resolved"
  /\ Act(r, "resolve", LAMBDA al : Resolve(al, "manual_resolution", r, actions[r].saw))

\* A tick is an interval of the checks; a request ends within one.
Tick ==
  /\ clock < budget.clock /\ \A t \in Slots : txns[t] = Free
  /\ clock' = clock + 1
  /\ UNCHANGED <<lastSeen, patched, policies, windows, results, stored, observed, forgotten, alerts, actions,
                 txns, budget, notificationVars>>

----------------------------------------------------------------------------

AgentNext ==
  \/ \E k \in Keys, s \in AgentStatuses, skew \in Skews : make_result(k, s, skew)
  \/ \E t \in Slots : \/ \E i \in DOMAIN results : submit_monitoring_results(t, i)
                      \/ store_result(t)
                      \/ \E k \in Keys : evaluate_checks(t, k)
                      \/ store_evaluation(t)
  \/ heartbeat
  \/ submit_inventory("unusable", 0)
  \/ \E newest \in {0, 1} : submit_inventory("dated", newest)
  \/ (budget.ops["prune"] > 0 /\ prune_check_results)
  \/ Tick

OperatorNext ==
  \/ \E p \in Policies : \/ \E c \in CheckLists : \/ create_monitoring_policy(p, c)
                                                  \/ \E on \in BOOLEAN : revise_monitoring_policy(p, c, on)
                         \/ delete_monitoring_policy(p)
  \/ \E w \in WindowTerms : create_maintenance_window(w) \/ delete_maintenance_window(w)
  \/ \E r \in ActionRequests :
       \/ \E a \in Pairs, kind \in {"acknowledge", "assign", "comment", "resolve"} :
            compose_action(r, a, kind)
       \/ acknowledge_monitoring_alert(r) \/ assign_monitoring_alert(r)
       \/ comment_on_monitoring_alert(r) \/ resolve_monitoring_alert(r)

SenderStep(w) ==
  /\ (\E kind \in {"email", "webhook"} : claim_due(w, kind)) \/ send(w) \/ _complete_attempt(w)
  /\ UNCHANGED alertVars

TimePasses == time_passes /\ UNCHANGED alertVars

SendersNext ==
  \/ \E w \in Workers : SenderStep(w)
  \/ \E w \in Workers : Spend("stop") /\ sender_stops(w)
       /\ UNCHANGED <<clock, lastSeen, patched, policies, windows, results, stored, observed, forgotten,
                      alerts, actions, txns>>
  \/ TimePasses
  \/ /\ Spend("retry")
     /\ \E i \in DOMAIN deliveries, r \in RetryRequests :
          retry_monitoring_alert_email_delivery(i, r) \/ retry_monitoring_alert_webhook_delivery(i, r)
     /\ UNCHANGED <<clock, lastSeen, patched, policies, windows, results, stored, observed, forgotten,
                    alerts, actions, txns>>
  \/ /\ Spend("hook")
     /\ \E e \in Endpoints :
          \/ \E term \in EndpointTerms : create_webhook_endpoint(e, term) \/ update_webhook_endpoint(e, term)
          \/ rotate_webhook_endpoint_secret(e) \/ delete_webhook_endpoint(e)
     /\ UNCHANGED <<clock, lastSeen, patched, policies, windows, results, stored, observed, forgotten,
                    alerts, actions, txns>>

Next == AgentNext \/ OperatorNext \/ SendersNext

\* The senders poll for as long as the server runs, and time passes.
Fairness == WF_vars(TimePasses) /\ \A w \in Workers : WF_vars(SenderStep(w))

Spec == Init /\ [][Next]_vars /\ Fairness

----------------------------------------------------------------------------
(* Properties. *)

(* The rows keep their form: the enumerations of models.py, a stored result
   that was made, an alert that counts results that exist. *)
TypeOK ==
  /\ policies \in [Policies -> MonitoringPolicy]
  /\ \A i \in DOMAIN results : results[i] \in CheckResult
  /\ \A n \in DOMAIN stored : stored[n] \in DOMAIN results
  /\ observed \subseteq DOMAIN results
  /\ \A a \in Pairs : DOMAIN alerts[a] = DOMAIN NoAlert /\ alerts[a].failures \subseteq DOMAIN results
  /\ \A i \in DOMAIN deliveries : deliveries[i] \in Delivery
  /\ \A e \in Endpoints : endpoints[e] \in WebhookEndpoint

(* An operator's action reaches the generation the operator was looking at,
   never a later opening of the same alert, and it is applied once although the
   request may be sent again. *)
ActedOnWhatWasSeen ==
  \A a \in Pairs : \A n \in DOMAIN alerts[a].events :
    LET ev == alerts[a].events[n] IN
    ev.request # None => /\ ev.gen = ev.saw
                         /\ \A m \in DOMAIN alerts[a].events : alerts[a].events[m].request = ev.request => m = n

(* An alert follows the results it has observed, in whatever order they arrived:
   it shows the newest, it is resolved when that one is good, and it has counted
   each failing one once, however often the agent submits it and whether or not
   its row has since been pruned.  The exception is a result that was pruned while
   the server would still take it: retention counts rows, acceptance goes by age. *)
AlertFollowsResults ==
  \A a \in Pairs :
    LET al == alerts[a] IN
    /\ al.status = "ok" => ~Unresolved(al)
    /\ \A i \in observed : <<results[i].policy, results[i].key>> = a =>
         results[i].at < al.at \/ (results[i].at = al.at /\ i <= al.last)
    /\ al.failures \cap forgotten = {} => al.total = Cardinality(al.failures)
    /\ al.occurrences <= al.total
=============================================================================
