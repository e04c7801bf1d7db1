----------------------------- MODULE Monitoring -----------------------------
(***************************************************************************)
(* Monitoring on both sides: the server's policies, results, alerts and    *)
(* notifications, and the agent's outbox.  What lies between them is in    *)
(* each: Alerts takes results late, twice and in any order, CheckOutbox    *)
(* meets a server that takes or refuses a batch.                           *)
(***************************************************************************)
EXTENDS Alerts, CheckOutbox

MonitoringInit == Init /\ OutboxInit

MonitoringNext ==
  \/ Next /\ UNCHANGED outboxVars
  \/ OutboxNext /\ UNCHANGED <<clock, lastSeen, patched, policies, windows, results, stored,
                               observed, forgotten, alerts, actions, txns, notificationVars>>

MonitoringSpec ==
  MonitoringInit /\ [][MonitoringNext]_<<vars, outboxVars>> /\ Fairness /\ OutboxFairness
=============================================================================
