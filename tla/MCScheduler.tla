---------------------------- MODULE MCScheduler ----------------------------
(* A site of two endpoints, a task for the site and one for an endpoint that do
   the same work, and a global and a site patch policy.  A day has two hours of
   two minutes. *)
EXTENDS Scheduler

CONSTANTS x, y, site, s1, w1, w2, o1

MCSiteAgents == [s \in {site} |-> {x, y}]
At(from, to, step) == [from |-> from, to |-> to, step |-> step]
Always  == [minute |-> {At(0, 59, 1)}, hour |-> {At(0, 23, 1)}, days |-> 0..3]
Hourly  == [Always EXCEPT !.minute = {At(1, 1, 1)}]
Never   == [Always EXCEPT !.minute = {At(2, 59, 5)}]
Once    == [Always EXCEPT !.days = {0}]   \* 29 February on a Monday: again after the search
Nothing == [all |-> FALSE, kbs |-> {}, ids |-> {}]
All     == [all |-> TRUE, kbs |-> {}, ids |-> {}]

Script == [enabled |-> TRUE, target |-> x, kind |-> "powershell", script |-> s1, payload |-> Nothing,
           cron |-> Always, zone |-> 0, concurrency |-> "skip", misfire |-> "skip"]
MCTaskTerms == {Script,
                [Script EXCEPT !.target = site, !.cron = Hourly, !.zone = 1, !.misfire = "run_once"],
                [Script EXCEPT !.kind = "install_updates", !.script = None, !.payload = All],
                [Script EXCEPT !.kind = "reboot", !.script = None],
                [Script EXCEPT !.kind = "registry_edit", !.script = None],
                [Script EXCEPT !.cron = Once], [Script EXCEPT !.cron = Never]}
MCEdits == {[enabled |-> TRUE, cron |-> Hourly, concurrency |-> "allow"],
            [enabled |-> FALSE, cron |-> Always, concurrency |-> "skip"]}

KB1 == [kb |-> "kb1", id |-> "u1", class |-> "security", released |-> 0]
KB2 == [kb |-> "kb2", id |-> "u2", class |-> "drivers", released |-> None]
NoKB == [kb |-> None, id |-> "u3", class |-> "security", released |-> 1]
Same == [kb |-> "kb1", id |-> "u4", class |-> "drivers", released |-> 0]
MCUpdates == {KB1, KB2, NoKB, Same}
MCScans == {[missing |-> <<KB1, KB2, Same>>, usable |-> TRUE, stamped |-> TRUE],
            [missing |-> <<NoKB>>, usable |-> TRUE, stamped |-> FALSE],
            [missing |-> << >>, usable |-> FALSE, stamped |-> TRUE]}
Rule(action, classes, kbs, days) == [action |-> action, classes |-> classes, kbs |-> kbs, days |-> days]
MCRevisionTerms ==
  {[rules |-> <<Rule("deny", None, {"kb2"}, 0), Rule("defer", {"security"}, None, 1)>>,
    default |-> "deny", window |-> FALSE],
   [rules |-> <<Rule("approve", {"security"}, None, 0)>>, default |-> "approve", window |-> TRUE]}
MCPayloads == {All, [all |-> FALSE, kbs |-> {"kb1"}, ids |-> {}],
               [all |-> FALSE, kbs |-> {}, ids |-> {"u2"}]}
MCPatchScope  == [p \in {1, 2} |-> IF p = 1 THEN 0 ELSE 2]
MCPatchCovers == [p \in {1, 2} |-> {x, y}]
MCGoverned == {<<x, "registry_edit">>}

Ops(task, run, install, patch, agent) ==
  [task |-> task, run |-> run, install |-> install, patch |-> patch, agent |-> agent]
MCBudgets ==
  {[serial |-> TRUE, clock |-> 3, ops |-> Ops(2, 1, 0, 0, 0)],
   [serial |-> TRUE, clock |-> 2, ops |-> Ops(1, 0, 0, 0, 1)],
   [serial |-> FALSE, clock |-> 2, ops |-> Ops(1, 1, 0, 0, 0)],
   [serial |-> FALSE, clock |-> 2, ops |-> Ops(2, 0, 0, 0, 0)],
   [serial |-> TRUE, clock |-> 1, ops |-> Ops(1, 0, 0, 1, 1)],
   [serial |-> TRUE, clock |-> 2, ops |-> Ops(0, 0, 1, 2, 1)],
   [serial |-> TRUE, clock |-> 2, ops |-> Ops(0, 0, 1, 1, 2)]}
=============================================================================
