------------------------------ MODULE MCAlerts ------------------------------
(* A global policy and one of the endpoint's own; a check of the agent, the
   offline check and the patch age check.  Each instance gives some of the
   actors something to do, the last ones the agent with its outbox. *)
EXTENDS Monitoring

CONSTANTS t1, t2, w1, w2, ops, hook

MCSlots   == {t1, t2}
MCWorkers == {w1, w2}
MCScope   == [p \in {1, 2} |-> IF p = 1 THEN 0 ELSE 3]
MCType    == [k \in {"cpu", "offline", "patch_age"} |-> IF k = "cpu" THEN "agent" ELSE k]

MCCheckOrder == <<"cpu", "disk">>

On(ks) == [k \in {"cpu", "offline", "patch_age"} |-> IF k \in ks THEN "on" ELSE "absent"]
MCCheckLists == {On({"cpu"}), [On({}) EXCEPT !["cpu"] = "off"], On({})}
MCInitialPolicies == [p \in {1, 2} |-> IF p = 1 THEN On({"cpu", "offline", "patch_age"}) ELSE None]

MCWindows == {[from |-> 0, to |-> 2, days |-> {}], [from |-> 0, to |-> 3, days |-> {1}]}
Named == [https |-> TRUE, literal |-> FALSE, answers |-> {"global", "private", "none"}]
Plain == [https |-> FALSE, literal |-> FALSE, answers |-> {"global"}]
Inner == [https |-> TRUE, literal |-> TRUE, answers |-> {"private"}]
MCEndpointTerms == {[enabled |-> TRUE, events |-> {"opened", "automatic_recovery"}, url |-> Named],
                    [enabled |-> FALSE, events |-> {"opened"}, url |-> Named],
                    [enabled |-> TRUE, events |-> {"opened"}, url |-> Plain],
                    [enabled |-> TRUE, events |-> {"opened"}, url |-> Inner]}

Nothing == [c \in Classes \cup {"loss", "crash", "reassign"} |-> 0]
Given(mails, slots, made, ticks, evaluated, allowed) ==
  [mail |-> mails, slots |-> slots, results |-> made, clock |-> ticks, evaluates |-> evaluated,
   checkIns |-> FALSE, ops |-> allowed]
Agents(loss, crash, reassign) ==
  [mail |-> FALSE, slots |-> 0, results |-> 0, clock |-> 0, evaluates |-> {}, checkIns |-> TRUE,
   ops |-> [Nothing EXCEPT !["loss"] = loss, !["crash"] = crash, !["reassign"] = reassign]]
MCBudgets ==
  {Given(FALSE, 2, 4, 3, {"cpu"}, [Nothing EXCEPT !["prune"] = 1]),
   Given(FALSE, 1, 3, 2, {"cpu"}, [Nothing EXCEPT !["act"] = 2]),
   Given(FALSE, 2, 2, 1, {"cpu"}, [Nothing EXCEPT !["edit"] = 2]),
   Given(FALSE, 1, 2, 2, {"cpu"}, [Nothing EXCEPT !["server"] = 4, !["window"] = 1]),
   Given(FALSE, 2, 3, 2, {"patch_age"}, [Nothing EXCEPT !["server"] = 2]),
   Given(FALSE, 1, 2, 1, {"cpu"}, [Nothing EXCEPT !["edit"] = 1, !["act"] = 2]),
   Given(TRUE, 1, 1, 0, {"cpu"}, [Nothing EXCEPT !["retry"] = 1, !["stop"] = 2]),
   Given(TRUE, 1, 2, 1, {"cpu"}, Nothing),
   Given(FALSE, 1, 1, 0, {"cpu"}, [Nothing EXCEPT !["hook"] = 2, !["retry"] = 1]),
   Agents(2, 0, 2), Agents(0, 1, 3)}
=============================================================================
