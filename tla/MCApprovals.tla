---------------------------- MODULE MCApprovals ----------------------------
(* A small tenant: ann asks and administers, bob and cyd approve and review,
   one endpoint, and the policies its administrators may write. *)
EXTENDS Approvals, TLC

CONSTANTS ann, bob, cyd, a1, s1, c1, p1, t1, t2

MCOperators == {ann, bob, cyd}
MCKinds     == [typed |-> {}, privileged |-> {}, script |-> {"powershell"}]
MCSiteOf    == [a \in {a1} |-> s1]
MCClientOf  == [s \in {s1} |-> c1]
MCSlots     == {t1, t2}
Symmetry    == Permutations(MCSlots)

Reviewer == [disabled |-> FALSE, platform |-> FALSE, role |-> "operator",
             member |-> "client_operator", script |-> s1]

MCInitialAccount ==
  [o \in MCOperators |->
     CASE o = ann -> [Reviewer EXCEPT !.role = "admin", !.member = "client_admin"]
       [] o = bob -> [Reviewer EXCEPT !.platform = TRUE, !.member = "none"]
       [] o = cyd -> Reviewer]
MCMayBecome == [o \in MCOperators |->
                  IF o = cyd THEN {[Reviewer EXCEPT !.script = "none"]} ELSE {}]

\* Dual control for the endpoint's client, and a narrower policy with one reviewer.
DualControl == [scope |-> "client", scope_id |-> c1, kinds |-> {"powershell"}, required |-> 2,
                ttl |-> 1, enabled |-> TRUE, optIn |-> TRUE]
OneReviewer == [DualControl EXCEPT !.scope = "agent", !.scope_id = a1, !.required = 1,
                                   !.optIn = FALSE]
MCPolicyTerms     == {DualControl, OneReviewer}
MCInitialPolicies == <<DualControl, None>>

Bound(r, v, c, e) == [requests |-> r, overrides |-> v, commands |-> c, edits |-> e]
\* Each instance follows one or two authorizations through what may end them.
MCBounds == {Bound(1, 0, 3, 1), Bound(0, 1, 3, 1), Bound(1, 1, 2, 0),
             Bound(2, 0, 2, 0), Bound(1, 0, 2, 2), Bound(0, 2, 2, 0)}
=============================================================================
