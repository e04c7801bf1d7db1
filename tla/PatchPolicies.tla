--------------------------- MODULE PatchPolicies ---------------------------
(***************************************************************************)
(* Windows Update approval (server/app/core/patch_policies.py), the        *)
(* compliance derived from it (core/patch_compliance.py) and the handlers  *)
(* that edit policies (api/management.py).  The gate an installation       *)
(* passes and the compliance an operator reads are two uses of the same    *)
(* rules, on the same snapshot of the endpoint's missing updates.          *)
(***************************************************************************)
EXTENDS Naturals, FiniteSets, Sequences

CONSTANTS
  Agents,
  PatchPolicyIds,      \* numbered in the order of created_at
  PatchScope,          \* policy -> 0 global, 1 client, 2 site, 3 agent
  PatchCovers,         \* policy -> the agents its scope covers
  RevisionTerms,       \* what operators write in a revision
  Updates,             \* the updates an endpoint may miss: [kb, id, class, released]
  Scans,               \* what agents send: [missing (a list), usable, stamped]
  StaleAfter,          \* patch_compliance_stale_after_hours
  None

\* The scan gives every update its Windows Update identity (scan_windows.go:75);
\* several may bear one KB number.
ASSUME ScansAssumption ==
  \A s \in Scans : \A i \in DOMAIN s.missing :
    s.missing[i].kb = None => s.missing[i].id # None

VARIABLES
  patchPolicies,       \* policy -> [present, enabled, revisions]
  snapshots,           \* agent -> the latest windows_updates section, or None
  openWindows          \* agents inside an active maintenance window

patchVars == <<patchPolicies, snapshots, openWindows>>

PatchInit ==
  /\ patchPolicies = [p \in PatchPolicyIds |-> [present |-> FALSE, enabled |-> FALSE, revisions |-> << >>]]
  /\ snapshots = [a \in Agents |-> None]
  /\ openWindows = {}

----------------------------------------------------------------------------
(* Rules *)

current_revision(p) == patchPolicies[p].revisions[Len(patchPolicies[p].revisions)]

PatchApplicable(a) ==
  {p \in PatchPolicyIds : patchPolicies[p].present /\ patchPolicies[p].enabled /\ a \in PatchCovers[p]}

\* The whole of the narrowest policy, the oldest among equals; nothing is merged.
resolve_effective_patch_policy(a) ==
  LET found == PatchApplicable(a) IN
  IF found = {} THEN None
  ELSE current_revision(CHOOSE p \in found : \A q \in found \ {p} :
         PatchScope[p] > PatchScope[q] \/ (PatchScope[p] = PatchScope[q] /\ p < q))

_facet_matches(values, actual) == values = None \/ actual \in values

_rule_matches(rule, u) ==
  _facet_matches(rule.classes, u.class) /\ _facet_matches(rule.kbs, u.kb)

_defer_satisfied(u, days, now) == u.released # None /\ now >= u.released + days

\* The first rule that matches decides, then the default.
evaluate_update(rev, u, now) ==
  LET hits == {i \in DOMAIN rev.rules : _rule_matches(rev.rules[i], u)}
      rule == rev.rules[CHOOSE i \in hits : \A j \in hits : i <= j]
  IN  IF hits = {} THEN rev.default
      ELSE IF rule.action # "defer" THEN rule.action
      ELSE IF _defer_satisfied(u, rule.days, now) THEN "approve" ELSE "defer"

latest_missing_updates(a) == IF snapshots[a] = None THEN << >> ELSE snapshots[a].missing

Approved(rev, rows, now) ==
  {rows[i] : i \in {j \in DOMAIN rows : evaluate_update(rev, rows[j], now) = "approve"}}

\* The row a name stands for: the last that bears it.
NamedRow(rows, field, name) ==
  {i \in DOMAIN rows : /\ rows[i][field] = name
                       /\ \A j \in DOMAIN rows : rows[j][field] = name => j <= i}

----------------------------------------------------------------------------
(* The gate of an installation *)

\* A mutant: an update without a KB number is not sent by its identity.
Mut_evaluate_patch_install(a, payload, now) ==
  LET rev == resolve_effective_patch_policy(a)
      rows == latest_missing_updates(a)
      kbs == {u.kb : u \in Approved(rev, rows, now)} \ {None}
      outcome == IF rev.window /\ a \notin openWindows THEN "maintenance_window_required"
                 ELSE IF kbs = {} THEN "no_approved_updates" ELSE "allowed"
  IN  IF rev = None THEN [outcome |-> "allowed", payload |-> payload]
      ELSE [outcome |-> outcome, payload |-> [all |-> FALSE, kbs |-> kbs, ids |-> {}]]

\* install_all is narrowed to what is approved; a named update that is not
\* missing, or not approved, refuses the whole request.
evaluate_patch_install(a, payload, now) ==
  LET rev  == resolve_effective_patch_policy(a)
      rows == latest_missing_updates(a)
      good == Approved(rev, rows, now)
      narrowed == [all |-> FALSE, kbs |-> {u.kb : u \in good} \ {None},
                   ids |-> {u.id : u \in {g \in good : g.kb = None}} \ {None}]
      refused(field, name) == \A i \in NamedRow(rows, field, name) : rows[i] \notin good
      blocked == \/ \E kb \in payload.kbs : refused("kb", kb)
                 \/ \E id \in payload.ids : refused("id", id)
      outcome == IF rev.window /\ a \notin openWindows THEN "maintenance_window_required"
                 ELSE IF payload.all /\ narrowed.kbs = {} /\ narrowed.ids = {} THEN "no_approved_updates"
                 ELSE IF ~payload.all /\ blocked THEN "denied" ELSE "allowed"
  IN  IF rev = None THEN [outcome |-> "allowed", payload |-> payload]
      ELSE [outcome |-> outcome, payload |-> IF payload.all THEN narrowed ELSE payload]

----------------------------------------------------------------------------
(* Compliance *)

_usable(s) == s # None /\ s.usable

\* Missing updates the policy defers or denies leave an endpoint compliant.
endpoint_compliance(a, now) ==
  LET rev == resolve_effective_patch_policy(a) IN
  IF rev = None THEN "exempt"
  ELSE IF ~_usable(snapshots[a]) THEN "unknown"
  ELSE IF now > snapshots[a].at + StaleAfter THEN "stale"
  ELSE IF Approved(rev, snapshots[a].missing, now) # {} THEN "non_compliant"
  ELSE "compliant"

----------------------------------------------------------------------------
(* Handlers *)

\* The name is unique in its scope, which a policy id stands for.
create_patch_policy(p) == \E terms \in RevisionTerms :
  /\ ~patchPolicies[p].present
  /\ patchPolicies' = [patchPolicies EXCEPT ![p] =
       [present |-> TRUE, enabled |-> TRUE, revisions |-> <<terms>>]]
  /\ UNCHANGED <<snapshots, openWindows>>

revise_patch_policy(p) == \E terms \in RevisionTerms, enabled \in BOOLEAN :
  /\ patchPolicies[p].present
  /\ patchPolicies' = [patchPolicies EXCEPT ![p].revisions = Append(@, terms), ![p].enabled = enabled]
  /\ UNCHANGED <<snapshots, openWindows>>

delete_patch_policy(p) ==
  /\ patchPolicies[p].present
  /\ patchPolicies' = [patchPolicies EXCEPT ![p] =
       [present |-> FALSE, enabled |-> FALSE, revisions |-> << >>]]
  /\ UNCHANGED <<snapshots, openWindows>>

\* The newest section of an endpoint, unless it repeats what is stored: a payload
\* that carries its own scan time never does.
store_section(a, s, now) ==
  LET old == snapshots[a]
      same == old # None /\ old.missing = s.missing /\ old.usable = s.usable
              /\ old.stamped = s.stamped /\ (s.stamped => old.at = now)
  IN  snapshots' = IF same THEN snapshots
                   ELSE [snapshots EXCEPT ![a] = [missing |-> s.missing, usable |-> s.usable,
                                                  stamped |-> s.stamped, at |-> now]]

\* The agent sends what it misses; a scan that failed is stored as well.
submit_inventory(a, now) == \E s \in Scans :
  /\ store_section(a, s, now)
  /\ UNCHANGED <<patchPolicies, openWindows>>

\* A maintenance window of the agent begins or ends.
window_turns(a) ==
  /\ openWindows' = IF a \in openWindows THEN openWindows \ {a} ELSE openWindows \cup {a}
  /\ UNCHANGED <<patchPolicies, snapshots>>
=============================================================================
