----------------------------- MODULE Approvals -----------------------------
(***************************************************************************)
(* Two-person authorization of commands: approval policies, requests and   *)
(* decisions (server/app/core/approvals.py, api/approvals.py), emergency   *)
(* overrides (core/emergency_overrides.py, api/emergency_overrides.py) and *)
(* the gate a dispatch passes (api/management.py).                         *)
(*                                                                         *)
(* A handler reads its rows without a lock and decides from what it read;  *)
(* its first audit.record takes the lock of the audit chain and keeps it   *)
(* to the commit.  So a handler is two steps, what it loads and what it    *)
(* commits, and the handlers of other requests run in between.  The        *)
(* exception is a decision, which locks the request before it reads it.    *)
(***************************************************************************)
EXTENDS Naturals, Sequences, FiniteSets

CONSTANTS
  Operators, Agents, Payloads,
  Kinds,              \* [typed, privileged, script : sets of command kinds]
  SiteOf, ClientOf,   \* the site of an agent, the client of a site
  InitialAccount,     \* Operators -> Account
  MayBecome,          \* Operators -> the accounts administrators may make of it
  PolicyTerms,        \* the policies administrators write
  InitialPolicies,    \* the policies in force at the start, oldest first
  MaxOpenRequests,    \* MAX_OPEN_REQUESTS_PER_OPERATOR
  MaxOpenOverrides,   \* MAX_OPEN_OVERRIDES_PER_OPERATOR
  MaxOutstanding,     \* settings.max_outstanding_commands_per_agent
  OverrideTtl,
  None,
  (* bounds of the model *)
  Askers,             \* the operators that ask: raise, activate and dispatch
  Slots,              \* handlers the server may be running at once
  MaxClock,
  Bounds              \* [requests, overrides, commands, edits]: the instances

AllKinds == Kinds.typed \cup Kinds.privileged \cup Kinds.script

\* What a command is bound to: binding_digest over agent, kind and payload.
Binding == [agent : Agents, kind : AllKinds, payload : Payloads]
binding_digest(agent, kind, payload) ==
  [agent |-> agent, kind |-> kind, payload |-> payload]

Account == [disabled : BOOLEAN, platform : BOOLEAN,
            role   : {"readonly", "operator", "admin"},
            member : {"none", "client_readonly", "client_operator", "client_admin"},
            script : {"none", "global"} \cup Agents \cup {SiteOf[a] : a \in Agents}]

ApprovalPolicy == [scope : {"global", "client", "site", "agent"}, scope_id : {None} \cup
                     Agents \cup {SiteOf[a] : a \in Agents}
                     \cup {ClientOf[SiteOf[a]] : a \in Agents},
                   kinds : SUBSET AllKinds, required : 1..2, ttl : Nat,
                   enabled : BOOLEAN, optIn : BOOLEAN]

ASSUME ApprovalsAssumption ==
  /\ IsFiniteSet(Operators) /\ OverrideTtl \in Nat /\ None \notin {"approval", "override"}
  /\ PolicyTerms \subseteq ApprovalPolicy
  /\ InitialPolicies \in Seq(ApprovalPolicy \cup {None})

ApprovalRequest ==
  [status : {"absent", "pending", "approved", "rejected", "cancelled", "expired", "consumed"},
   by : Operators \cup {None}, bind : Binding \cup {None}, required : 0..2, exp : Nat,
   decisions : [Operators -> {"none", "approve", "reject"}]]

EmergencyOverride ==
  [status : {"absent", "active", "consumed", "expired", "revoked"},
   by : Operators \cup {None}, bind : Binding \cup {None}, exp : Nat,
   notice : {"none", "notified", "failed"}, reviewer : Operators \cup {None}]

Command == [outstanding : BOOLEAN, by : Operators, bind : Binding, issued : Nat,
            approval : Nat \cup {None}, override : Nat \cup {None}]

NoRequest  == [status |-> "absent", by |-> None, bind |-> None, required |-> 0, exp |-> 0,
               decisions |-> [o \in Operators |-> "none"]]
NoOverride == [status |-> "absent", by |-> None, bind |-> None, exp |-> 0,
               notice |-> "none", reviewer |-> None]

VARIABLES
  clock,
  accounts,     \* Operators -> Account
  policies,     \* the sequence numbers of the rows give created_at
  requests, overrides, commands,
  txns,         \* handlers between their load and their commit
  edits         \* changes of policies and accounts still to come

vars == <<clock, accounts, policies, requests, overrides, commands, txns, edits>>

Free == [op |-> "free", who |-> None, on |-> None, bind |-> None, cites |-> None, now |-> 0,
         required |-> 0]
Txn == [op : {"free", "raise", "cancel", "expire_request", "activate", "notify", "revoke",
              "expire_override", "review", "dispatch"},
        who : Operators \cup {None}, on : Nat \cup {None}, bind : Binding \cup {None},
        cites : {"approval", "override", None}, now : Nat, required : 0..2]

Init ==
  /\ clock = 0
  /\ accounts = InitialAccount
  /\ policies = InitialPolicies
  /\ txns = [t \in Slots |-> Free]
  /\ \E bound \in Bounds : /\ requests = [r \in 1..bound.requests |-> NoRequest]
                          /\ overrides = [v \in 1..bound.overrides |-> NoOverride]
                          /\ commands = [c \in 1..bound.commands |-> None]
                          /\ edits = bound.edits

(***************************************************************************)
(* Tenancy and authorization                                               *)
(***************************************************************************)
ClientRank == [none |-> 0, client_readonly |-> 1, client_operator |-> 2, client_admin |-> 3]

\* tenant_scope.assert_client_action: a platform admin, or a membership of the rank.
MayAct(o, minimum) ==
  \/ accounts[o].platform
  \/ ClientRank[accounts[o].member] >= ClientRank[minimum]

MaySee(o) == MayAct(o, "client_readonly")

authorize_command(o, agent, kind) ==
  /\ accounts[o].role # "readonly"
  /\ \/ kind \in Kinds.typed
     \/ kind \in Kinds.privileged /\ accounts[o].role = "admin"
     \/ kind \in Kinds.script /\ accounts[o].script \in {"global", SiteOf[agent], agent}

\* Every handler runs as an enabled account (get_current_operator, require_role).
SignedIn(o, roles) == ~accounts[o].disabled /\ accounts[o].role \in roles

(***************************************************************************)
(* Policies                                                                *)
(***************************************************************************)
Governs(p, agent, kind) ==
  /\ policies[p] # None
  /\ policies[p].enabled
  /\ kind \in policies[p].kinds
  /\ policies[p].scope_id = CASE policies[p].scope = "global" -> None
                              [] policies[p].scope = "client" -> ClientOf[SiteOf[agent]]
                              [] policies[p].scope = "site"   -> SiteOf[agent]
                              [] policies[p].scope = "agent"  -> agent

Specificity == [agent |-> 3, site |-> 2, client |-> 1, global |-> 0]

\* The most specific match, the oldest among equals.
resolve_policy(agent, kind) ==
  LET matched == {p \in DOMAIN policies : Governs(p, agent, kind)} IN
  IF matched = {} THEN None
  ELSE policies[CHOOSE p \in matched : \A q \in matched \ {p} :
         \/ Specificity[policies[p].scope] > Specificity[policies[q].scope]
         \/ Specificity[policies[p].scope] = Specificity[policies[q].scope] /\ p < q]

\* _assert_policy_admin: every scoped target here is the one client.
PolicyAdmin(o, scope) ==
  /\ SignedIn(o, {"admin"})
  /\ IF scope = "global" THEN accounts[o].platform ELSE MayAct(o, "client_admin")

create_approval_policy(o) == \E terms \in PolicyTerms :
  /\ edits > 0
  /\ PolicyAdmin(o, terms.scope)
  /\ \E p \in DOMAIN policies :
       /\ policies[p] = None
       /\ \A q \in DOMAIN policies : policies[q] = None => p <= q
       /\ policies' = [policies EXCEPT ![p] = terms]
  /\ edits' = edits - 1
  /\ UNCHANGED <<clock, accounts, requests, overrides, commands, txns>>

\* Scope and name are fixed; the terms are replaced in the row alone.
update_approval_policy(o) == \E p \in DOMAIN policies, terms \in PolicyTerms :
  /\ edits > 0
  /\ policies[p] # None /\ policies[p] # terms
  /\ PolicyAdmin(o, policies[p].scope)
  /\ policies' = [policies EXCEPT ![p] =
                    [terms EXCEPT !.scope = policies[p].scope, !.scope_id = policies[p].scope_id]]
  /\ edits' = edits - 1
  /\ UNCHANGED <<clock, accounts, requests, overrides, commands, txns>>

delete_approval_policy(o) == \E p \in DOMAIN policies :
  /\ edits > 0
  /\ policies[p] # None
  /\ PolicyAdmin(o, policies[p].scope)
  /\ policies' = [policies EXCEPT ![p] = None]
  /\ edits' = edits - 1
  /\ UNCHANGED <<clock, accounts, requests, overrides, commands, txns>>

\* An administrator disables an account, changes its role, membership or grant.
ChangeAccount(o) == \E a \in MayBecome[o] \ {accounts[o]} :
  /\ edits > 0
  /\ accounts' = [accounts EXCEPT ![o] = a]
  /\ edits' = edits - 1
  /\ UNCHANGED <<clock, policies, requests, overrides, commands, txns>>

(***************************************************************************)
(* The two steps of a handler                                              *)
(***************************************************************************)
Load(handler) == \E t \in DOMAIN txns :
  /\ txns[t] = Free
  /\ txns' = [txns EXCEPT ![t] = handler]
  /\ UNCHANGED <<clock, accounts, policies, requests, overrides, commands, edits>>

Done(t) == txns' = [txns EXCEPT ![t] = Free]

\* A later refusal, an error or a restart of the server: nothing is written.
Abort(t) ==
  /\ txns[t] # Free
  /\ Done(t)
  /\ UNCHANGED <<clock, accounts, policies, requests, overrides, commands, edits>>

Lapsed(row) == row.exp <= clock

(***************************************************************************)
(* Approval requests                                                       *)
(***************************************************************************)
LiveStatuses == {"pending", "approved"}

\* expire_if_due in _load_request, list_approval_requests and the gate.
RequestDue(r) == requests[r].status \in LiveStatuses /\ Lapsed(requests[r])

read_due_request == \E r \in DOMAIN requests :
  /\ RequestDue(r)
  /\ Load([Free EXCEPT !.op = "expire_request", !.on = r])

expire_request(t) ==
  /\ txns[t].op = "expire_request"
  /\ requests' = [requests EXCEPT ![txns[t].on].status = "expired"]
  /\ Done(t)
  /\ UNCHANGED <<clock, accounts, policies, overrides, commands, edits>>

OpenRequests(o) ==
  {r \in DOMAIN requests : requests[r].by = o /\ requests[r].status \in LiveStatuses}

create_approval_request(o) == \E b \in Binding :
  LET policy == resolve_policy(b.agent, b.kind) IN
  /\ SignedIn(o, {"operator", "admin"})
  /\ MayAct(o, "client_operator")
  /\ authorize_command(o, b.agent, b.kind)
  /\ policy # None
  /\ Cardinality(OpenRequests(o)) < MaxOpenRequests
  /\ Load([Free EXCEPT !.op = "raise", !.who = o, !.bind = b, !.required = policy.required,
                       !.now = clock + policy.ttl])

insert_approval_request(t) ==
  /\ txns[t].op = "raise"
  /\ \E r \in DOMAIN requests :
       /\ requests[r] = NoRequest
       /\ \A q \in DOMAIN requests : requests[q] = NoRequest => r <= q
       /\ requests' = [requests EXCEPT ![r] =
            [@ EXCEPT !.status = "pending", !.by = txns[t].who, !.bind = txns[t].bind,
                      !.required = txns[t].required, !.exp = txns[t].now]]
  /\ Done(t)
  /\ UNCHANGED <<clock, accounts, policies, overrides, commands, edits>>

\* Somebody who could have dispatched the command, and is not its requester.
approver_eligibility(o, r) ==
  /\ ~accounts[o].disabled
  /\ o # requests[r].by
  /\ MayAct(o, "client_operator")
  /\ authorize_command(o, requests[r].bind.agent, requests[r].bind.kind)

\* decision_refusal = None
MayDecide(o, r) ==
  /\ requests[r].status = "pending" /\ ~Lapsed(requests[r])
  /\ o # requests[r].by
  /\ requests[r].decisions[o] = "none"

approvers(r) == {o \in Operators : requests[r].decisions[o] = "approve"}

\* _load_request with the lock: what is read stays true to the commit.
record_decision(o, r, verdict) ==
  /\ SignedIn(o, {"operator", "admin"}) /\ MaySee(o)
  /\ MayDecide(o, r)
  /\ approver_eligibility(o, r)
  /\ LET recorded == Cardinality(approvers(r)) + 1 IN
     requests' = [requests EXCEPT ![r] =
       [@ EXCEPT !.decisions[o] = verdict,
                 !.status = IF verdict = "reject" THEN "rejected"
                            ELSE IF recorded >= requests[r].required THEN "approved"
                            ELSE requests[r].status]]
  /\ UNCHANGED <<clock, accounts, policies, overrides, commands, txns, edits>>

approve_request(o) == \E r \in DOMAIN requests : record_decision(o, r, "approve")
reject_request(o)  == \E r \in DOMAIN requests : record_decision(o, r, "reject")

cancel_request(o) == \E r \in DOMAIN requests :
  /\ SignedIn(o, {"operator", "admin"}) /\ MaySee(o)
  /\ requests[r].by = o \/ MayAct(o, "client_admin")
  /\ requests[r].status \in LiveStatuses /\ ~Lapsed(requests[r])
  /\ Load([Free EXCEPT !.op = "cancel", !.on = r])

write_cancelled(t) ==
  /\ txns[t].op = "cancel"
  /\ requests' = [requests EXCEPT ![txns[t].on].status = "cancelled"]
  /\ Done(t)
  /\ UNCHANGED <<clock, accounts, policies, overrides, commands, edits>>

(***************************************************************************)
(* Emergency overrides                                                     *)
(***************************************************************************)
OverrideDue(v) == overrides[v].status = "active" /\ Lapsed(overrides[v])

read_due_override == \E v \in DOMAIN overrides :
  /\ OverrideDue(v)
  /\ Load([Free EXCEPT !.op = "expire_override", !.on = v])

expire_override(t) ==
  /\ txns[t].op = "expire_override"
  /\ overrides' = [overrides EXCEPT ![txns[t].on].status = "expired"]
  /\ Done(t)
  /\ UNCHANGED <<clock, accounts, policies, requests, commands, edits>>

activator_eligibility(o, agent, kind) ==
  LET policy == resolve_policy(agent, kind) IN
  /\ ~accounts[o].disabled
  /\ policy # None
  /\ policy.optIn
  /\ MayAct(o, "client_admin")
  /\ authorize_command(o, agent, kind)

OpenOverrides(o) == {v \in DOMAIN overrides :
  overrides[v].by = o /\ overrides[v].status = "active" /\ ~Lapsed(overrides[v])}

activate_emergency_override(o) == \E b \in Binding :
  /\ SignedIn(o, {"operator", "admin"}) /\ MaySee(o)
  /\ activator_eligibility(o, b.agent, b.kind)
  /\ Cardinality(OpenOverrides(o)) < MaxOpenOverrides
  /\ Load([Free EXCEPT !.op = "activate", !.who = o, !.bind = b, !.now = clock + OverrideTtl])

\* The row is committed before the notice is sent by the same handler.
insert_emergency_override(t) ==
  /\ txns[t].op = "activate"
  /\ \E v \in DOMAIN overrides :
       /\ overrides[v] = NoOverride
       /\ \A q \in DOMAIN overrides : overrides[q] = NoOverride => v <= q
       /\ overrides' = [overrides EXCEPT ![v] =
            [@ EXCEPT !.status = "active", !.by = txns[t].who, !.bind = txns[t].bind,
                      !.exp = txns[t].now]]
       /\ txns' = [txns EXCEPT ![t] = [Free EXCEPT !.op = "notify", !.on = v]]
  /\ UNCHANGED <<clock, accounts, policies, requests, commands, edits>>

\* _notify: sent to at least one recipient, or a coded reason why not.
record_notice(t) == \E outcome \in {"notified", "failed"} :
  /\ txns[t].op = "notify"
  /\ overrides' = [overrides EXCEPT ![txns[t].on].notice = outcome]
  /\ Done(t)
  /\ UNCHANGED <<clock, accounts, policies, requests, commands, edits>>

revoke_emergency_override(o) == \E v \in DOMAIN overrides :
  /\ SignedIn(o, {"operator", "admin"}) /\ MaySee(o)
  /\ overrides[v].by = o \/ MayAct(o, "client_admin")
  /\ overrides[v].status = "active" /\ ~Lapsed(overrides[v])
  /\ Load([Free EXCEPT !.op = "revoke", !.on = v])

write_revoked(t) ==
  /\ txns[t].op = "revoke"
  /\ overrides' = [overrides EXCEPT ![txns[t].on].status = "revoked"]
  /\ Done(t)
  /\ UNCHANGED <<clock, accounts, policies, requests, commands, edits>>

review_emergency_override(o) == \E v \in DOMAIN overrides :
  /\ SignedIn(o, {"operator", "admin"}) /\ MaySee(o)
  /\ overrides[v] # NoOverride /\ overrides[v].by # o
  /\ MayAct(o, "client_admin")
  /\ overrides[v].reviewer = None
  /\ Load([Free EXCEPT !.op = "review", !.who = o, !.on = v])

write_reviewed(t) ==
  /\ txns[t].op = "review"
  /\ overrides' = [overrides EXCEPT ![txns[t].on].reviewer = txns[t].who]
  /\ Done(t)
  /\ UNCHANGED <<clock, accounts, policies, requests, commands, edits>>

(***************************************************************************)
(* Dispatch                                                                *)
(***************************************************************************)

\* approvals_core.consumption_refusal allows o to spend request r on binding b.
ApprovalSatisfied(r, o, b) ==
  /\ requests[r].bind = b
  /\ requests[r].by = o
  /\ ~Lapsed(requests[r])
  /\ requests[r].status = "approved"
  /\ Cardinality({a \in approvers(r) : approver_eligibility(a, r)}) >= requests[r].required

\* overrides_core.consumption_refusal allows o to spend override v on binding b.
OverrideSatisfied(v, o, b) ==
  /\ overrides[v].bind = b
  /\ overrides[v].by = o
  /\ ~Lapsed(overrides[v])
  /\ overrides[v].status = "active"
  /\ activator_eligibility(o, b.agent, b.kind)

\* What the gate lets a dispatch of b by o spend; nothing when no policy governs it.
apply_approval_policy(o, b) ==
  IF resolve_policy(b.agent, b.kind) = None THEN {[cites |-> None, on |-> None]}
  ELSE      {[cites |-> "approval", on |-> r] :
               r \in {r \in DOMAIN requests : ApprovalSatisfied(r, o, b)}}
       \cup {[cites |-> "override", on |-> v] :
               v \in {v \in DOMAIN overrides : OverrideSatisfied(v, o, b)}}

Outstanding(agent) ==
  {c \in DOMAIN commands : commands[c] # None /\ commands[c].bind.agent = agent
                           /\ commands[c].outstanding}

\* Everything a dispatch reads; the trust state and the capabilities of the
\* agent are those of CommandDelivery and let it pass here.
dispatch_command(o) == \E b \in Binding : \E spends \in apply_approval_policy(o, b) :
  /\ SignedIn(o, {"readonly", "operator", "admin"}) /\ MaySee(o)
  /\ authorize_command(o, b.agent, b.kind)
  /\ Cardinality(Outstanding(b.agent)) < MaxOutstanding
  /\ Load([Free EXCEPT !.op = "dispatch", !.who = o, !.bind = b, !.now = clock,
                       !.cites = spends.cites, !.on = spends.on])

\* Mutants: an assignment for the conditional update; one that only refuses a replay.
MutSpendAssigns(t) == TRUE
MutSpendRefusesReplay(t) ==
  CASE txns[t].cites = "approval" -> requests[txns[t].on].status # "consumed"
    [] txns[t].cites = "override" -> overrides[txns[t].on].status # "consumed"
    [] OTHER -> TRUE

\* _spend_approval and _spend_emergency_override: conditional updates.
Spendable(t) ==
  CASE txns[t].cites = "approval" -> requests[txns[t].on].status = "approved"
    [] txns[t].cites = "override" -> overrides[txns[t].on].status = "active"
    [] OTHER -> TRUE

Spend(t) ==
  /\ requests' = IF txns[t].cites = "approval"
                 THEN [requests EXCEPT ![txns[t].on].status = "consumed"] ELSE requests
  /\ overrides' = IF txns[t].cites = "override"
                  THEN [overrides EXCEPT ![txns[t].on].status = "consumed"] ELSE overrides

\* The spending and the command are one transaction.
insert_command(t) ==
  /\ txns[t].op = "dispatch"
  /\ Spendable(t)
  /\ Spend(t)
  /\ \E c \in DOMAIN commands :
       /\ commands[c] = None
       /\ \A d \in DOMAIN commands : commands[d] = None => c <= d
       /\ commands' = [commands EXCEPT ![c] =
            [outstanding |-> TRUE, by |-> txns[t].who, bind |-> txns[t].bind,
             issued |-> txns[t].now,
             approval |-> IF txns[t].cites = "approval" THEN txns[t].on ELSE None,
             override |-> IF txns[t].cites = "override" THEN txns[t].on ELSE None]]
  /\ Done(t)
  /\ UNCHANGED <<clock, accounts, policies, edits>>

\* The command reaches a terminal status (CommandDelivery).
CommandEnds(c) ==
  /\ commands[c] # None /\ commands[c].outstanding
  /\ commands' = [commands EXCEPT ![c].outstanding = FALSE]
  /\ UNCHANGED <<clock, accounts, policies, requests, overrides, txns, edits>>

Tick ==
  /\ clock < MaxClock
  /\ clock' = clock + 1
  /\ UNCHANGED <<accounts, policies, requests, overrides, commands, txns, edits>>

Next ==
  \/ \E o \in Operators :
       \/ create_approval_policy(o) \/ update_approval_policy(o) \/ delete_approval_policy(o)
       \/ ChangeAccount(o)
       \/ approve_request(o) \/ reject_request(o) \/ cancel_request(o)
       \/ revoke_emergency_override(o) \/ review_emergency_override(o)
  \/ \E o \in Askers :
       \/ create_approval_request(o) \/ activate_emergency_override(o)
       \/ dispatch_command(o)
  \/ read_due_request \/ read_due_override
  \/ \E t \in DOMAIN txns :
       \/ insert_approval_request(t) \/ write_cancelled(t) \/ expire_request(t)
       \/ insert_emergency_override(t) \/ record_notice(t) \/ write_revoked(t)
       \/ write_reviewed(t) \/ expire_override(t)
       \/ insert_command(t) \/ Abort(t)
  \/ \E c \in DOMAIN commands : CommandEnds(c)
  \/ Tick

Spec == Init /\ [][Next]_vars

----------------------------------------------------------------------------
TypeOK ==
  /\ clock \in Nat /\ edits \in Nat
  /\ accounts \in [Operators -> Account]
  /\ policies \in [DOMAIN InitialPolicies -> ApprovalPolicy \cup {None}]
  /\ requests \in Seq(ApprovalRequest)
  /\ overrides \in Seq(EmergencyOverride)
  /\ commands \in Seq(Command \cup {None})
  /\ txns \in [Slots -> Txn]

Created == {c \in DOMAIN commands : commands[c] # None}

(* A command that cites an approval or an override is the command that was *)
(* reviewed, ordered by the person who asked, issued before the deadline;  *)
(* an approval carries the required number of approvers other than that    *)
(* person and no rejection (consumption_refusal at dispatch, after any     *)
(* sequence of decisions, edits and expiries).  No other command cites it, *)
(* however many dispatches do at once (_spend_approval: "exactly once").   *)
AuthorizedCommand == \A c \in Created :
  /\ commands[c].approval # None =>
       LET request == requests[commands[c].approval] IN
       /\ request.bind = commands[c].bind /\ request.by = commands[c].by
       /\ commands[c].issued < request.exp
       /\ Cardinality({o \in Operators \ {request.by} : request.decisions[o] = "approve"})
            >= request.required
       /\ \A o \in Operators : request.decisions[o] # "reject"
  /\ commands[c].override # None =>
       LET override == overrides[commands[c].override] IN
       /\ override.bind = commands[c].bind /\ override.by = commands[c].by
       /\ commands[c].issued < override.exp
  /\ \A d \in Created \ {c} :
       /\ commands[c].approval # None => commands[c].approval # commands[d].approval
       /\ commands[c].override # None => commands[c].override # commands[d].override

(* What ended never becomes usable again, and only a usable approval or    *)
(* override is ever spent: one withdrawn between the gate and the commit   *)
(* of a dispatch is not (models.py: "everything else is terminal").        *)
NeverRevived == [][
  /\ \A r \in DOMAIN requests :
       requests[r].status \notin LiveStatuses \cup {"absent"} =>
         requests'[r].status \notin (LiveStatuses \cup {"absent", "consumed"}) \ {requests[r].status}
  /\ \A v \in DOMAIN overrides :
       overrides[v].status \notin {"active", "absent"} =>
         overrides'[v].status \notin {"active", "absent", "consumed"} \ {overrides[v].status}]_vars
=============================================================================
