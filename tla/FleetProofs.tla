---------------------------- MODULE FleetProofs ----------------------------
(***************************************************************************)
(* Proofs about Fleet, for every number of endpoints, releases, relays,    *)
(* machines and tokens and every budget of steps.                          *)
(*                                                                         *)
(* The three parts share only the budget, so each has an inductive         *)
(* invariant of its own over FleetNext, and a step of another part leaves  *)
(* its variables alone.                                                    *)
(***************************************************************************)
EXTENDS Fleet, FiniteSetTheorems, TLAPS

fleetVars == <<vars, routeVars, enrollVars>>

BudgetInv == budget \in Instance /\ (budget.serial => budget.slots <= 1)

\* What a step leaves of a budget when it spends one of its steps.
SameInstance == /\ budget' \in Instance /\ budget'.serial = budget.serial
                /\ budget'.slots = budget.slots /\ budget'.polls = budget.polls

-----------------------------------------------------------------------------
(* Rollouts *)

ReportTypes == \A m \in sent : m.on \in Releases /\ m.agent \in Agents /\ m.status \in Outcomes

RolloutTypes ==
  /\ releases \in [Releases -> AgentUpdateRelease]
  /\ attempts \in [Releases -> [Agents -> AgentUpdateAttemptStatus]]
  /\ issued \in [Releases -> [Agents -> Nat]]
  /\ ReportTypes
  /\ txns = [t \in Slots |-> txns[t]]

\* A release has terms from its publication on, and attempts only then.
Published ==
  \A r \in Releases :
    /\ releases[r].state # "absent" => releases[r].terms \in ReleaseTerms
    /\ releases[r].state = "absent" => \A a \in Agents : attempts[r][a] = "none"

\* An endpoint of a release has an attempt exactly if one update was signed for it.
SignedOnce ==
  \A r \in Releases, a \in Agents :
    /\ issued[r][a] <= 1
    /\ issued[r][a] = 1 <=> attempts[r][a] # "none"

\* What a handler found when it loaded the release.
Handled(t) ==
  txns[t].op # "free" =>
    /\ txns[t].on \in Releases /\ releases[txns[t].on].state # "absent"
    /\ txns[t].picked \subseteq Agents /\ txns[t].percent \in 0..100
    /\ txns[t].row.state \in AgentUpdateReleaseState \ {"absent", "halted"}

Judged(r) == evaluate_halt(r, attempts[r])

\* With one request at a time a handler's release stays as it was loaded, and
\* what the reports say of a release has been acted on.
OneAtATime ==
  budget.serial =>
    /\ \A t, u \in Slots : txns[t].op # "free" /\ txns[u].op # "free" => t = u
    /\ \A t \in Slots : txns[t].op # "free" => txns[t].row.state = releases[txns[t].on].state
    /\ \A r \in Releases : releases[r].state # "absent" /\ Judged(r) => releases[r].state = "halted"

RolloutInv == /\ RolloutTypes /\ Published /\ SignedOnce
              /\ (\A t \in Slots : Handled(t)) /\ OneAtATime

\* What a handler picked lies below the stage it was asked for.
Picked(t) ==
  txns[t].op # "free" => \A a \in txns[t].picked : Bucket[txns[t].on][a] < txns[t].percent

\* A serial handler holds the stage the release shows, and advances to no lower one.
Ahead(t) ==
  txns[t].op # "free" =>
    /\ txns[t].row.percent = releases[txns[t].on].percent
    /\ txns[t].op = "advance" => txns[t].percent >= releases[txns[t].on].percent

StageInv ==
  /\ reached \in [Releases -> 0..100]
  /\ \A r \in Releases : releases[r].state = "absent" => reached[r] = 0
  /\ \A r \in Releases, a \in Agents : issued[r][a] = 1 => Bucket[r][a] < reached[r]
  /\ \A t \in Slots : Picked(t)
  /\ budget.serial => /\ \A r \in Releases : releases[r].percent = reached[r]
                      /\ \A t \in Slots : Ahead(t)

-----------------------------------------------------------------------------
(* Routes *)

Forward == [relay : Relays \cup {None}, key : RelayKeys \cup {None}, stamp : Int, queued : Int]

ForwardTypes ==
  /\ forwards \in [Nonces -> Forward]
  /\ \A n \in Nonces : forwards[n] # NoForward => forwards[n].relay \in Relays
  /\ receipts \in [Nonces -> Nat \cup {None}]
  /\ handled \in [Nonces -> Nat]
  /\ verifying \subseteq [id : 1..2, nonce : Nonces, age : 0..MaxStall]

Signed(n) == forwards[n] # NoForward

\* The age of a request's timestamp, as old as something that happened to the
\* request at least, but for the skew of the relay's clock.
Stamped(n, age) == forwards[n].stamp >= age - ClockSkew \/ forwards[n].stamp > ClockSkew

Verified ==
  \A v \in verifying :
    /\ Signed(v.nonce) /\ Stamped(v.nonce, v.age)
    /\ \A w \in verifying : w.nonce = v.nonce => v.age <= w.age + 2 * ClockSkew
    /\ receipts[v.nonce] # None => receipts[v.nonce] <= v.age + 2 * ClockSkew

Received ==
  \A n \in Nonces : receipts[n] # None => Signed(n) /\ Stamped(n, receipts[n])

\* Without its receipt a handled request is too old to be verified again.
HandledOnce ==
  \A n \in Nonces :
    handled[n] # 0 =>
      /\ handled[n] = 1 /\ Signed(n)
      /\ \/ receipts[n] # None
         \/ forwards[n].stamp > ClockSkew /\ \A v \in verifying : v.nonce # n

ForwardInv == ForwardTypes /\ Verified /\ Received /\ HandledOnce

RouteTypes ==
  /\ route = [manifest |-> [relays |-> route.manifest.relays, left |-> route.manifest.left],
              marks |-> route.marks, keys |-> route.keys]
  /\ identity = [manifest |-> [relays |-> identity.manifest.relays, left |-> identity.manifest.left],
                 keys |-> identity.keys]
  /\ call = [at |-> call.at, todo |-> call.todo, last |-> call.last, missed |-> call.missed]
  /\ route.manifest.left \in Nat /\ identity.manifest.left \in Nat /\ call.missed \in Nat
  /\ call.at \in {"rest", "trying"}
  /\ keyring = [k \in CommandKeys |-> keyring[k]]

ReachInv ==
  /\ RouteTypes
  /\ call.missed + route.manifest.left <= ManifestTTL
  /\ call.missed + identity.manifest.left <= ManifestTTL
  /\ call.at = "trying" => call.last = "none" /\ budget.polls
  /\ call.at = "trying" /\ call.todo # <<>> => route.manifest.left > 0
  /\ call.last = "failed" => route.manifest.left > 0
  /\ \E k \in CommandKeys : keyring[k] = "active"

-----------------------------------------------------------------------------
(* Enrollment *)

Rows(t) == {n \in DOMAIN enrolled : enrolled[n].token = t}
RowsOf(m) == {n \in DOMAIN enrolled : enrolled[n].machine = m}

\* The requests of a machine that it no longer waits for.
Orphans(m) == {h \in Handlers : redemptions[h].phase # "free" /\ redemptions[h].by = m
                                /\ machines[m].on # h}

TokenTypes ==
  /\ etokens = [t \in EnrollmentTokens |-> etokens[t]]
  /\ \A t \in EnrollmentTokens :
       /\ etokens[t].max \in Nat /\ etokens[t].uses \in Nat /\ etokens[t].revoked \in BOOLEAN
       /\ etokens[t] = [present |-> etokens[t].present, max |-> etokens[t].max, uses |-> etokens[t].uses,
                        left |-> etokens[t].left, revoked |-> etokens[t].revoked, host |-> etokens[t].host]

RequestTypes ==
  /\ redemptions = [h \in Handlers |-> redemptions[h]]
  /\ \A h \in Handlers :
       redemptions[h] = [by |-> redemptions[h].by, token |-> redemptions[h].token,
                         phase |-> redemptions[h].phase, unexpired |-> redemptions[h].unexpired]

EnrollTypes ==
  /\ TokenTypes /\ RequestTypes
  /\ enrolled \in Seq(EnrolledAgent)
  /\ machines \in [Machines -> Machine]
  /\ abandoned \in [Machines -> Nat]

Requested ==
  /\ \A h \in Handlers : redemptions[h].phase # "free" =>
       redemptions[h].by \in Machines /\ redemptions[h].token \in EnrollmentTokens
  /\ \A m \in Machines :
       /\ machines[m].step = "waiting" <=> machines[m].on # None
       /\ machines[m].on # None => /\ redemptions[machines[m].on].phase # "free"
                                   /\ redemptions[machines[m].on].by = m
                                   /\ machines[m].identity = 0 /\ machines[m].got = 0
       /\ machines[m].got # 0 => machines[m].step = "answered"
       /\ machines[m].step = "answered" => machines[m].identity = 0

Counted ==
  /\ \A t \in EnrollmentTokens :
       /\ etokens[t].uses = Cardinality(Rows(t)) /\ etokens[t].uses <= etokens[t].max
       /\ ~etokens[t].present => etokens[t].max = 0
  /\ \A n \in DOMAIN enrolled : ~enrolled[n].revoked

Unused(m) == RowsOf(m) \ {machines[m].identity, machines[m].got}

\* A row, or a request that may still become one, without a machine that uses it.
Ledger(m) ==
  /\ machines[m].identity # 0 => machines[m].identity \in RowsOf(m)
  /\ machines[m].got # 0 => machines[m].got \in RowsOf(m)
  /\ Cardinality(Unused(m)) + Cardinality(Orphans(m)) <= abandoned[m]

Accounted == \A m \in Machines : Ledger(m)

EnrollInv == EnrollTypes /\ Requested /\ Counted /\ Accounted

-----------------------------------------------------------------------------
(* Budgets *)

\* A step that spends, or that leaves the budget alone, keeps the instance.
LEMMA Spent ==
  ASSUME BudgetInv, NEW class \in FleetClasses, Spend(class)
  PROVE  BudgetInv' /\ SameInstance
BY DEF BudgetInv, SameInstance, Instance, Spend

\* Spending nothing leaves the budget an instance of the same kind.
LEMMA Unspent ==
  ASSUME BudgetInv, UNCHANGED budget
  PROVE  BudgetInv' /\ SameInstance
BY DEF BudgetInv, SameInstance

\* The classes each part spends from.
LEMMA ClassesKnown ==
  {"publish", "advance", "steer", "report", "agent", "change", "switch", "rotate", "sign", "deliver",
   "save_fault", "origin_fault", "restart", "link", "mint", "withdraw", "hand", "refuse", "lose",
   "save", "halt"} \subseteq FleetClasses
BY DEF FleetClasses, Classes

\* A step of a release handler or an agent spends at most its own part of the budget.
LEMMA RolloutBudget == ASSUME BudgetInv, Next PROVE BudgetInv' /\ SameInstance
<1>1. ASSUME \E class \in {"publish", "advance", "steer", "report", "agent"} : Spend(class)
      PROVE  BudgetInv' /\ SameInstance
  BY <1>1, Spent, ClassesKnown
<1>2. (\E class \in {"publish", "advance", "steer", "report", "agent"} : Spend(class)) \/ UNCHANGED budget
  BY DEF Next, publish_release, advance_load, halt_load, pause_load, resume_load, _load_release,
         advance_rollout, halt_release, pause_release, resume_release, Committing, rolled_back,
         agent_updates, report_self_update, heartbeat, set_trust
<1> QED BY <1>1, <1>2, Unspent

\* So does a step of the relays and the endpoint.
LEMMA RouteBudget == ASSUME BudgetInv, RouteNext PROVE BudgetInv' /\ SameInstance
<1> DEFINE R == {"change", "switch", "rotate", "sign", "deliver", "save_fault", "origin_fault",
                 "restart", "link"}
<1>1. ASSUME \E class \in R : Spend(class) PROVE BudgetInv' /\ SameInstance
  BY <1>1, Spent, ClassesKnown
<1> HIDE DEF R
<1>2. (\E class \in R : Spend(class)) \/ UNCHANGED budget
  <2>0. {"change", "switch", "rotate", "sign", "deliver", "save_fault", "origin_fault",
         "restart", "link"} \subseteq R
    BY DEF R
  <2>1. ASSUME Administers PROVE (\E class \in R : Spend(class)) \/ UNCHANGED budget
    BY <2>0, <2>1 DEF Administers, Reads, Commits, create_region, change_region_status, set_region_policy,
       register_relay, change_relay_status, register_relay_key, retire_relay_key, revoke_relay_key,
       clear_region_policy
  <2>2. ASSUME tryRelay \/ tryOrigin PROVE (\E class \in R : Spend(class)) \/ UNCHANGED budget
    BY <2>0, <2>2 DEF tryRelay, tryOrigin, applyRoutingAndKeys
  <2> QED BY <2>0, <2>1, <2>2 DEF RouteNext, relay_routing_switched, cmd_generate, cmd_activate, cmd_retire, Rotates,
       relay_signs, verify_forward, RelayIngressMiddleware, prune, checkIn, endpoint_restarts,
       link_changes, time_passes
<1> QED BY <1>1, <1>2, Unspent

\* So does a step of an enrollment.
LEMMA EnrollBudget == ASSUME BudgetInv, EnrollNext PROVE BudgetInv' /\ SameInstance
<1> DEFINE R == {"mint", "withdraw", "hand", "refuse", "lose", "save", "halt"}
<1>1. ASSUME \E class \in R : Spend(class) PROVE BudgetInv' /\ SameInstance
  BY <1>1, Spent, ClassesKnown
<1>2. (\E class \in R : Spend(class)) \/ UNCHANGED budget
  BY DEF EnrollNext, create_enrollment_token, create_installer_package, Mint, revoke_enrollment_token,
         hand_token, enroll_begins, read_token, redeem_enrollment_token, enroll_refused,
         ensureEnrolled, loadSession, request_lost, saveIdentity, saveIdentity_fails,
         ClearEnrollmentToken, machine_stops, token_ages
<1> QED BY <1>1, <1>2, Unspent

\* The budget stays an instance, and keeps what it says about handlers and polls.
LEMMA FleetBudget == ASSUME BudgetInv, [FleetNext]_fleetVars PROVE BudgetInv' /\ SameInstance
BY RolloutBudget, RouteBudget, EnrollBudget, Unspent DEF FleetNext, fleetVars, vars

-----------------------------------------------------------------------------
(* Rollouts: what a step may do *)

\* A verdict depends on the terms and on which attempts have an outcome.
LEMMA SameJudgement ==
  ASSUME NEW r \in Releases, releases'[r].terms = releases[r].terms,
         \A a \in Agents : attempts'[r][a] # attempts[r][a] =>
                             attempts'[r][a] \notin Outcomes /\ attempts[r][a] \notin Outcomes
  PROVE  Judged(r)' <=> Judged(r)
<1>1. {a \in Agents : attempts'[r][a] \in Outcomes} = {a \in Agents : attempts[r][a] \in Outcomes}
  OBVIOUS
<1>2. {a \in Agents : attempts'[r][a] \in {"rolled_back", "failed"}}
        = {a \in Agents : attempts[r][a] \in {"rolled_back", "failed"}}
  BY DEF Outcomes
<1> QED BY <1>1, <1>2 DEF Judged, evaluate_halt, _status_counts

\* A slot is free for a serial instance only when every slot is.
LEMMA SlotFree ==
  ASSUME BudgetInv, budget.serial, Cardinality({u \in Slots : txns[u].op # "free"}) < budget.slots
  PROVE  Calm
<1> DEFINE S == {u \in Slots : txns[u].op # "free"}
<1>1. IsFiniteSet(S)
  BY FS_Subset, RolloutAssumption
<1>2. Cardinality(S) \in Nat /\ budget.slots \in Nat /\ budget.slots <= 1
  BY <1>1, FS_CardinalityType DEF BudgetInv, Instance
<1>3. Cardinality(S) = 0
  BY <1>2
<1>4. S = {}
  BY <1>1, <1>3, FS_EmptySet
<1> QED BY <1>4 DEF Calm

\* A handler that loads a release, whatever it is about to do with it.
LEMMA LoadKeeps ==
  ASSUME RolloutInv, BudgetInv, SameInstance, NEW t \in Slots, NEW r \in Releases, NEW class,
         NEW op \in {"advance", "halt", "pause", "resume"}, NEW percent \in 0..100,
         NEW picked \in SUBSET Agents, _load_release(t, r, class), Loaded(t, op, r, percent, picked),
         releases[r].state # "halted"
  PROVE  RolloutInv'
<1>1. /\ txns'[t].op = op /\ txns'[t].on = r /\ txns'[t].row.state = releases[r].state
      /\ txns'[t].percent = percent /\ txns'[t].picked = picked
      /\ \A u \in Slots : u # t => txns'[u] = txns[u]
      /\ txns' = [u \in Slots |-> txns'[u]]
  BY DEF Loaded, RolloutInv, RolloutTypes, ReportTypes
<1>2. /\ releases' = releases /\ attempts' = attempts /\ issued' = issued /\ sent' = sent
      /\ releases[r].state # "absent"
      /\ Cardinality({u \in Slots : txns[u].op # "free"}) < budget.slots
  BY DEF _load_release
<1>3. RolloutTypes' /\ Published' /\ SignedOnce'
  BY <1>1, <1>2 DEF RolloutInv, RolloutTypes, ReportTypes, Published, SignedOnce
<1>4. ASSUME NEW u \in Slots PROVE Handled(u)'
  BY <1>1, <1>2, SMTT(30) DEF RolloutInv, RolloutTypes, ReportTypes, AgentUpdateRelease, AgentUpdateReleaseState, Handled
<1>5. OneAtATime'
  <2> SUFFICES ASSUME budget'.serial PROVE OneAtATime!2'
    BY DEF OneAtATime
  <2>1. Calm
    BY <1>2, SlotFree DEF SameInstance
  <2>2. \A q \in Releases : Judged(q)' <=> Judged(q)
    BY <1>2, SameJudgement
  <2> QED BY <1>1, <1>2, <2>1, <2>2 DEF Calm, RolloutInv, OneAtATime, SameInstance
<1> QED BY <1>3, <1>4, <1>5 DEF RolloutInv

\* A handler that ends: its slot is free and every other handler is as it was.
LEMMA Freed ==
  ASSUME RolloutInv, NEW t \in Slots, txns' = [txns EXCEPT ![t] = Free]
  PROVE  /\ txns' = [u \in Slots |-> txns'[u]] /\ txns'[t].op = "free"
         /\ \A u \in Slots : u # t => txns'[u] = txns[u]
BY DEF Free, RolloutInv, RolloutTypes, ReportTypes

\* A commit that sets the state and dispatches to some agents without an attempt.
LEMMA CommitKeeps ==
  ASSUME RolloutInv, SameInstance, NEW t \in Slots, txns[t].op # "free",
         txns' = [txns EXCEPT ![t] = Free], sent' = sent,
         releases' \in [Releases -> AgentUpdateRelease],
         \A q \in Releases : q # txns[t].on => releases'[q] = releases[q],
         releases'[txns[t].on].terms = releases[txns[t].on].terms,
         releases'[txns[t].on].state # "absent",
         NEW picked \in SUBSET Agents,
         \A a \in picked : attempts[txns[t].on][a] = "none",
         attempts' = [attempts EXCEPT ![txns[t].on] =
                        [a \in Agents |-> IF a \in picked THEN "dispatched" ELSE @[a]]],
         issued' = [issued EXCEPT ![txns[t].on] =
                      [a \in Agents |-> IF a \in picked THEN @[a] + 1 ELSE @[a]]]
  PROVE  RolloutInv'
<1> DEFINE r == txns[t].on
<1>0. /\ r \in Releases /\ releases[r].state # "absent" /\ releases[r].state \in AgentUpdateReleaseState
      /\ txns[t].row.state # "halted"
  BY DEF RolloutInv, Handled, RolloutTypes, AgentUpdateRelease
<1> HIDE DEF r
<1>g. /\ txns' = [u \in Slots |-> txns'[u]] /\ txns'[t].op = "free"
      /\ \A u \in Slots : u # t => txns'[u] = txns[u]
  BY Freed
<1>f. /\ \A q \in Releases : q # r => releases'[q] = releases[q] /\ attempts'[q] = attempts[q] /\ issued'[q] = issued[q]
      /\ releases'[r].terms = releases[r].terms /\ releases'[r].state # "absent"
      /\ \A a \in picked : /\ attempts[r][a] = "none" /\ attempts'[r][a] = "dispatched"
                            /\ issued'[r][a] = issued[r][a] + 1
      /\ \A a \in Agents \ picked : attempts'[r][a] = attempts[r][a] /\ issued'[r][a] = issued[r][a]
  BY <1>0 DEF r, RolloutInv, RolloutTypes, ReportTypes
<1>1. RolloutTypes'
  <2>1. attempts' \in [Releases -> [Agents -> AgentUpdateAttemptStatus]]
    BY <1>0 DEF r, RolloutInv, RolloutTypes, ReportTypes, AgentUpdateAttemptStatus
  <2>2. issued' \in [Releases -> [Agents -> Nat]]
    BY <1>0 DEF r, RolloutInv, RolloutTypes, ReportTypes
  <2> QED BY <1>g, <2>1, <2>2 DEF RolloutInv, RolloutTypes, ReportTypes
<1>2. Published'
  BY <1>0, <1>f DEF RolloutInv, Published
<1>3. SignedOnce'
  <2> SUFFICES ASSUME NEW q \in Releases, NEW a \in Agents
               PROVE  issued'[q][a] <= 1 /\ (issued'[q][a] = 1 <=> attempts'[q][a] # "none")
    BY DEF SignedOnce
  <2>1. issued[q][a] \in Nat /\ issued[q][a] <= 1 /\ (issued[q][a] = 1 <=> attempts[q][a] # "none")
    BY DEF RolloutInv, RolloutTypes, ReportTypes, SignedOnce
  <2>2. CASE q = r /\ a \in picked
    <3>1. attempts[q][a] = "none" /\ attempts'[q][a] = "dispatched" /\ issued'[q][a] = issued[q][a] + 1
      BY <1>f, <2>2, SMTT(30)
    <3> QED BY <2>1, <3>1
  <2>3. CASE ~(q = r /\ a \in picked)
    <3>1. attempts'[q][a] = attempts[q][a] /\ issued'[q][a] = issued[q][a]
      BY <1>f, <2>3
    <3> QED BY <2>1, <3>1
  <2> QED BY <2>2, <2>3
<1>4. ASSUME NEW u \in Slots PROVE Handled(u)'
  <2>1. CASE u = t
    BY <1>g, <2>1 DEF Handled
  <2>2. CASE u # t
    <3>1. txns'[u] = txns[u] /\ Handled(u)
      BY <1>g, <2>2 DEF RolloutInv
    <3>2. \A q \in Releases : releases[q].state # "absent" => releases'[q].state # "absent"
      BY <1>f
    <3> QED BY <3>1, <3>2 DEF Handled
  <2> QED BY <2>1, <2>2
<1>5. OneAtATime'
  <2> SUFFICES ASSUME budget'.serial PROVE OneAtATime!2'
    BY DEF OneAtATime
  <2>1. \A u \in Slots : txns'[u].op = "free"
    BY <1>g DEF RolloutInv, OneAtATime, SameInstance
  <2>2. \A q \in Releases : Judged(q)' <=> Judged(q)
    <3> TAKE q \in Releases
    <3>1. releases'[q].terms = releases[q].terms
      BY <1>f
    <3>2. \A a \in Agents : attempts'[q][a] # attempts[q][a] =>
                             attempts'[q][a] \notin Outcomes /\ attempts[q][a] \notin Outcomes
      BY <1>f DEF Outcomes
    <3> QED BY <3>1, <3>2, SameJudgement
  <2>3. ~Judged(r)
    BY <1>0 DEF r, RolloutInv, OneAtATime, SameInstance
  <2> QED BY <1>0, <1>f, <2>1, <2>2, <2>3 DEF RolloutInv, OneAtATime, SameInstance
<1> QED BY <1>1, <1>2, <1>3, <1>4, <1>5 DEF RolloutInv

\* Setting the state of a release leaves the rest of its row, and other rows, alone.
LEMMA StateSet ==
  ASSUME RolloutTypes, NEW r \in Releases, NEW state \in AgentUpdateReleaseState,
         releases' = [releases EXCEPT ![r].state = state]
  PROVE  /\ releases' \in [Releases -> AgentUpdateRelease]
         /\ \A q \in Releases : q # r => releases'[q] = releases[q]
         /\ releases'[r].terms = releases[r].terms /\ releases'[r].state = state
<1>1. releases[r] \in AgentUpdateRelease
  BY DEF RolloutTypes
<1>2. [releases[r] EXCEPT !.state = state] \in AgentUpdateRelease
  BY <1>1 DEF AgentUpdateRelease
<1>3. releases' = [releases EXCEPT ![r] = [releases[r] EXCEPT !.state = state]]
  OBVIOUS
<1>4. releases' \in [Releases -> AgentUpdateRelease]
  BY <1>2, <1>3 DEF RolloutTypes
<1> QED BY <1>1, <1>3, <1>4 DEF RolloutTypes, AgentUpdateRelease

\* A commit that only sets the state.
LEMMA SteerKeeps ==
  ASSUME RolloutInv, SameInstance, NEW t \in Slots, NEW state \in AgentUpdateReleaseState \ {"absent"},
         txns[t].op # "free", txns' = [txns EXCEPT ![t] = Free], sent' = sent,
         SetState(t, state), UNCHANGED <<attempts, issued>>
  PROVE  RolloutInv'
<1> DEFINE r == txns[t].on
<1>0. r \in Releases /\ releases[r].state # "absent"
  BY DEF RolloutInv, Handled
<1> HIDE DEF r
<1>1. releases' = [releases EXCEPT ![r].state = IF txns[t].row.state = state THEN releases[r].state ELSE state]
  BY DEF SetState, r
<1>t. releases[r].state \in AgentUpdateReleaseState /\ RolloutTypes
  BY <1>0 DEF RolloutInv, RolloutTypes, ReportTypes, AgentUpdateRelease
<1>2. /\ releases' \in [Releases -> AgentUpdateRelease]
      /\ \A q \in Releases : q # r => releases'[q] = releases[q]
      /\ releases'[r].terms = releases[r].terms /\ releases'[r].state # "absent"
  BY <1>0, <1>1, <1>t, StateSet
<1>3. /\ attempts' = [attempts EXCEPT ![r] = [a \in Agents |-> IF a \in {} THEN "dispatched" ELSE @[a]]]
      /\ issued' = [issued EXCEPT ![r] = [a \in Agents |-> IF a \in {} THEN @[a] + 1 ELSE @[a]]]
  BY <1>0 DEF RolloutInv, RolloutTypes, ReportTypes
<1>4. {} \in SUBSET Agents /\ \A a \in {} : attempts[r][a] = "none"
  OBVIOUS
<1> HIDE DEF RolloutInv
<1> QED BY <1>2, <1>3, <1>4, CommitKeeps DEF r

\* A report, which rewrites one attempt and halts what its counts condemn.
LEMMA ReportKeeps ==
  ASSUME RolloutInv, BudgetInv, SameInstance, NEW m \in sent, report_self_update(m)
  PROVE  RolloutInv'
<1> DEFINE r == m.on
           a == m.agent
<1>0. r \in Releases /\ a \in Agents /\ m.status \in Outcomes
  BY DEF RolloutInv, RolloutTypes, ReportTypes
<1> HIDE DEF r, a
<1>1. /\ attempts' = [attempts EXCEPT ![r][a] = IF @ = "none" THEN @ ELSE m.status]
      /\ releases' = IF attempts[r][a] # "none" /\ evaluate_halt(r, attempts'[r])
                     THEN [releases EXCEPT ![r].state = "halted"] ELSE releases
      /\ issued' = issued /\ sent' = sent /\ txns' = txns /\ (budget.serial => Calm)
  BY DEF report_self_update, r, a
<1>2. RolloutTypes'
  <2>1. releases' \in [Releases -> AgentUpdateRelease]
    BY <1>0, <1>1, StateSet DEF RolloutInv, RolloutTypes, ReportTypes, AgentUpdateReleaseState
  <2>2. attempts' \in [Releases -> [Agents -> AgentUpdateAttemptStatus]]
    BY <1>0, <1>1 DEF RolloutInv, RolloutTypes, ReportTypes, AgentUpdateAttemptStatus, Outcomes
  <2> QED BY <1>1, <2>1, <2>2 DEF RolloutInv, RolloutTypes, ReportTypes
<1>3. /\ \A q \in Releases : q # r => releases'[q] = releases[q] /\ attempts'[q] = attempts[q]
      /\ releases'[r].terms = releases[r].terms
      /\ releases'[r].state \in {releases[r].state, "halted"}
      /\ \A b \in Agents : attempts'[r][b] = "none" <=> attempts[r][b] = "none"
      /\ attempts[r][a] = "none" => releases' = releases /\ attempts'[r] = attempts[r]
  BY <1>0, <1>1 DEF RolloutInv, RolloutTypes, ReportTypes, AgentUpdateRelease, Outcomes
<1>4. releases[r].state = "absent" => attempts[r][a] = "none"
  BY <1>0 DEF RolloutInv, Published
<1>5. Published'
  BY <1>0, <1>3, <1>4 DEF RolloutInv, Published
<1>6. SignedOnce'
  BY <1>0, <1>1, <1>3 DEF RolloutInv, SignedOnce
<1>7. ASSUME NEW u \in Slots PROVE Handled(u)'
  BY <1>1, <1>3 DEF RolloutInv, Handled
<1>8. OneAtATime'
  <2> SUFFICES ASSUME budget'.serial PROVE OneAtATime!2'
    BY DEF OneAtATime
  <2>1. \A u \in Slots : txns'[u].op = "free"
    BY <1>1 DEF Calm, SameInstance
  <2>2. ASSUME NEW q \in Releases, releases'[q].state # "absent", Judged(q)' PROVE releases'[q].state = "halted"
    <3>1. CASE q = r /\ attempts[r][a] # "none"
      <4>1. Judged(r)' => evaluate_halt(r, attempts'[r])
        BY <1>3 DEF Judged, evaluate_halt
      <4>2. releases' = [releases EXCEPT ![r].state = "halted"]
        BY <1>1, <2>2, <3>1, <4>1
      <4> QED BY <1>0, <3>1, <4>2 DEF RolloutInv, RolloutTypes, ReportTypes, AgentUpdateRelease
    <3>2. CASE ~(q = r /\ attempts[r][a] # "none")
      <4>1. releases'[q] = releases[q] /\ attempts'[q] = attempts[q]
        BY <1>3, <3>2
      <4>2. Judged(q)
        BY <2>2, <4>1, SameJudgement
      <4> QED BY <2>2, <4>1, <4>2 DEF RolloutInv, OneAtATime, SameInstance
    <3> QED BY <3>1, <3>2
  <2> QED BY <2>1, <2>2
<1> QED BY <1>2, <1>5, <1>6, <1>7, <1>8 DEF RolloutInv

\* The publication of a release, which has no attempts yet.
LEMMA PublishKeeps ==
  ASSUME RolloutInv, SameInstance, NEW r \in Releases, publish_release(r)
  PROVE  RolloutInv'
<1>1. PICK terms \in ReleaseTerms :
        releases' = [releases EXCEPT ![r] = [state |-> "published", percent |-> 0, terms |-> terms]]
  BY DEF publish_release
<1>2. /\ releases[r].state = "absent"
      /\ attempts' = attempts /\ issued' = issued /\ sent' = sent /\ txns' = txns
  BY DEF publish_release
<1>3. /\ releases' \in [Releases -> AgentUpdateRelease]
      /\ \A q \in Releases : q # r => releases'[q] = releases[q]
      /\ releases'[r].state = "published" /\ releases'[r].terms = terms
  BY <1>1 DEF RolloutInv, RolloutTypes, ReportTypes, AgentUpdateRelease, AgentUpdateReleaseState
<1>4. RolloutTypes' /\ Published' /\ SignedOnce'
  BY <1>2, <1>3 DEF RolloutInv, RolloutTypes, ReportTypes, Published, SignedOnce
<1>5. ASSUME NEW u \in Slots PROVE Handled(u)'
  BY <1>2, <1>3 DEF RolloutInv, Handled
<1>6. OneAtATime'
  <2> SUFFICES ASSUME budget'.serial PROVE OneAtATime!2'
    BY DEF OneAtATime
  <2>1. ASSUME NEW u \in Slots, txns[u].op # "free" PROVE txns[u].on # r
    BY <1>2, <2>1 DEF RolloutInv, Handled
  <2>2. ~Judged(r)'
    <3>1. releases'[r].terms \in ReleaseTerms /\ \A a \in Agents : attempts'[r][a] = "none"
      BY <1>2, <1>3 DEF RolloutInv, Published
    <3>2. {a \in Agents : attempts'[r][a] \in Outcomes} = {}
      BY <3>1 DEF Outcomes
    <3>3. Cardinality({}) = 0
      BY FS_EmptySet
    <3>4. Judged(r)' => Cardinality({a \in Agents : attempts'[r][a] \in Outcomes}) >= releases'[r].terms.minAttempts
      BY Zenon DEF Judged, evaluate_halt, _status_counts
    <3>5. releases'[r].terms.minAttempts \in Nat \ {0}
      BY <3>1, RolloutAssumption
    <3> QED BY <3>2, <3>3, <3>4, <3>5
  <2>3. \A q \in Releases : q # r => (Judged(q)' <=> Judged(q))
    BY <1>2, <1>3, SameJudgement
  <2>4. \A u \in Slots : txns[u].op # "free" => txns[u].on \in Releases /\ txns[u].on # r
    BY <2>1 DEF RolloutInv, Handled
  <2> QED BY <1>2, <1>3, <2>2, <2>3, <2>4 DEF RolloutInv, OneAtATime, SameInstance
<1> QED BY <1>4, <1>5, <1>6 DEF RolloutInv

\* A step that leaves the releases, the attempts and the handlers alone.
LEMMA RolloutAside ==
  ASSUME RolloutInv, SameInstance, UNCHANGED <<releases, attempts, issued, txns>>, ReportTypes'
  PROVE  RolloutInv'
<1>1. RolloutTypes' /\ Published' /\ SignedOnce'
  BY DEF RolloutInv, RolloutTypes, ReportTypes, Published, SignedOnce
<1>2. ASSUME NEW u \in Slots PROVE Handled(u)'
  BY DEF RolloutInv, Handled
<1>3. \A q \in Releases : Judged(q)' <=> Judged(q)
  BY SameJudgement
<1>4. OneAtATime'
  BY <1>3 DEF RolloutInv, OneAtATime, SameInstance
<1> QED BY <1>1, <1>2, <1>4 DEF RolloutInv

\* advance_rollout commits: it halts the release, or dispatches and moves the stage.
LEMMA AdvanceKeeps ==
  ASSUME RolloutInv, SameInstance, NEW t \in Slots, advance_rollout(t)
  PROVE  RolloutInv'
<1> DEFINE r == txns[t].on
<1>0. /\ txns[t].op # "free" /\ txns' = [txns EXCEPT ![t] = Free] /\ sent' = sent
      /\ r \in Releases /\ releases[r].state # "absent" /\ txns[t].picked \in SUBSET Agents
      /\ txns[t].percent \in 0..100 /\ releases[r] \in AgentUpdateRelease
  BY DEF advance_rollout, Committing, RolloutInv, Handled, RolloutTypes
<1> HIDE DEF r
<1>1. CASE txns[t].halt /\ _halt_release(t)
  BY <1>0, <1>1, SteerKeeps DEF _halt_release, AgentUpdateReleaseState
<1>2. CASE /\ _dispatch_update_command(t)
           /\ releases' = [releases EXCEPT
                ![r].state = IF txns[t].row.state = "rolling" THEN @ ELSE "rolling",
                ![r].percent = IF txns[t].row.percent = txns[t].percent THEN @ ELSE txns[t].percent]
  <2> DEFINE s == IF txns[t].row.state = "rolling" THEN releases[r].state ELSE "rolling"
             p == IF txns[t].row.percent = txns[t].percent THEN releases[r].percent ELSE txns[t].percent
             row == [releases[r] EXCEPT !.state = s, !.percent = p]
  <2>1. row \in AgentUpdateRelease /\ row.terms = releases[r].terms /\ row.state # "absent"
    BY <1>0 DEF AgentUpdateRelease, AgentUpdateReleaseState
  <2>2. releases' = [releases EXCEPT ![r] = row]
    BY <1>0, <1>2 DEF RolloutInv, RolloutTypes, ReportTypes
  <2> HIDE DEF row
  <2>3. /\ releases' \in [Releases -> AgentUpdateRelease]
        /\ \A q \in Releases : q # r => releases'[q] = releases[q]
        /\ releases'[r].terms = releases[r].terms /\ releases'[r].state # "absent"
    BY <1>0, <2>1, <2>2 DEF RolloutInv, RolloutTypes, ReportTypes
  <2>4. /\ \A a \in txns[t].picked : attempts[r][a] = "none"
        /\ attempts' = [attempts EXCEPT ![r] =
             [a \in Agents |-> IF a \in txns[t].picked THEN "dispatched" ELSE @[a]]]
        /\ issued' = [issued EXCEPT ![r] =
             [a \in Agents |-> IF a \in txns[t].picked THEN @[a] + 1 ELSE @[a]]]
    BY <1>2 DEF _dispatch_update_command, Conflict, r
  <2> QED BY <1>0, <2>3, <2>4, CommitKeeps DEF r
<1> QED BY <1>1, <1>2 DEF advance_rollout, r

\* Every step of the rollouts keeps their invariant.
LEMMA RolloutKeeps == ASSUME RolloutInv, BudgetInv, SameInstance, Next PROVE RolloutInv'
<1>1. ASSUME NEW r \in Releases, publish_release(r) PROVE RolloutInv'
  BY <1>1, PublishKeeps
<1>2. ASSUME NEW t \in Slots, NEW r \in Releases, advance_load(t, r) PROVE RolloutInv'
  <2>1. PICK percent \in Percents : /\ _load_release(t, r, "advance")
             /\ releases[r].state \notin {"paused", "halted"}
             /\ \E picked \in Batches(Dispatchable(r, percent)) : Loaded(t, "advance", r, percent, picked)
    BY <1>2 DEF advance_load
  <2>2. PICK picked \in Batches(Dispatchable(r, percent)) : Loaded(t, "advance", r, percent, picked)
    BY <2>1
  <2>3. picked \in SUBSET Agents /\ percent \in 0..100
    BY RolloutAssumption DEF Batches, Dispatchable
  <2> QED BY <2>1, <2>2, <2>3, LoadKeeps
<1>3. ASSUME NEW t \in Slots, NEW r \in Releases, halt_load(t, r) \/ pause_load(t, r) \/ resume_load(t, r)
      PROVE  RolloutInv'
  BY <1>3, LoadKeeps DEF halt_load, pause_load, resume_load
<1>4. ASSUME NEW t \in Slots, advance_rollout(t) PROVE RolloutInv'
  BY <1>4, AdvanceKeeps
<1>5. ASSUME NEW t \in Slots, halt_release(t) \/ pause_release(t) \/ resume_release(t) PROVE RolloutInv'
  <2>1. txns[t].op # "free" /\ txns' = [txns EXCEPT ![t] = Free] /\ sent' = sent
    BY <1>5 DEF halt_release, pause_release, resume_release, Committing
  <2>2. \E state \in AgentUpdateReleaseState \ {"absent"} : SetState(t, state)
    BY <1>5 DEF halt_release, pause_release, resume_release, _halt_release, AgentUpdateReleaseState
  <2>3. UNCHANGED <<attempts, issued>>
    BY <1>5 DEF halt_release, pause_release, resume_release, _halt_release
  <2> QED BY <2>1, <2>2, <2>3, SteerKeeps
<1>6. ASSUME NEW t \in Slots, rolled_back(t) PROVE RolloutInv'
  <2>0. UNCHANGED <<releases, attempts, issued, sent>>
    BY <1>6 DEF rolled_back
  <2>f. /\ txns' = [u \in Slots |-> txns'[u]] /\ txns'[t].op = "free"
        /\ \A u \in Slots : u # t => txns'[u] = txns[u]
    BY <1>6, Freed DEF rolled_back
  <2>1. RolloutTypes' /\ Published' /\ SignedOnce'
    BY <2>0, <2>f DEF RolloutInv, RolloutTypes, ReportTypes, Published, SignedOnce
  <2>2. ASSUME NEW u \in Slots PROVE Handled(u)'
    BY <2>0, <2>f DEF RolloutInv, Handled
  <2>3. \A q \in Releases : Judged(q)' <=> Judged(q)
    BY <2>0, SameJudgement
  <2>4. OneAtATime'
    BY <2>0, <2>f, <2>3 DEF RolloutInv, OneAtATime, SameInstance
  <2> QED BY <2>1, <2>2, <2>4 DEF RolloutInv
<1>7. ASSUME NEW r \in Releases, NEW a \in Agents, agent_updates(r, a) PROVE RolloutInv'
  <2>1. UNCHANGED <<releases, attempts, issued, txns>>
    BY <1>7 DEF agent_updates
  <2>2. ReportTypes'
    BY <1>7 DEF agent_updates, RolloutInv, RolloutTypes, ReportTypes
  <2> QED BY <2>1, <2>2, RolloutAside
<1>8. ASSUME NEW m \in sent, report_self_update(m) PROVE RolloutInv'
  BY <1>8, ReportKeeps
<1>9. ASSUME NEW a \in Agents, heartbeat(a) \/ set_trust(a) PROVE RolloutInv'
  <2>1. UNCHANGED <<releases, attempts, issued, txns>>
    BY <1>9 DEF heartbeat, set_trust
  <2>2. ReportTypes'
    BY <1>9 DEF heartbeat, set_trust, RolloutInv, RolloutTypes, ReportTypes
  <2> QED BY <2>1, <2>2, RolloutAside
<1> QED BY <1>1, <1>2, <1>3, <1>4, <1>5, <1>6, <1>7, <1>8, <1>9 DEF Next

\* What is proved of rollouts holds initially and in every step of the fleet.
LEMMA RolloutInvariance == FleetSpec => [](BudgetInv /\ RolloutInv)
<1>1. FleetInit => BudgetInv /\ RolloutInv
  <2> SUFFICES ASSUME FleetInit PROVE BudgetInv /\ RolloutInv
    OBVIOUS
  <2>1. BudgetInv
    BY InstanceAssumption DEF FleetInit, Init, BudgetInv
  <2>2. RolloutTypes /\ Published /\ SignedOnce
    BY DEF FleetInit, Init, RolloutTypes, ReportTypes, Published, SignedOnce, AgentUpdateRelease,
           AgentUpdateReleaseState, AgentUpdateAttemptStatus
  <2>3. \A t \in Slots : txns[t].op = "free"
    BY DEF FleetInit, Init, Free
  <2>4. \A r \in Releases : releases[r].state = "absent"
    BY DEF FleetInit, Init
  <2> QED BY <2>1, <2>2, <2>3, <2>4 DEF RolloutInv, Handled, OneAtATime
<1>2. BudgetInv /\ RolloutInv /\ [FleetNext]_fleetVars => (BudgetInv /\ RolloutInv)'
  <2> SUFFICES ASSUME BudgetInv, RolloutInv, [FleetNext]_fleetVars PROVE (BudgetInv /\ RolloutInv)'
    OBVIOUS
  <2>1. BudgetInv' /\ SameInstance
    BY FleetBudget
  <2>2. CASE Next
    BY <2>1, <2>2, RolloutKeeps
  <2>3. CASE ~Next
    <3>1. UNCHANGED rolloutVars
      BY <2>3 DEF FleetNext, fleetVars, vars, rolloutVars
    <3>2. UNCHANGED <<releases, attempts, issued, txns>>
      BY <3>1 DEF rolloutVars
    <3>3. ReportTypes'
      BY <3>1 DEF rolloutVars, RolloutInv, RolloutTypes, ReportTypes
    <3> QED BY <2>1, <3>2, <3>3, RolloutAside
  <2> QED BY <2>2, <2>3
<1> QED BY <1>1, <1>2, PTL DEF FleetSpec, fleetVars

-----------------------------------------------------------------------------
(* Rollouts: the stage an update is issued within *)

\* The stage of a release is a percentage.
LEMMA StageIsPercent ==
  ASSUME RolloutInv, NEW r \in Releases
  PROVE  releases[r].percent \in 0..100 /\ releases[r] \in AgentUpdateRelease
BY DEF RolloutInv, RolloutTypes, AgentUpdateRelease

\* A handler that loads a release takes what lies below the stage it is asked for.
LEMMA StageLoaded ==
  ASSUME RolloutInv, StageInv, BudgetInv, SameInstance, NEW t \in Slots, NEW r \in Releases, NEW class,
         NEW op \in {"advance", "halt", "pause", "resume"}, NEW percent \in 0..100,
         NEW picked \in SUBSET Agents, _load_release(t, r, class), Loaded(t, op, r, percent, picked),
         \A a \in picked : Bucket[r][a] < percent,
         op = "advance" => percent >= releases[r].percent
  PROVE  StageInv'
<1>1. /\ txns'[t].op = op /\ txns'[t].on = r /\ txns'[t].row.percent = releases[r].percent
      /\ txns'[t].percent = percent /\ txns'[t].picked = picked
      /\ \A u \in Slots : u # t => txns'[u] = txns[u]
  BY DEF Loaded, RolloutInv, RolloutTypes
<1>2. releases' = releases /\ issued' = issued /\ reached' = reached
  BY DEF _load_release
<1>3. ASSUME NEW u \in Slots PROVE Picked(u)'
  BY <1>1 DEF StageInv, Picked
<1>4. ASSUME budget'.serial, NEW u \in Slots PROVE Ahead(u)'
  BY <1>1, <1>2, <1>4 DEF StageInv, Ahead, SameInstance
<1> QED BY <1>2, <1>3, <1>4 DEF StageInv, SameInstance

\* A step that leaves the stages alone, and handlers as they were or ended.
LEMMA StageAside ==
  ASSUME StageInv, SameInstance, issued' = issued, reached' = reached,
         \A r \in Releases : /\ releases'[r].percent = releases[r].percent
                             /\ releases'[r].state = "absent" => releases[r].state = "absent",
         \A u \in Slots : txns'[u] = txns[u] \/ txns'[u].op = "free",
         \A u \in Slots : txns[u].op # "free" => txns[u].on \in Releases
  PROVE  StageInv'
<1>1. ASSUME NEW u \in Slots PROVE Picked(u)'
  BY DEF StageInv, Picked
<1>2. ASSUME budget'.serial, NEW u \in Slots PROVE Ahead(u)'
  <2>1. CASE txns'[u].op = "free"
    BY <2>1 DEF Ahead
  <2>2. CASE txns'[u] = txns[u]
    <3>1. Ahead(u)
      BY <1>2 DEF StageInv, SameInstance
    <3>2. txns[u].op # "free" => releases'[txns[u].on].percent = releases[txns[u].on].percent
      OBVIOUS
    <3> QED BY <2>2, <3>1, <3>2 DEF Ahead
  <2> QED BY <2>1, <2>2
<1>3. budget'.serial => \A r \in Releases : releases'[r].percent = reached'[r]
  BY DEF StageInv, SameInstance
<1>4. \A r \in Releases : releases'[r].state = "absent" => reached'[r] = 0
  BY DEF StageInv
<1>5. /\ reached' \in [Releases -> 0..100]
      /\ \A r \in Releases, a \in Agents : issued'[r][a] = 1 => Bucket[r][a] < reached'[r]
  BY DEF StageInv
<1> QED BY <1>1, <1>2, <1>3, <1>4, <1>5 DEF StageInv

\* Setting a state leaves every stage alone.
LEMMA StageSteered ==
  ASSUME RolloutInv, StageInv, SameInstance, NEW t \in Slots,
         NEW state \in AgentUpdateReleaseState \ {"absent"},
         txns[t].op # "free", txns' = [txns EXCEPT ![t] = Free],
         SetState(t, state), UNCHANGED <<attempts, issued, reached>>
  PROVE  StageInv'
<1> DEFINE r == txns[t].on
<1>0. r \in Releases
  BY DEF RolloutInv, Handled
<1> HIDE DEF r
<1>1. releases' = [releases EXCEPT ![r].state = IF txns[t].row.state = state THEN releases[r].state ELSE state]
  BY DEF SetState, r
<1>2. \A q \in Releases : /\ releases'[q].percent = releases[q].percent
                          /\ releases'[q].state = "absent" => releases[q].state = "absent"
  BY <1>0, <1>1, StageIsPercent DEF AgentUpdateRelease, RolloutInv, RolloutTypes
<1>3. \A u \in Slots : txns'[u] = txns[u] \/ txns'[u].op = "free"
  BY Freed
<1>4. \A u \in Slots : txns[u].op # "free" => txns[u].on \in Releases
  BY DEF RolloutInv, Handled
<1> QED BY <1>2, <1>3, <1>4, StageAside

\* The wider of two stages.
Wider(p, q) == IF p > q THEN p ELSE q

LEMMA WiderOf ==
  ASSUME NEW p \in 0..100, NEW q \in 0..100
  PROVE  /\ Wider(p, q) \in 0..100
         /\ p >= q => Wider(p, q) = p
         /\ \A b \in 0..99 : b < p \/ b < q => b < Wider(p, q)
BY DEF Wider

\* A dispatch moves the stage to what it was asked for, or further overlapping calls had.
LEMMA StageAdvanced ==
  ASSUME RolloutInv, StageInv, SameInstance, NEW t \in Slots, advance_rollout(t)
  PROVE  StageInv'
<1> DEFINE r == txns[t].on
           wide == Wider(txns[t].percent, reached[r])
           p == IF txns[t].row.percent = txns[t].percent THEN releases[r].percent ELSE txns[t].percent
<1>0. /\ txns[t].op = "advance" /\ txns' = [txns EXCEPT ![t] = Free]
      /\ r \in Releases /\ releases[r].state # "absent" /\ txns[t].picked \subseteq Agents
      /\ txns[t].percent \in 0..100 /\ reached[r] \in 0..100
  BY DEF advance_rollout, Committing, RolloutInv, Handled, StageInv
<1>1. CASE txns[t].halt /\ _halt_release(t)
  BY <1>0, <1>1, StageSteered DEF _halt_release, AgentUpdateReleaseState
<1>2. CASE /\ _dispatch_update_command(t)
           /\ reached' = [reached EXCEPT ![r] = IF txns[t].percent > @ THEN txns[t].percent ELSE @]
           /\ releases' = [releases EXCEPT
                ![r].state = IF txns[t].row.state = "rolling" THEN @ ELSE "rolling",
                ![r].percent = IF txns[t].row.percent = txns[t].percent THEN @ ELSE txns[t].percent]
  <2>w. /\ wide \in 0..100
        /\ txns[t].percent >= reached[r] => wide = txns[t].percent
        /\ \A b \in 0..99 : b < txns[t].percent \/ b < reached[r] => b < wide
    BY <1>0, WiderOf
  <2>r. reached' = [reached EXCEPT ![r] = wide]
    BY <1>2 DEF Wider
  <2> HIDE DEF wide
  <2>1. /\ reached'[r] = wide /\ reached' \in [Releases -> 0..100]
        /\ \A q \in Releases : q # r => reached'[q] = reached[q]
    BY <1>0, <2>r, <2>w DEF StageInv
  <2>2. /\ releases'[r].percent = p /\ releases'[r].state # "absent"
        /\ \A q \in Releases : q # r => releases'[q] = releases[q]
    <3>1. releases[r] \in AgentUpdateRelease /\ releases \in [Releases -> AgentUpdateRelease]
      BY <1>0 DEF RolloutInv, RolloutTypes
    <3> QED BY <1>0, <1>2, <3>1 DEF AgentUpdateRelease
  <2>3. /\ \A q \in Releases : q # r => issued'[q] = issued[q]
        /\ \A a \in Agents \ txns[t].picked : issued'[r][a] = issued[r][a]
    BY <1>0, <1>2 DEF _dispatch_update_command, RolloutInv, RolloutTypes
  <2>4. /\ \A u \in Slots : txns'[u] = txns[u] \/ txns'[u].op = "free"
        /\ \A u \in Slots : u # t => txns'[u] = txns[u]
        /\ txns'[t].op = "free"
    BY <1>0, Freed
  <2>5. ASSUME NEW q \in Releases, NEW a \in Agents, issued'[q][a] = 1 PROVE Bucket[q][a] < reached'[q]
    <3>b. Bucket[q][a] \in 0..99
      BY RolloutAssumption
    <3>1. CASE q # r
      BY <2>1, <2>3, <2>5, <3>1 DEF StageInv
    <3>2. CASE q = r /\ a \in txns[t].picked
      <4>1. Bucket[q][a] < txns[t].percent
        BY <1>0, <3>2 DEF StageInv, Picked
      <4> QED BY <1>0, <2>1, <2>w, <3>b, <3>2, <4>1
    <3>3. CASE q = r /\ a \notin txns[t].picked
      <4>1. issued[q][a] = 1
        BY <2>3, <2>5, <3>3
      <4>2. Bucket[q][a] < reached[r]
        BY <3>3, <4>1 DEF StageInv
      <4> QED BY <1>0, <2>1, <2>w, <3>b, <3>3, <4>2
    <3> QED BY <3>1, <3>2, <3>3
  <2>6. ASSUME NEW u \in Slots PROVE Picked(u)'
    BY <2>4 DEF StageInv, Picked
  <2>7. ASSUME budget'.serial
        PROVE  /\ \A q \in Releases : releases'[q].percent = reached'[q]
               /\ \A u \in Slots : Ahead(u)'
    <3>1. \A u \in Slots : u # t => txns[u].op = "free"
      BY <1>0, <2>7 DEF RolloutInv, OneAtATime, SameInstance
    <3>2. /\ releases[r].percent = reached[r] /\ txns[t].row.percent = releases[r].percent
          /\ txns[t].percent >= releases[r].percent
          /\ \A q \in Releases : releases[q].percent = reached[q]
      BY <1>0, <2>7 DEF StageInv, Ahead, SameInstance
    <3>3. p = wide
      BY <1>0, <2>w, <3>2
    <3>4. \A u \in Slots : Ahead(u)'
      BY <2>4, <3>1 DEF Ahead
    <3> HIDE DEF p, wide
    <3> QED BY <2>1, <2>2, <3>2, <3>3, <3>4
  <2> QED BY <1>0, <2>1, <2>2, <2>5, <2>6, <2>7 DEF StageInv
<1> QED BY <1>1, <1>2 DEF advance_rollout

\* Every step of the rollouts keeps the stages.
LEMMA StageKeeps == ASSUME RolloutInv, StageInv, BudgetInv, SameInstance, Next PROVE StageInv'
<1>h. \A u \in Slots : txns[u].op # "free" => txns[u].on \in Releases
  BY DEF RolloutInv, Handled
<1>1. ASSUME NEW r \in Releases, publish_release(r) PROVE StageInv'
  <2>1. PICK terms \in ReleaseTerms :
          releases' = [releases EXCEPT ![r] = [state |-> "published", percent |-> 0, terms |-> terms]]
    BY <1>1 DEF publish_release
  <2>2. /\ releases[r].state = "absent" /\ reached[r] = 0
        /\ issued' = issued /\ reached' = reached /\ txns' = txns
    BY <1>1 DEF publish_release, StageInv
  <2>3. /\ \A q \in Releases : q # r => releases'[q] = releases[q]
        /\ releases'[r].percent = 0 /\ releases'[r].state = "published"
    BY <2>1 DEF RolloutInv, RolloutTypes
  <2>4. ASSUME NEW u \in Slots PROVE Picked(u)'
    BY <2>2 DEF StageInv, Picked
  <2>5. ASSUME budget'.serial, NEW u \in Slots PROVE Ahead(u)'
    <3>1. txns[u].op # "free" => txns[u].on # r
      BY <2>2 DEF RolloutInv, Handled
    <3> QED BY <1>h, <2>2, <2>3, <2>5, <3>1 DEF StageInv, Ahead, SameInstance
  <2> QED BY <2>2, <2>3, <2>4, <2>5 DEF StageInv, SameInstance
<1>2. ASSUME NEW t \in Slots, NEW r \in Releases, advance_load(t, r) PROVE StageInv'
  <2>1. PICK percent \in Percents : /\ _load_release(t, r, "advance")
             /\ percent >= releases[r].percent
             /\ \E picked \in Batches(Dispatchable(r, percent)) : Loaded(t, "advance", r, percent, picked)
    BY <1>2 DEF advance_load
  <2>2. PICK picked \in Batches(Dispatchable(r, percent)) : Loaded(t, "advance", r, percent, picked)
    BY <2>1
  <2>3. picked \in SUBSET Agents /\ percent \in 0..100 /\ \A a \in picked : Bucket[r][a] < percent
    BY RolloutAssumption DEF Batches, Dispatchable, evaluate_eligibility
  <2> QED BY <2>1, <2>2, <2>3, StageLoaded
<1>3. ASSUME NEW t \in Slots, NEW r \in Releases, halt_load(t, r) \/ pause_load(t, r) \/ resume_load(t, r)
      PROVE  StageInv'
  BY <1>3, StageLoaded DEF halt_load, pause_load, resume_load
<1>4. ASSUME NEW t \in Slots, advance_rollout(t) PROVE StageInv'
  BY <1>4, StageAdvanced
<1>5. ASSUME NEW t \in Slots, halt_release(t) \/ pause_release(t) \/ resume_release(t) PROVE StageInv'
  <2>1. txns[t].op # "free" /\ txns' = [txns EXCEPT ![t] = Free]
    BY <1>5 DEF halt_release, pause_release, resume_release, Committing
  <2>2. \E state \in AgentUpdateReleaseState \ {"absent"} : SetState(t, state)
    BY <1>5 DEF halt_release, pause_release, resume_release, _halt_release, AgentUpdateReleaseState
  <2>3. UNCHANGED <<attempts, issued, reached>>
    BY <1>5 DEF halt_release, pause_release, resume_release, _halt_release
  <2> QED BY <2>1, <2>2, <2>3, StageSteered
<1>6. ASSUME NEW t \in Slots, rolled_back(t) PROVE StageInv'
  <2>1. releases' = releases /\ issued' = issued /\ reached' = reached
    BY <1>6 DEF rolled_back
  <2>2. \A u \in Slots : txns'[u] = txns[u] \/ txns'[u].op = "free"
    BY <1>6, Freed DEF rolled_back
  <2> QED BY <1>h, <2>1, <2>2, StageAside
<1>7. ASSUME NEW r \in Releases, NEW a \in Agents, agent_updates(r, a) PROVE StageInv'
  <2>1. UNCHANGED <<releases, issued, reached, txns>>
    BY <1>7 DEF agent_updates
  <2> QED BY <1>h, <2>1, StageAside
<1>8. ASSUME NEW m \in sent, report_self_update(m) PROVE StageInv'
  <2>0. m.on \in Releases
    BY DEF RolloutInv, RolloutTypes, ReportTypes
  <2>1. issued' = issued /\ reached' = reached /\ txns' = txns
    BY <1>8 DEF report_self_update
  <2>2. releases' \in {releases, [releases EXCEPT ![m.on].state = "halted"]}
    BY <1>8 DEF report_self_update
  <2>3. releases \in [Releases -> AgentUpdateRelease]
    BY DEF RolloutInv, RolloutTypes
  <2>4. \A q \in Releases : /\ releases'[q].percent = releases[q].percent
                            /\ releases'[q].state = "absent" => releases[q].state = "absent"
    <3>1. CASE releases' = releases
      BY <3>1
    <3>2. CASE releases' = [releases EXCEPT ![m.on].state = "halted"]
      <4>1. TAKE q \in Releases
      <4>2. releases[q] \in AgentUpdateRelease
        BY <2>3
      <4>3. releases'[q] = IF q = m.on THEN [releases[q] EXCEPT !.state = "halted"] ELSE releases[q]
        BY ONLY <2>3, <3>2
      <4> QED BY ONLY <4>2, <4>3 DEF AgentUpdateRelease
    <3> QED BY <2>2, <3>1, <3>2
  <2> QED BY <1>h, <2>1, <2>4, StageAside
<1>9. ASSUME NEW a \in Agents, heartbeat(a) \/ set_trust(a) PROVE StageInv'
  <2>1. UNCHANGED <<releases, issued, reached, txns>>
    BY <1>9 DEF heartbeat, set_trust
  <2> QED BY <1>h, <2>1, StageAside
<1> QED BY <1>1, <1>2, <1>3, <1>4, <1>5, <1>6, <1>7, <1>8, <1>9 DEF Next

\* The stages hold initially and through every step of the fleet.
LEMMA StageInvariance == FleetSpec => []StageInv
<1>1. FleetInit => StageInv
  <2> SUFFICES ASSUME FleetInit PROVE StageInv
    OBVIOUS
  <2>1. /\ reached = [r \in Releases |-> 0] /\ \A t \in Slots : txns[t].op = "free"
        /\ \A r \in Releases : releases[r].percent = 0
        /\ \A r \in Releases, a \in Agents : issued[r][a] = 0
    BY DEF FleetInit, Init, Free
  <2> QED BY <2>1 DEF StageInv, Picked, Ahead
<1>2. BudgetInv /\ RolloutInv /\ StageInv /\ [FleetNext]_fleetVars => StageInv'
  <2> SUFFICES ASSUME BudgetInv, RolloutInv, StageInv, [FleetNext]_fleetVars PROVE StageInv'
    OBVIOUS
  <2>1. BudgetInv' /\ SameInstance
    BY FleetBudget
  <2>2. CASE Next
    BY <2>1, <2>2, StageKeeps
  <2>3. CASE ~Next
    <3>1. UNCHANGED rolloutVars
      BY <2>3 DEF FleetNext, fleetVars, vars, rolloutVars
    <3>2. UNCHANGED <<releases, issued, reached, txns>>
      BY <3>1 DEF rolloutVars
    <3>3. \A u \in Slots : txns[u].op # "free" => txns[u].on \in Releases
      BY DEF RolloutInv, Handled
    <3> QED BY <2>1, <3>2, <3>3, StageAside
  <2> QED BY <2>2, <2>3
<1> QED BY <1>1, <1>2, RolloutInvariance, PTL DEF FleetSpec, fleetVars

(* For every number of endpoints, releases, stages and operators at once, a release
   signs at most one update command for an endpoint, exactly for those with an
   attempt row (the unique constraint under dispatch_update_command), and only for
   one whose bucket lies below the widest stage asked for (evaluate_eligibility). *)
THEOREM UpdatedOnce == FleetSpec => []OneUpdatePerAgent
<1>1. RolloutInv /\ StageInv => OneUpdatePerAgent
  BY DEF RolloutInv, StageInv, SignedOnce, OneUpdatePerAgent
<1> QED BY <1>1, RolloutInvariance, StageInvariance, PTL

(* With one request at a time, for every number of endpoints and every order of
   reports, pauses and resumes, a release whose reported failures reach its
   threshold is halted (evaluate_halt in report_self_update). *)
THEOREM FailuresAlwaysHalt == FleetSpec => []FailuresHalt
<1>1. BudgetInv /\ RolloutInv => FailuresHalt
  BY DEF RolloutInv, OneAtATime, FailuresHalt, Judged
<1> QED BY <1>1, RolloutInvariance, PTL

(* A halted release signs no command, and leaves that state only by the commit of a
   handler that loaded it before it was halted, which with one request at a time
   there is none of (_load_release, _halt_release). *)
THEOREM HaltIsFinal == FleetSpec => HaltHolds
<1> DEFINE Held(r) == \/ releases'[r].state = "halted" /\ issued'[r] = issued[r]
                      \/ \E t \in Slots : /\ txns[t].on = r /\ txns'[t] = Free
                                          /\ txns[t].row.state # "halted"
                                          /\ ~budget.serial
<1>1. BudgetInv /\ RolloutInv /\ [FleetNext]_fleetVars =>
        [\A r \in Releases : releases[r].state = "halted" => Held(r)]_vars
  <2> SUFFICES ASSUME BudgetInv, RolloutInv, [FleetNext]_fleetVars, NEW r \in Releases,
                      releases[r].state = "halted", vars' # vars
               PROVE  Held(r)
    OBVIOUS
  <2>1. CASE ~Next
    BY <2>1 DEF FleetNext, fleetVars, vars, rolloutVars
  <2>2. CASE Next
    <3>1. ASSUME NEW q \in Releases, publish_release(q) PROVE Held(r)
      BY <3>1 DEF publish_release, RolloutInv, RolloutTypes, ReportTypes
    <3>2. ASSUME NEW t \in Slots, NEW q \in Releases,
                 advance_load(t, q) \/ halt_load(t, q) \/ pause_load(t, q) \/ resume_load(t, q)
          PROVE  Held(r)
      BY <3>2 DEF advance_load, halt_load, pause_load, resume_load, _load_release
    <3>3. ASSUME NEW t \in Slots,
                 advance_rollout(t) \/ halt_release(t) \/ pause_release(t) \/ resume_release(t)
          PROVE  Held(r)
      <4>0. txns[t].op # "free" /\ txns' = [txns EXCEPT ![t] = Free]
        BY <3>3 DEF advance_rollout, halt_release, pause_release, resume_release, Committing
      <4>1. txns[t].row.state # "halted" /\ txns'[t] = Free
        BY <4>0 DEF RolloutInv, RolloutTypes, ReportTypes, Handled
      <4>2. CASE txns[t].on = r
        <5>1. ~budget.serial
          BY <4>0, <4>1, <4>2 DEF RolloutInv, OneAtATime
        <5> QED BY <4>1, <4>2, <5>1
      <4>3. CASE txns[t].on # r
        <5>1. releases'[r] = releases[r]
          BY <3>3, <4>3 DEF advance_rollout, halt_release, pause_release, resume_release, _halt_release,
                            SetState, RolloutInv, RolloutTypes, ReportTypes
        <5>2. issued'[r] = issued[r]
          BY <3>3, <4>3 DEF advance_rollout, halt_release, pause_release, resume_release, _halt_release,
                            _dispatch_update_command, RolloutInv, RolloutTypes, ReportTypes
        <5> QED BY <5>1, <5>2
      <4> QED BY <4>2, <4>3
    <3>4. ASSUME NEW m \in sent, report_self_update(m) PROVE Held(r)
      <4>1. m.on \in Releases /\ RolloutTypes /\ issued' = issued
        BY <3>4 DEF RolloutInv, RolloutTypes, ReportTypes, report_self_update
      <4>2. releases' = releases \/ releases' = [releases EXCEPT ![m.on].state = "halted"]
        BY <3>4 DEF report_self_update
      <4>3. releases'[r].state = "halted"
        BY <4>1, <4>2, StateSet DEF AgentUpdateReleaseState
      <4> QED BY <4>1, <4>3
    <3>5. ASSUME \/ \E t \in Slots : rolled_back(t)
                 \/ \E q \in Releases, a \in Agents : agent_updates(q, a)
                 \/ \E a \in Agents : heartbeat(a) \/ set_trust(a)
          PROVE  Held(r)
      BY <3>5 DEF rolled_back, agent_updates, heartbeat, set_trust
    <3> QED BY <2>2, <3>1, <3>2, <3>3, <3>4, <3>5 DEF Next
  <2> QED BY <2>1, <2>2
<1> QED BY <1>1, RolloutInvariance, PTL DEF FleetSpec, HaltHolds, fleetVars

-----------------------------------------------------------------------------
(* Forwards: what a step may do *)

\* A relay's request is not a missing one, whatever its ages.
LEMMA SignedForward ==
  ASSUME NEW f, f.relay \in Relays PROVE f # NoForward
BY RoutingAssumption DEF NoForward

\* A request that was not signed before has no receipt and was not handled.
LEMMA SignKeeps ==
  ASSUME ForwardInv, NEW n \in Nonces, relay_signs(n)
  PROVE  ForwardInv'
<1>1. PICK f \in Forward : f.relay \in Relays /\ forwards' = [forwards EXCEPT ![n] = f]
  <2>1. PICK r \in Relays, k \in RelayKeys, stamp \in -ClockSkew-1..ClockSkew, held \in 0..1 :
          forwards' = [forwards EXCEPT ![n] = [relay |-> r, key |-> k, stamp |-> stamp, queued |-> stamp + held]]
    BY DEF relay_signs
  <2>2. stamp \in Int /\ stamp + held \in Int
    BY RoutingAssumption
  <2>3. [relay |-> r, key |-> k, stamp |-> stamp, queued |-> stamp + held] \in Forward
    BY <2>2 DEF Forward
  <2> QED BY <2>1, <2>3
<1>2. forwards[n] = NoForward /\ verifying' = verifying /\ receipts' = receipts /\ handled' = handled
  BY DEF relay_signs
<1>3. /\ \A q \in Nonces : q # n => forwards'[q] = forwards[q]
      /\ ForwardTypes'
  BY <1>1, <1>2 DEF ForwardInv, ForwardTypes
<1>4. /\ \A v \in verifying : v.nonce \in Nonces /\ v.nonce # n
      /\ receipts[n] = None /\ handled[n] = 0
  BY <1>2 DEF ForwardInv, ForwardTypes, Verified, Received, HandledOnce, Signed
<1> QED BY <1>2, <1>3, <1>4 DEF ForwardInv, Verified, Received, HandledOnce, Signed, Stamped

\* A request that passes verification is timely, so its receipt, if it had one, is still there.
LEMMA VerifyKeeps ==
  ASSUME ForwardInv, NEW n \in Nonces, verify_forward(n)
  PROVE  ForwardInv'
<1>1. PICK id \in 1..2 : verifying' = verifying \cup {[id |-> id, nonce |-> n, age |-> 0]}
  BY DEF verify_forward
<1>2. /\ forwards' = forwards /\ receipts' = receipts /\ handled' = handled
      /\ Signed(n) /\ forwards[n].stamp >= -ClockSkew /\ forwards[n].stamp <= ClockSkew
  BY RoutingAssumption DEF verify_forward, Timely, Signed, ForwardInv, ForwardTypes, Forward
<1>t. ClockSkew \in Nat /\ MaxStall \in Nat /\ forwards[n].stamp \in Int
  BY RoutingAssumption DEF ForwardInv, ForwardTypes, Forward
<1> DEFINE w == [id |-> id, nonce |-> n, age |-> 0]
<1>3. w \in [id : 1..2, nonce : Nonces, age : 0..MaxStall] /\ w.nonce = n /\ w.age = 0
  BY <1>t
<1>4. verifying' = verifying \cup {w}
  BY <1>1
<1> HIDE DEF w
<1>5. ForwardTypes'
  BY <1>2, <1>3, <1>4 DEF ForwardInv, ForwardTypes
<1>6. \A v \in verifying : v.age \in Nat /\ (v.nonce = n => v.age <= 2 * ClockSkew)
  BY <1>2, <1>t DEF ForwardInv, ForwardTypes, Verified, Stamped
<1>7. receipts[n] # None => receipts[n] <= 2 * ClockSkew
  BY <1>2, <1>t DEF ForwardInv, ForwardTypes, Received, Stamped
<1>8. Verified'
  <2>1. ASSUME NEW v \in verifying
        PROVE  /\ Signed(v.nonce)' /\ Stamped(v.nonce, v.age)'
               /\ \A u \in verifying' : u.nonce = v.nonce => v.age <= u.age + 2 * ClockSkew
               /\ receipts'[v.nonce] # None => receipts'[v.nonce] <= v.age + 2 * ClockSkew
    BY <1>2, <1>3, <1>4, <1>6, <1>t DEF ForwardInv, Verified, Signed, Stamped
  <2>2. /\ Signed(w.nonce)' /\ Stamped(w.nonce, w.age)'
        /\ \A u \in verifying' : u.nonce = w.nonce => w.age <= u.age + 2 * ClockSkew
        /\ receipts'[w.nonce] # None => receipts'[w.nonce] <= w.age + 2 * ClockSkew
    BY <1>2, <1>3, <1>4, <1>6, <1>7, <1>t DEF Signed, Stamped
  <2> QED BY <1>4, <2>1, <2>2 DEF Verified
<1>9. Received'
  BY <1>2 DEF ForwardInv, Received, Signed, Stamped
<1>10. HandledOnce'
  BY <1>2, <1>3, <1>4, <1>t DEF ForwardInv, HandledOnce, Signed
<1> QED BY <1>5, <1>8, <1>9, <1>10 DEF ForwardInv

\* Only the first of the requests under way finds no receipt.
LEMMA ReceiptKeeps ==
  ASSUME ForwardInv, NEW v \in verifying, RelayIngressMiddleware(v)
  PROVE  ForwardInv'
<1> DEFINE n == v.nonce
<1>1. verifying' = verifying \ {v} /\ forwards' = forwards
  BY DEF RelayIngressMiddleware
<1>t. n \in Nonces /\ v.age \in Nat /\ None \notin Nat /\ ClockSkew \in Nat
  BY RoutingAssumption DEF ForwardInv, ForwardTypes
<1>2. CASE receipts[n] # None
  <2>1. receipts' = receipts /\ handled' = handled
    BY <1>2 DEF RelayIngressMiddleware
  <2> QED BY <1>1, <2>1 DEF ForwardInv, ForwardTypes, Verified, Received, HandledOnce, Signed, Stamped
<1>3. CASE receipts[n] = None
  <2>1. /\ receipts' = [receipts EXCEPT ![n] = v.age]
        /\ handled' = [handled EXCEPT ![n] = @ + 1]
    BY <1>3 DEF RelayIngressMiddleware
  <2> HIDE DEF n
  <2>2. ForwardTypes'
    BY <1>1, <1>t, <2>1 DEF ForwardInv, ForwardTypes
  <2>3. /\ receipts'[n] = v.age /\ handled'[n] = handled[n] + 1
        /\ \A q \in Nonces : q # n => receipts'[q] = receipts[q] /\ handled'[q] = handled[q]
    BY <1>t, <2>1 DEF ForwardInv, ForwardTypes
  <2>4. handled[n] = 0 /\ Signed(n) /\ Stamped(n, v.age)
    BY <1>3, <1>t DEF ForwardInv, HandledOnce, Verified, n
  <2>5. Verified'
    BY <1>1, <1>t, <2>3 DEF ForwardInv, ForwardTypes, Verified, Signed, Stamped, n
  <2>6. Received'
    BY <1>1, <1>t, <2>3, <2>4 DEF ForwardInv, Received, Signed, Stamped
  <2>7. HandledOnce'
    BY <1>1, <1>t, <2>3, <2>4 DEF ForwardInv, HandledOnce, Signed
  <2> QED BY <2>2, <2>5, <2>6, <2>7 DEF ForwardInv
<1> QED BY <1>2, <1>3

\* A receipt is pruned when its request is too old to be verified again.
LEMMA PruneKeeps ==
  ASSUME ForwardInv, prune
  PROVE  ForwardInv'
<1>1. /\ verifying' = verifying /\ forwards' = forwards /\ handled' = handled
      /\ receipts' = [n \in Nonces |-> IF receipts[n] # None /\ receipts[n] > ReceiptRetention
                                        THEN None ELSE receipts[n]]
  BY DEF prune
<1>t. /\ ClockSkew \in Nat /\ MaxStall \in Nat /\ ReceiptRetention \in Nat /\ None \notin Nat
      /\ ReceiptRetention >= 2 * ClockSkew + MaxStall
  BY RoutingAssumption, RetentionAssumption
<1>2. ForwardTypes'
  BY <1>1 DEF ForwardInv, ForwardTypes
<1>3. \A n \in Nonces : receipts'[n] # None => receipts'[n] = receipts[n]
  BY <1>1
<1>4. Verified' /\ Received'
  BY <1>1, <1>3 DEF ForwardInv, ForwardTypes, Verified, Received, Signed, Stamped
<1>5. ASSUME NEW n \in Nonces, receipts[n] # None, receipts'[n] = None
      PROVE  forwards[n].stamp > ClockSkew /\ \A v \in verifying : v.nonce # n
  <2>1. receipts[n] > ReceiptRetention /\ receipts[n] \in Nat
    BY <1>1, <1>5 DEF ForwardInv, ForwardTypes
  <2>2. forwards[n].stamp \in Int /\ Stamped(n, receipts[n])
    BY <1>5 DEF ForwardInv, ForwardTypes, Forward, Received
  <2>3. ASSUME NEW v \in verifying PROVE v.nonce # n
    BY <1>t, <1>5, <2>1 DEF ForwardInv, ForwardTypes, Verified
  <2> QED BY <1>t, <2>1, <2>2, <2>3 DEF Stamped
<1>6. HandledOnce'
  BY <1>1, <1>5 DEF ForwardInv, HandledOnce, Signed
<1> QED BY <1>2, <1>4, <1>6 DEF ForwardInv

\* Time makes requests and receipts older together.
LEMMA AgingKeeps ==
  ASSUME ForwardInv, time_passes
  PROVE  ForwardInv'
<1>1. /\ \A v \in verifying : v.age < MaxStall
      /\ verifying' = {[v EXCEPT !.age = @ + 1] : v \in verifying}
      /\ forwards' = [n \in Nonces |->
           IF forwards[n] = NoForward THEN NoForward
           ELSE [forwards[n] EXCEPT !.stamp = Aged(@, ClockSkew), !.queued = Aged(@, MaxForwardAge)]]
      /\ receipts' = [n \in Nonces |-> IF receipts[n] = None THEN None
                                        ELSE Aged(receipts[n], ReceiptRetention)]
      /\ handled' = handled
  BY DEF time_passes
<1>t. /\ ClockSkew \in Nat /\ MaxStall \in Nat /\ ReceiptRetention \in Nat /\ None \notin Nat
      /\ MaxForwardAge \in Nat
  BY RoutingAssumption
<1>2. ASSUME NEW n \in Nonces
      PROVE  /\ ~Signed(n) => forwards'[n] = NoForward
             /\ Signed(n) => /\ forwards'[n] \in Forward /\ forwards'[n].relay \in Relays
                             /\ forwards'[n].stamp = Aged(forwards[n].stamp, ClockSkew)
  <2> DEFINE f == forwards[n]
  <2>1. f \in Forward /\ (Signed(n) => f.relay \in Relays)
    BY DEF ForwardInv, ForwardTypes, Signed
  <2>2. forwards'[n] = IF f = NoForward THEN NoForward
          ELSE [f EXCEPT !.stamp = Aged(@, ClockSkew), !.queued = Aged(@, MaxForwardAge)]
    BY <1>1
  <2> HIDE DEF f
  <2>3. Aged(f.stamp, ClockSkew) \in Int /\ Aged(f.queued, MaxForwardAge) \in Int
    <3>1. f.stamp \in Int /\ f.queued \in Int
      BY <2>1 DEF Forward
    <3> QED BY <1>t, <3>1 DEF Aged
  <2>4. CASE Signed(n)
    <3>1. forwards'[n] = [f EXCEPT !.stamp = Aged(f.stamp, ClockSkew), !.queued = Aged(f.queued, MaxForwardAge)]
      BY <2>2, <2>4 DEF Signed, f
    <3>2. /\ forwards'[n] \in Forward /\ forwards'[n].relay \in Relays
          /\ forwards'[n].stamp = Aged(f.stamp, ClockSkew)
      BY <2>1, <2>3, <2>4, <3>1 DEF Forward
    <3> QED BY <2>4, <3>2 DEF f
  <2>5. CASE ~Signed(n)
    BY <2>2, <2>5 DEF Signed, f
  <2> QED BY <2>4, <2>5
<1>3. \A n \in Nonces : Signed(n)' <=> Signed(n)
  BY <1>2, SignedForward DEF Signed
<1>4. \A n \in Nonces : /\ receipts'[n] = None <=> receipts[n] = None
                        /\ receipts[n] # None => /\ receipts'[n] = Aged(receipts[n], ReceiptRetention)
                                                 /\ receipts'[n] \in Nat
  <2> TAKE n \in Nonces
  <2>1. receipts'[n] = IF receipts[n] = None THEN None ELSE Aged(receipts[n], ReceiptRetention)
    BY <1>1
  <2>2. receipts[n] # None => receipts[n] \in Nat
    BY DEF ForwardInv, ForwardTypes
  <2>3. receipts[n] # None => Aged(receipts[n], ReceiptRetention) \in Nat
    BY <1>t, <2>2 DEF Aged
  <2> QED BY <1>t, <2>1, <2>3
<1>5. \A w \in verifying' : \E v \in verifying :
        w \in [id : 1..2, nonce : Nonces, age : 0..MaxStall] /\ w.nonce = v.nonce /\ w.age = v.age + 1
  <2> TAKE w \in verifying'
  <2>1. PICK v \in verifying : w = [v EXCEPT !.age = @ + 1]
    BY <1>1
  <2>2. v \in [id : 1..2, nonce : Nonces, age : 0..MaxStall] /\ v.age < MaxStall
    BY <1>1 DEF ForwardInv, ForwardTypes
  <2> QED BY <1>t, <2>1, <2>2
<1>6. ForwardTypes'
  <2>1. forwards' \in [Nonces -> Forward]
    BY <1>1, <1>2 DEF Signed, ForwardInv, ForwardTypes
  <2>2. receipts' \in [Nonces -> Nat \cup {None}]
    BY <1>1, <1>4
  <2> QED BY <1>1, <1>2, <1>5, <2>1, <2>2 DEF ForwardInv, ForwardTypes, Signed
<1>7. ASSUME NEW n \in Nonces, NEW age \in Nat, Signed(n), Stamped(n, age)
      PROVE  \/ forwards'[n].stamp >= age + 1 - ClockSkew
             \/ forwards'[n].stamp > ClockSkew
  <2>1. forwards'[n].stamp = Aged(forwards[n].stamp, ClockSkew) /\ forwards[n].stamp \in Int
    BY <1>2, <1>7 DEF ForwardInv, ForwardTypes, Forward
  <2> QED BY <1>t, <1>7, <2>1 DEF Stamped, Aged
<1>8. Verified'
  <2> SUFFICES ASSUME NEW w \in verifying'
               PROVE  /\ Signed(w.nonce)' /\ Stamped(w.nonce, w.age)'
                      /\ \A u \in verifying' : u.nonce = w.nonce => w.age <= u.age + 2 * ClockSkew
                      /\ receipts'[w.nonce] # None => receipts'[w.nonce] <= w.age + 2 * ClockSkew
    BY DEF Verified
  <2>1. PICK v \in verifying : w.nonce = v.nonce /\ w.age = v.age + 1
    BY <1>5
  <2>2. v.nonce \in Nonces /\ v.age \in Nat /\ Signed(v.nonce) /\ Stamped(v.nonce, v.age)
    BY DEF ForwardInv, ForwardTypes, Verified
  <2>3. Signed(w.nonce)' /\ Stamped(w.nonce, w.age)'
    <3>1. \/ forwards'[v.nonce].stamp >= v.age + 1 - ClockSkew
          \/ forwards'[v.nonce].stamp > ClockSkew
      BY <1>7, <2>2
    <3>2. Signed(v.nonce)'
      BY <1>3, <2>2
    <3>3. Signed(w.nonce)'
      BY <2>1, <3>2
    <3>4. Stamped(w.nonce, w.age)'
      BY <1>t, <2>1, <2>2, <3>1 DEF Stamped
    <3> QED BY <3>3, <3>4
  <2>4. ASSUME NEW u \in verifying', u.nonce = w.nonce PROVE w.age <= u.age + 2 * ClockSkew
    <3>1. PICK x \in verifying : u.nonce = x.nonce /\ u.age = x.age + 1
      BY <1>5
    <3>2. x.age \in Nat
      BY DEF ForwardInv, ForwardTypes
    <3>3. v.age <= x.age + 2 * ClockSkew
      BY <2>1, <2>4, <3>1 DEF ForwardInv, Verified
    <3> QED BY <1>t, <2>1, <2>2, <3>1, <3>2, <3>3
  <2>5. receipts'[w.nonce] # None => receipts'[w.nonce] <= w.age + 2 * ClockSkew
    <3>1. receipts[v.nonce] # None => receipts[v.nonce] \in Nat /\ receipts[v.nonce] <= v.age + 2 * ClockSkew
      BY <2>2 DEF ForwardInv, ForwardTypes, Verified
    <3> QED BY <1>4, <1>t, <2>1, <2>2, <3>1 DEF Aged
  <2> QED BY <2>3, <2>4, <2>5
<1>9. Received'
  <2> SUFFICES ASSUME NEW n \in Nonces, receipts'[n] # None PROVE (Signed(n) /\ Stamped(n, receipts[n]))'
    BY DEF Received
  <2>1. receipts[n] \in Nat /\ receipts[n] # None /\ Signed(n) /\ Stamped(n, receipts[n])
    BY <1>4 DEF ForwardInv, ForwardTypes, Received
  <2>2. receipts'[n] \in {receipts[n], receipts[n] + 1}
    BY <1>4, <2>1 DEF Aged
  <2>3. forwards'[n].stamp >= receipts[n] + 1 - ClockSkew \/ forwards'[n].stamp > ClockSkew
    BY <1>7, <2>1
  <2>4. forwards'[n].stamp \in Int
    BY <1>6 DEF ForwardTypes, Forward
  <2> QED BY <1>3, <1>t, <2>1, <2>2, <2>3, <2>4 DEF Stamped
<1>10. HandledOnce'
  <2> SUFFICES ASSUME NEW n \in Nonces, handled[n] # 0
               PROVE  /\ handled[n] = 1 /\ Signed(n)'
                      /\ \/ receipts'[n] # None
                         \/ forwards'[n].stamp > ClockSkew /\ \A v \in verifying' : v.nonce # n
    BY <1>1 DEF HandledOnce
  <2>1. handled[n] = 1 /\ Signed(n)
    BY DEF ForwardInv, HandledOnce
  <2>2. CASE receipts[n] # None
    BY <1>3, <1>4, <2>1, <2>2
  <2>3. CASE forwards[n].stamp > ClockSkew /\ \A v \in verifying : v.nonce # n
    <3>1. forwards'[n].stamp = forwards[n].stamp
      BY <1>2, <2>1, <2>3 DEF Aged
    <3> QED BY <1>3, <1>5, <2>1, <2>3, <3>1
  <2> QED BY <2>2, <2>3 DEF ForwardInv, HandledOnce
<1> QED BY <1>6, <1>8, <1>9, <1>10 DEF ForwardInv

\* A step that is not about what relays forward.
LEMMA ForwardAside == ASSUME ForwardInv, UNCHANGED forwardVars PROVE ForwardInv'
BY DEF forwardVars, ForwardInv, ForwardTypes, Verified, Received, HandledOnce, Signed, Stamped

\* The invariant of the forwarding holds in every reachable state.
LEMMA ForwardInvariance == FleetSpec => []ForwardInv
<1>1. FleetInit => ForwardInv
  <2> SUFFICES ASSUME FleetInit PROVE ForwardInv
    OBVIOUS
  <2>1. /\ forwards = [n \in Nonces |-> NoForward] /\ verifying = {}
        /\ receipts = [n \in Nonces |-> None] /\ handled = [n \in Nonces |-> 0]
    BY DEF FleetInit, RouteInit
  <2>2. NoForward \in Forward
    BY DEF NoForward, Forward
  <2> QED BY <2>1, <2>2 DEF ForwardInv, ForwardTypes, Verified, Received, HandledOnce
<1>2. ForwardInv /\ [FleetNext]_fleetVars => ForwardInv'
  <2> SUFFICES ASSUME ForwardInv, [FleetNext]_fleetVars PROVE ForwardInv'
    OBVIOUS
  <2>1. CASE \E n \in Nonces : relay_signs(n) \/ verify_forward(n)
    BY <2>1, SignKeeps, VerifyKeeps
  <2>2. CASE \E v \in verifying : RelayIngressMiddleware(v)
    BY <2>2, ReceiptKeeps
  <2>3. CASE prune \/ time_passes
    BY <2>3, PruneKeeps, AgingKeeps
  <2>4. CASE /\ ~\E n \in Nonces : relay_signs(n) \/ verify_forward(n)
             /\ ~\E v \in verifying : RelayIngressMiddleware(v)
             /\ ~prune /\ ~time_passes
    <3>1. RouteNext => UNCHANGED forwardVars
      BY <2>4 DEF RouteNext, Administers, relay_routing_switched, cmd_generate, cmd_activate, cmd_retire,
             Rotates, checkIn, tryRelay, tryOrigin, endpoint_restarts, link_changes
    <3>2. UNCHANGED forwardVars
      BY <3>1 DEF FleetNext, fleetVars, routeVars
    <3> QED BY <3>2, ForwardAside
  <2> QED BY <2>1, <2>2, <2>3, <2>4
<1> QED BY <1>1, <1>2, PTL DEF FleetSpec, fleetVars

(* For every skew of a relay's clock, every age and every number of copies, as long
   as receipts are kept for twice the skew and the time a request may take: a
   forwarded request reaches its handler at most once (RelayIngressMiddleware). *)
THEOREM ForwardedAtMostOnce == FleetSpec => []ForwardedOnce
<1>1. ForwardInv => ForwardedOnce
  BY DEF ForwardInv, ForwardTypes, HandledOnce, ForwardedOnce
<1> QED BY <1>1, ForwardInvariance, PTL

-----------------------------------------------------------------------------
(* Reach: what a step may do *)

\* The key commands are signed with is one of the bundle.
LEMMA ActiveKeyBundled ==
  ASSUME \E k \in CommandKeys : keyring[k] = "active" PROVE ActiveKey \in public_key_bundle
<1>1. ActiveKey \in CommandKeys /\ keyring[ActiveKey] = "active"
  BY DEF ActiveKey
<1> QED BY <1>1 DEF public_key_bundle

\* A rotation leaves a key active.
LEMMA RotationKeeps ==
  ASSUME ReachInv, NEW k \in CommandKeys, cmd_generate(k) \/ cmd_activate(k) \/ cmd_retire(k)
  PROVE  keyring' = [c \in CommandKeys |-> keyring'[c]] /\ \E c \in CommandKeys : keyring'[c] = "active"
<1>1. keyring = [c \in CommandKeys |-> keyring[c]]
  BY DEF ReachInv, RouteTypes
<1>2. PICK c \in CommandKeys : keyring[c] = "active"
  BY DEF ReachInv
<1>3. CASE cmd_activate(k)
  <2>1. keyring' = [keyring EXCEPT ![ActiveKey] = "overlap", ![k] = "active"]
    BY <1>3 DEF cmd_activate, Rotates
  <2> QED BY <1>1, <2>1
<1>4. CASE cmd_generate(k) \/ cmd_retire(k)
  <2>1. keyring[k] # "active" /\ \E s : keyring' = [keyring EXCEPT ![k] = s]
    BY <1>4 DEF cmd_generate, cmd_retire, Rotates
  <2>2. keyring'[c] = "active"
    BY <1>1, <1>2, <2>1
  <2> QED BY <1>1, <2>1, <2>2
<1> QED BY <1>3, <1>4

\* An answer: a manifest that is adopted is answered, and what is not adopted
\* leaves the routes as long as they were.
LEMMA AnswerKeeps ==
  ASSUME ReachInv, SameInstance, NEW marks, NEW relayed \in BOOLEAN, applyRoutingAndKeys(marks, relayed), Answered,
         relayed => route.manifest.left > 0, UNCHANGED keyring
  PROVE  ReachInv'
<1> DEFINE m == build_routing_manifest
           adopted == enabled /\ VerifyRoutingManifest(m)
           manifest == IF adopted THEN [relays |-> m.relays, left |-> ManifestTTL] ELSE route.manifest
           keys == IF adopted \/ ~relayed THEN m.keys ELSE route.keys
<1>1. /\ route' = [manifest |-> manifest, keys |-> keys, marks |-> route'.marks]
      /\ identity' = identity \/ identity' = [manifest |-> manifest, keys |-> keys]
  BY DEF applyRoutingAndKeys
<1>2. ActiveKey \in m.keys
  BY ActiveKeyBundled DEF build_routing_manifest, ReachInv
<1>3. ActiveKey' = ActiveKey
  BY DEF ActiveKey
<1>t. ManifestTTL \in Nat /\ RouteTypes
  BY RoutingAssumption DEF ReachInv
<1>4. /\ manifest = [relays |-> manifest.relays, left |-> manifest.left]
      /\ manifest.left \in Nat /\ manifest.left <= ManifestTTL
      /\ (~adopted => manifest = route.manifest)
  BY <1>t DEF ReachInv, RouteTypes
<1>5. ActiveKey \notin route'.keys => ~adopted /\ relayed
  BY <1>1, <1>2
<1>6. PICK verdict \in {"answered", "failed"} :
        /\ verdict = IF ActiveKey \in route'.keys THEN "answered" ELSE "failed"
        /\ call' = [call EXCEPT !.at = "rest", !.todo = <<>>, !.last = verdict,
                                !.missed = IF verdict = "answered" THEN 0 ELSE @]
  BY DEF Answered, Returns
<1>7. /\ call' = [at |-> "rest", todo |-> <<>>, last |-> verdict,
                  missed |-> IF verdict = "answered" THEN 0 ELSE call.missed]
      /\ call.missed \in Nat
  BY <1>6 DEF ReachInv, RouteTypes
<1> HIDE DEF m, adopted, manifest, keys
<1>8. /\ route'.manifest = manifest
      /\ identity'.manifest = identity.manifest \/ identity'.manifest = manifest
  BY <1>1
<1>9. RouteTypes'
  <2>1. route' = [manifest |-> [relays |-> route'.manifest.relays, left |-> route'.manifest.left],
                  marks |-> route'.marks, keys |-> route'.keys]
    BY <1>1, <1>4, <1>8
  <2>2. identity' = [manifest |-> [relays |-> identity'.manifest.relays, left |-> identity'.manifest.left],
                     keys |-> identity'.keys]
    BY <1>1, <1>4, <1>8 DEF ReachInv, RouteTypes
  <2>3. route'.manifest.left \in Nat /\ identity'.manifest.left \in Nat
    BY <1>4, <1>8 DEF ReachInv, RouteTypes
  <2>4. /\ call' = [at |-> call'.at, todo |-> call'.todo, last |-> call'.last, missed |-> call'.missed]
        /\ call'.missed \in Nat /\ call'.at = "rest"
    BY <1>7
  <2> QED BY <2>1, <2>2, <2>3, <2>4 DEF ReachInv, RouteTypes
<1>10. CASE verdict = "answered"
  <2>1. call'.missed = 0 /\ call'.at = "rest" /\ call'.last = "answered"
    BY <1>7, <1>10
  <2>2. route'.manifest.left <= ManifestTTL /\ identity'.manifest.left <= ManifestTTL
    BY <1>4, <1>8, <1>t DEF ReachInv, RouteTypes
  <2> QED BY <1>9, <1>t, <2>1, <2>2 DEF ReachInv, RouteTypes
<1>11. CASE verdict = "failed"
  <2>1. call'.missed = call.missed /\ call'.at = "rest" /\ call'.last = "failed"
    BY <1>7, <1>11
  <2>2. relayed /\ route'.manifest = route.manifest
    BY <1>4, <1>5, <1>6, <1>8, <1>11
  <2>3. identity'.manifest = identity.manifest \/ identity'.manifest = route.manifest
    BY <1>4, <1>5, <1>6, <1>8, <1>11
  <2> QED BY <1>9, <2>1, <2>2, <2>3 DEF ReachInv
<1> QED BY <1>10, <1>11

\* A call that ends without an answer leaves the routes as long as they were.
LEMMA ReturnKeeps ==
  ASSUME ReachInv, SameInstance, NEW verdict \in {"failed", "refused", "unreachable"}, Returns(verdict),
         verdict = "failed" => route.manifest.left > 0,
         route' = route \/ route' = [route EXCEPT !.marks = route'.marks],
         UNCHANGED <<identity, keyring>>
  PROVE  ReachInv'
<1>1. /\ call' = [at |-> "rest", todo |-> <<>>, last |-> verdict, missed |-> call.missed]
      /\ call.missed \in Nat
  BY DEF ReachInv, RouteTypes, Returns
<1>2. /\ route' = [manifest |-> [relays |-> route'.manifest.relays, left |-> route'.manifest.left],
                   marks |-> route'.marks, keys |-> route'.keys]
      /\ route'.manifest.left = route.manifest.left
  BY DEF ReachInv, RouteTypes
<1>3. RouteTypes'
  BY <1>1, <1>2 DEF ReachInv, RouteTypes
<1> QED BY <1>1, <1>2, <1>3 DEF ReachInv

\* Time brings the end of the manifest nearer.
LEMMA ClockKeeps ==
  ASSUME ReachInv, SameInstance, time_passes
  PROVE  ReachInv'
<1>1. /\ route' = [route EXCEPT !.manifest.left = Sooner(@),
                                !.marks = [r \in Relays |-> [@[r] EXCEPT !.until = Sooner(@)]]]
      /\ identity' = [identity EXCEPT !.manifest.left = Sooner(@)]
      /\ keyring' = keyring
      /\ budget.polls => call.last # "none"
  BY DEF time_passes, Polled
<1>2. PICK missed : /\ call' = [call EXCEPT !.last = "none", !.missed = missed]
                    /\ missed \in {0, call.missed} \/ (call.last = "failed" /\ missed = Aged(call.missed, ManifestTTL))
  <2> DEFINE missed == CASE Strict \/ call.last = "refused" -> 0
                         [] call.last = "failed" -> Aged(call.missed, ManifestTTL)
                         [] OTHER -> call.missed
  <2>1. call' = [call EXCEPT !.last = "none", !.missed = missed]
    BY DEF time_passes
  <2>2. missed \in {0, call.missed} \/ (call.last = "failed" /\ missed = Aged(call.missed, ManifestTTL))
    <3>1. CASE Strict \/ call.last = "refused"
      BY <3>1
    <3>2. CASE ~(Strict \/ call.last = "refused") /\ call.last = "failed"
      BY <3>2
    <3>3. CASE ~(Strict \/ call.last = "refused") /\ call.last # "failed"
      BY <3>3
    <3> QED BY <3>1, <3>2, <3>3
  <2> QED BY <2>1, <2>2
<1>t. ManifestTTL \in Nat /\ route.manifest.left \in Nat /\ identity.manifest.left \in Nat /\ call.missed \in Nat
  BY RoutingAssumption DEF ReachInv, RouteTypes
<1>3. /\ call' = [at |-> call.at, todo |-> call.todo, last |-> "none", missed |-> missed]
  BY <1>2 DEF ReachInv, RouteTypes
<1>4. /\ route' = [manifest |-> [relays |-> route.manifest.relays, left |-> Sooner(route.manifest.left)],
                   marks |-> route'.marks, keys |-> route.keys]
      /\ identity' = [manifest |-> [relays |-> identity.manifest.relays, left |-> Sooner(identity.manifest.left)],
                      keys |-> identity.keys]
  <2>1. PICK marks : route' = [route EXCEPT !.manifest.left = Sooner(route.manifest.left), !.marks = marks]
    BY <1>1
  <2>2. route' = [manifest |-> [relays |-> route.manifest.relays, left |-> Sooner(route.manifest.left)],
                  marks |-> marks, keys |-> route.keys]
    <3> DEFINE list == route.manifest.relays
               left == route.manifest.left
               soon == Sooner(route.manifest.left)
               ks == route.keys
               ms == route.marks
    <3>1. route = [manifest |-> [relays |-> list, left |-> left], marks |-> ms, keys |-> ks]
      BY DEF ReachInv, RouteTypes
    <3>2. route' = [route EXCEPT !.manifest.left = soon, !.marks = marks]
      BY <2>1
    <3> HIDE DEF list, left, soon, ks, ms
    <3>3. route' = [manifest |-> [relays |-> list, left |-> soon], marks |-> marks, keys |-> ks]
      BY <3>1, <3>2
    <3> QED BY <3>3 DEF list, soon, ks
  <2>3. identity' = [manifest |-> [relays |-> identity.manifest.relays, left |-> Sooner(identity.manifest.left)],
                     keys |-> identity.keys]
    BY <1>1 DEF ReachInv, RouteTypes
  <2> QED BY <2>2, <2>3
<1>5. /\ Sooner(route.manifest.left) \in Nat /\ Sooner(identity.manifest.left) \in Nat
      /\ Sooner(route.manifest.left) <= route.manifest.left
      /\ Sooner(identity.manifest.left) <= identity.manifest.left
  BY <1>t DEF Sooner
<1>6. missed \in Nat /\ missed + Sooner(route.manifest.left) <= ManifestTTL
      /\ missed + Sooner(identity.manifest.left) <= ManifestTTL
  <2>1. CASE missed \in {0, call.missed}
    BY <1>5, <1>t, <2>1, SMTT(30) DEF ReachInv
  <2>2. CASE call.last = "failed" /\ missed = Aged(call.missed, ManifestTTL)
    <3>1. /\ route.manifest.left > 0 /\ call.missed + route.manifest.left <= ManifestTTL
          /\ call.missed + identity.manifest.left <= ManifestTTL
      BY <2>2 DEF ReachInv
    <3>2. missed = call.missed + 1
      BY <1>t, <2>2, <3>1 DEF Aged
    <3> QED BY <1>t, <3>1, <3>2 DEF Sooner
  <2> QED BY <1>2, <2>1, <2>2
<1>7. RouteTypes'
  <2>1. route'.manifest.left \in Nat /\ identity'.manifest.left \in Nat
    BY <1>4, <1>5
  <2>2. call'.missed \in Nat /\ call'.at \in {"rest", "trying"}
    BY <1>3, <1>6 DEF ReachInv, RouteTypes
  <2>3. /\ route' = [manifest |-> [relays |-> route'.manifest.relays, left |-> route'.manifest.left],
                     marks |-> route'.marks, keys |-> route'.keys]
        /\ identity' = [manifest |-> [relays |-> identity'.manifest.relays, left |-> identity'.manifest.left],
                        keys |-> identity'.keys]
        /\ call' = [at |-> call'.at, todo |-> call'.todo, last |-> call'.last, missed |-> call'.missed]
    BY <1>3, <1>4
  <2> QED BY <1>1, <2>1, <2>2, <2>3 DEF ReachInv, RouteTypes
<1>8. call.at # "trying"
  BY <1>1 DEF ReachInv
<1>9. /\ call'.last = "none" /\ call'.at = call.at /\ call'.missed = missed
      /\ route'.manifest.left = Sooner(route.manifest.left)
      /\ identity'.manifest.left = Sooner(identity.manifest.left)
  BY <1>3, <1>4
<1>10. \E k \in CommandKeys : keyring'[k] = "active"
  BY <1>1 DEF ReachInv
<1> QED BY <1>6, <1>7, <1>8, <1>9, <1>10 DEF ReachInv

\* Every step of the routes keeps the endpoint's reach.
LEMMA ReachKeeps ==
  ASSUME ReachInv, BudgetInv, SameInstance, RouteNext
  PROVE  ReachInv'
<1>1. CASE UNCHANGED <<route, identity, call, keyring>>
  BY <1>1 DEF ReachInv, RouteTypes, SameInstance
<1>2. ASSUME NEW k \in CommandKeys, cmd_generate(k) \/ cmd_activate(k) \/ cmd_retire(k) PROVE ReachInv'
  <2>1. UNCHANGED <<route, identity, call>>
    BY <1>2 DEF cmd_generate, cmd_activate, cmd_retire, Rotates, endpointVars
  <2>2. keyring' = [c \in CommandKeys |-> keyring'[c]] /\ \E c \in CommandKeys : keyring'[c] = "active"
    BY <1>2, RotationKeeps
  <2> QED BY <2>1, <2>2 DEF ReachInv, RouteTypes, SameInstance
<1>3. ASSUME checkIn PROVE ReachInv'
  <2>1. /\ call' = [call EXCEPT !.at = "trying", !.todo = activeRoutes, !.last = "none"]
        /\ UNCHANGED <<route, identity, keyring>> /\ budget.polls
    BY <1>3 DEF checkIn, serverVars, Polled
  <2>2. call' = [at |-> "trying", todo |-> activeRoutes, last |-> "none", missed |-> call.missed]
    BY <2>1 DEF ReachInv, RouteTypes
  <2>3. activeRoutes # <<>> => route.manifest.left > 0
    BY DEF activeRoutes, ReachInv, RouteTypes
  <2> QED BY <2>1, <2>2, <2>3 DEF ReachInv, RouteTypes, SameInstance
<1>4. ASSUME tryRelay PROVE ReachInv'
  <2>0. /\ call.at = "trying" /\ call.todo # <<>> /\ route.manifest.left > 0 /\ UNCHANGED keyring
    BY <1>4 DEF tryRelay, serverVars, ReachInv
  <2>1. CASE applyRoutingAndKeys(markRoute(Head(call.todo), TRUE), TRUE) /\ Answered
    BY <2>0, <2>1, AnswerKeeps
  <2>2. CASE /\ route' = [route EXCEPT !.marks = markRoute(Head(call.todo), TRUE)]
             /\ Returns("failed") /\ UNCHANGED <<identity, budget>>
    <3>1. route' = [route EXCEPT !.marks = route'.marks]
      BY <2>2 DEF ReachInv, RouteTypes
    <3> QED BY <2>0, <2>2, <3>1, ReturnKeeps
  <2>3. CASE /\ route' = [route EXCEPT !.marks = markRoute(Head(call.todo), FALSE)]
             /\ call' = [call EXCEPT !.todo = Tail(@)] /\ UNCHANGED <<identity, budget>>
    <3>0. PICK marks : route' = [route EXCEPT !.marks = marks]
      BY <2>3
    <3>1. route' = [manifest |-> [relays |-> route.manifest.relays, left |-> route.manifest.left],
                    marks |-> marks, keys |-> route.keys]
      BY <3>0 DEF ReachInv, RouteTypes
    <3>2. call' = [at |-> call.at, todo |-> Tail(call.todo), last |-> call.last, missed |-> call.missed]
      BY <2>3 DEF ReachInv, RouteTypes
    <3>3. RouteTypes'
      <4>1. route' = [manifest |-> [relays |-> route'.manifest.relays, left |-> route'.manifest.left],
                      marks |-> route'.marks, keys |-> route'.keys]
        BY <3>1
      <4>2. /\ call' = [at |-> call'.at, todo |-> call'.todo, last |-> call'.last, missed |-> call'.missed]
            /\ call'.at = call.at /\ call'.missed = call.missed
        BY <3>2
      <4>3. route'.manifest.left = route.manifest.left
        BY <3>1
      <4> QED BY <2>0, <2>3, <4>1, <4>2, <4>3 DEF ReachInv, RouteTypes
    <3> QED BY <2>0, <2>3, <3>1, <3>2, <3>3 DEF ReachInv, SameInstance
  <2> QED BY <1>4, <2>1, <2>2, <2>3 DEF tryRelay
<1>5. ASSUME tryOrigin PROVE ReachInv'
  <2>0. UNCHANGED keyring
    BY <1>5 DEF tryOrigin, serverVars
  <2>1. CASE applyRoutingAndKeys(route.marks, FALSE) /\ Answered
    BY <2>0, <2>1, AnswerKeeps
  <2>2. CASE (Returns("refused") \/ Returns("unreachable")) /\ UNCHANGED <<route, identity>>
    BY <2>0, <2>2, ReturnKeeps
  <2> QED BY <1>5, <2>1, <2>2 DEF tryOrigin
<1>6. ASSUME endpoint_restarts PROVE ReachInv'
  <2>1. /\ route' = [manifest |-> identity.manifest, keys |-> identity.keys,
                     marks |-> [r \in Relays |-> Fresh]]
        /\ call' = [call EXCEPT !.at = "rest", !.todo = <<>>, !.last = "none",
                                !.missed = IF "none" = "answered" THEN 0 ELSE @]
        /\ UNCHANGED <<identity, keyring>>
    BY <1>6 DEF endpoint_restarts, Returns, serverVars
  <2>2. call' = [at |-> "rest", todo |-> <<>>, last |-> "none", missed |-> call.missed]
    BY <2>1 DEF ReachInv, RouteTypes
  <2>3. RouteTypes'
    <3>1. route' = [manifest |-> [relays |-> route'.manifest.relays, left |-> route'.manifest.left],
                    marks |-> route'.marks, keys |-> route'.keys]
      BY <2>1 DEF ReachInv, RouteTypes
    <3>2. /\ call' = [at |-> call'.at, todo |-> call'.todo, last |-> call'.last, missed |-> call'.missed]
          /\ call'.at = "rest" /\ call'.missed = call.missed
      BY <2>2
    <3>3. route'.manifest.left = identity.manifest.left
      BY <2>1
    <3> QED BY <2>1, <3>1, <3>2, <3>3 DEF ReachInv, RouteTypes
  <2>4. /\ route'.manifest.left = identity.manifest.left
        /\ call'.at = "rest" /\ call'.last = "none" /\ call'.missed = call.missed
    BY <2>1, <2>2
  <2> QED BY <2>1, <2>3, <2>4 DEF ReachInv
<1>7. ASSUME time_passes PROVE ReachInv'
  BY <1>7, ClockKeeps
<1>8. \/ UNCHANGED <<route, identity, call, keyring>>
      \/ \E k \in CommandKeys : cmd_generate(k) \/ cmd_activate(k) \/ cmd_retire(k)
      \/ checkIn \/ tryRelay \/ tryOrigin \/ endpoint_restarts \/ time_passes
  <2>1. ASSUME Administers PROVE UNCHANGED <<route, identity, call, keyring>>
    BY <2>1 DEF Administers, Reads, Commits, create_region, change_region_status, set_region_policy,
       register_relay, change_relay_status, register_relay_key, retire_relay_key, revoke_relay_key,
       clear_region_policy, endpointVars
  <2> QED BY <2>1 DEF RouteNext, relay_routing_switched, relay_signs, verify_forward, RelayIngressMiddleware,
             prune, link_changes, endpointVars, serverVars
<1> QED BY <1>1, <1>2, <1>3, <1>4, <1>5, <1>6, <1>7, <1>8

\* The invariant of the reach holds in every reachable state.
LEMMA ReachInvariance == FleetSpec => [](BudgetInv /\ ReachInv)
<1>1. FleetInit => BudgetInv /\ ReachInv
  <2> SUFFICES ASSUME FleetInit PROVE BudgetInv /\ ReachInv
    OBVIOUS
  <2>1. BudgetInv
    BY InstanceAssumption DEF FleetInit, Init, BudgetInv
  <2>2. ReachInv
    <3>1. /\ keyring = [k \in CommandKeys |-> IF k = EnrolledKey THEN "active" ELSE "absent"]
          /\ route = [manifest |-> NoManifest, marks |-> [r \in Relays |-> Fresh], keys |-> {EnrolledKey}]
          /\ identity = [manifest |-> NoManifest, keys |-> {EnrolledKey}]
          /\ call = [at |-> "rest", todo |-> <<>>, last |-> "none", missed |-> 0]
      BY DEF FleetInit, RouteInit
    <3>2. RouteTypes
      <4>1. PICK marks, list, keys : NoManifest = [relays |-> list, left |-> 0] /\ keys = {EnrolledKey}
              /\ route = [manifest |-> NoManifest, marks |-> marks, keys |-> keys]
        BY <3>1 DEF NoManifest
      <4>2. route = [manifest |-> [relays |-> list, left |-> 0], marks |-> marks, keys |-> keys]
            /\ identity = [manifest |-> [relays |-> list, left |-> 0], keys |-> keys]
        BY <3>1, <4>1
      <4>3. route = [manifest |-> [relays |-> route.manifest.relays, left |-> route.manifest.left],
                     marks |-> route.marks, keys |-> route.keys]
        BY <4>2
      <4>4. identity = [manifest |-> [relays |-> identity.manifest.relays, left |-> identity.manifest.left],
                        keys |-> identity.keys]
        BY <4>2
      <4>5. route.manifest.left = 0 /\ identity.manifest.left = 0
        BY <4>2
      <4> QED BY <3>1, <4>3, <4>4, <4>5 DEF RouteTypes
    <3>3. route.manifest.left = 0 /\ identity.manifest.left = 0
      BY <3>1 DEF NoManifest
    <3> QED BY <3>1, <3>2, <3>3, RoutingAssumption DEF ReachInv
  <2> QED BY <2>1, <2>2
<1>2. BudgetInv /\ ReachInv /\ [FleetNext]_fleetVars => (BudgetInv /\ ReachInv)'
  <2> SUFFICES ASSUME BudgetInv, ReachInv, [FleetNext]_fleetVars PROVE (BudgetInv /\ ReachInv)'
    OBVIOUS
  <2>1. BudgetInv' /\ SameInstance
    BY FleetBudget
  <2>2. CASE RouteNext
    BY <2>1, <2>2, ReachKeeps
  <2>3. CASE ~RouteNext
    <3>1. UNCHANGED <<route, identity, call, keyring>>
      BY <2>3 DEF FleetNext, fleetVars, routeVars, serverVars, endpointVars
    <3>2. ReachInv'
      BY <2>1, <3>1 DEF ReachInv, RouteTypes, SameInstance
    <3> QED BY <2>1, <3>2
  <2> QED BY <2>2, <2>3
<1> QED BY <1>1, <1>2, PTL DEF FleetSpec, fleetVars

(* For every number of relays, regions and command keys, every lifetime of a manifest
   and every cooldown, an endpoint whose tenant's policy is not strict is never
   without an answer it can use for longer than a manifest lives (activeRoutes,
   markRoute, applyRoutingAndKeys). *)
THEOREM EndpointStaysInReach == FleetSpec => []AgentInReach
<1>1. BudgetInv /\ ReachInv => AgentInReach
  BY RoutingAssumption DEF ReachInv, RouteTypes, AgentInReach
<1> QED BY <1>1, ReachInvariance, PTL

-----------------------------------------------------------------------------
(* Enrollment: what a step may do *)

\* How two counts can change together without passing their bound.
LEMMA CountsShrink ==
  ASSUME NEW U, NEW O, IsFiniteSet(U), IsFiniteSet(O), NEW V \in SUBSET U, NEW P \in SUBSET O,
         NEW a \in Nat, NEW b \in Nat, a <= b, Cardinality(U) + Cardinality(O) <= a
  PROVE  Cardinality(V) + Cardinality(P) <= b
<1>1. /\ IsFiniteSet(V) /\ IsFiniteSet(P) /\ Cardinality(V) <= Cardinality(U)
      /\ Cardinality(P) <= Cardinality(O)
  BY FS_Subset
<1>2. Cardinality(U) \in Nat /\ Cardinality(O) \in Nat /\ Cardinality(V) \in Nat /\ Cardinality(P) \in Nat
  BY <1>1, FS_CardinalityType
<1> QED BY <1>1, <1>2

\* A set with one more element counts at most one more.
LEMMA OneMore ==
  ASSUME NEW U, NEW x, IsFiniteSet(U)
  PROVE  IsFiniteSet(U \cup {x}) /\ Cardinality(U \cup {x}) \in Nat /\ Cardinality(U \cup {x}) <= Cardinality(U) + 1
<1>1. Cardinality(U) \in Nat
  BY FS_CardinalityType
<1>2. CASE x \in U
  <2>1. U \cup {x} = U
    BY <1>2
  <2> QED BY <1>1, <2>1
<1>3. CASE x \notin U
  BY <1>1, <1>3, FS_AddElement
<1> QED BY <1>2, <1>3

\* The rows of a token and of a machine are finitely many.
LEMMA EnrollFinite ==
  ASSUME EnrollTypes
  PROVE  /\ DOMAIN enrolled = 1..Len(enrolled) /\ Len(enrolled) \in Nat
         /\ \A t \in EnrollmentTokens : IsFiniteSet(Rows(t))
         /\ \A m \in Machines : IsFiniteSet(RowsOf(m)) /\ IsFiniteSet(Unused(m)) /\ IsFiniteSet(Orphans(m))
<1>1. DOMAIN enrolled = 1..Len(enrolled) /\ Len(enrolled) \in Nat
  BY DEF EnrollTypes
<1>2. IsFiniteSet(1..Len(enrolled))
  BY <1>1, FS_Interval
<1>3. \A S : S \subseteq DOMAIN enrolled => IsFiniteSet(S)
  BY <1>1, <1>2, FS_Subset
<1>4. \A S : S \subseteq Handlers => IsFiniteSet(S)
  BY FS_Subset, EnrollmentAssumption
<1>5. \A t \in EnrollmentTokens : Rows(t) \subseteq DOMAIN enrolled
  BY DEF Rows
<1>6. \A m \in Machines : /\ RowsOf(m) \subseteq DOMAIN enrolled /\ Unused(m) \subseteq DOMAIN enrolled
                          /\ Orphans(m) \subseteq Handlers
  BY DEF RowsOf, Unused, Orphans
<1> QED BY <1>1, <1>3, <1>4, <1>5, <1>6

\* The bound of a machine after a step: nothing is left over, something is and has
\* been abandoned, or a request the machine gave up has become a row.
LEMMA LedgerStep ==
  ASSUME EnrollTypes, NEW m \in Machines, Ledger(m), abandoned'[m] \in Nat, NEW x, NEW h,
         \/ /\ Unused(m)' \subseteq Unused(m) /\ Orphans(m)' \subseteq Orphans(m)
            /\ abandoned'[m] >= abandoned[m]
         \/ /\ Unused(m)' \subseteq Unused(m) \cup {x} /\ Orphans(m)' \subseteq Orphans(m)
            /\ abandoned'[m] = abandoned[m] + 1
         \/ /\ Unused(m)' \subseteq Unused(m) /\ Orphans(m)' \subseteq Orphans(m) \cup {h}
            /\ abandoned'[m] = abandoned[m] + 1
         \/ /\ Unused(m)' \subseteq Unused(m) \cup {x} /\ Orphans(m)' \subseteq Orphans(m) \ {h}
            /\ h \in Orphans(m) /\ abandoned'[m] = abandoned[m]
  PROVE  Cardinality(Unused(m)') + Cardinality(Orphans(m)') <= abandoned'[m]
<1> DEFINE U == Unused(m)
           O == Orphans(m)
           V == Unused(m)'
           P == Orphans(m)'
           a == abandoned[m]
           b == abandoned'[m]
<1>1. /\ IsFiniteSet(U) /\ IsFiniteSet(O) /\ Cardinality(U) + Cardinality(O) <= a
      /\ a \in Nat /\ b \in Nat
  BY EnrollFinite DEF Ledger, EnrollTypes
<1>2. Cardinality(U) \in Nat /\ Cardinality(O) \in Nat
  BY <1>1, FS_CardinalityType
<1>3. \/ V \subseteq U /\ P \subseteq O /\ b >= a
      \/ V \subseteq U \cup {x} /\ P \subseteq O /\ b = a + 1
      \/ V \subseteq U /\ P \subseteq O \cup {h} /\ b = a + 1
      \/ V \subseteq U \cup {x} /\ P \subseteq O \ {h} /\ h \in O /\ b = a
  OBVIOUS
<1> HIDE DEF U, O, V, P, a, b
<1>4. CASE V \subseteq U /\ P \subseteq O /\ b >= a
  BY <1>1, <1>4, CountsShrink DEF V, P, b
<1>5. CASE V \subseteq U \cup {x} /\ P \subseteq O /\ b = a + 1
  <2>1. /\ IsFiniteSet(U \cup {x}) /\ Cardinality(U \cup {x}) \in Nat
        /\ Cardinality(U \cup {x}) <= Cardinality(U) + 1
    BY <1>1, OneMore
  <2>2. Cardinality(U \cup {x}) + Cardinality(O) <= b
    BY <1>1, <1>2, <1>5, <2>1
  <2>3. Cardinality(V) + Cardinality(P) <= b
    BY <1>1, <1>5, <2>1, <2>2, CountsShrink
  <2> QED BY <2>3 DEF V, P, b
<1>6. CASE V \subseteq U /\ P \subseteq O \cup {h} /\ b = a + 1
  <2>1. /\ IsFiniteSet(O \cup {h}) /\ Cardinality(O \cup {h}) \in Nat
        /\ Cardinality(O \cup {h}) <= Cardinality(O) + 1
    BY <1>1, OneMore
  <2>2. Cardinality(U) + Cardinality(O \cup {h}) <= b
    BY <1>1, <1>2, <1>6, <2>1
  <2>3. Cardinality(V) + Cardinality(P) <= b
    BY <1>1, <1>6, <2>1, <2>2, CountsShrink
  <2> QED BY <2>3 DEF V, P, b
<1>7. CASE V \subseteq U \cup {x} /\ P \subseteq O \ {h} /\ h \in O /\ b = a
  <2>1. /\ IsFiniteSet(U \cup {x}) /\ Cardinality(U \cup {x}) \in Nat
        /\ Cardinality(U \cup {x}) <= Cardinality(U) + 1
    BY <1>1, OneMore
  <2>2. IsFiniteSet(O \ {h}) /\ Cardinality(O \ {h}) = Cardinality(O) - 1
    BY <1>1, <1>7, FS_RemoveElement
  <2>3. Cardinality(U \cup {x}) + Cardinality(O \ {h}) <= b
    BY <1>1, <1>2, <1>7, <2>1, <2>2
  <2>4. Cardinality(V) + Cardinality(P) <= b
    BY <1>1, <1>7, <2>1, <2>2, <2>3, CountsShrink
  <2> QED BY <2>4 DEF V, P, b
<1> QED BY <1>3, <1>4, <1>5, <1>6, <1>7

\* A machine a step does not concern.
LEMMA LedgerAside ==
  ASSUME EnrollInv, NEW q \in Machines, RowsOf(q)' = RowsOf(q), Orphans(q)' \subseteq Orphans(q),
         machines'[q].identity = machines[q].identity, machines'[q].got = machines[q].got,
         abandoned'[q] = abandoned[q]
  PROVE  Ledger(q)'
<1>1. Unused(q)' = Unused(q)
  BY DEF Unused
<1>2. EnrollTypes /\ Ledger(q) /\ abandoned'[q] \in Nat /\ abandoned[q] \in Nat
  BY DEF EnrollInv, EnrollTypes, Accounted
<1>3. Cardinality(Unused(q)') + Cardinality(Orphans(q)') <= abandoned'[q]
  BY <1>1, <1>2, LedgerStep
<1> QED BY <1>2, <1>3 DEF Ledger

\* A step of a machine, which changes its own row and no request.
LEMMA MachineKeeps ==
  ASSUME EnrollInv, NEW m \in Machines, NEW row \in Machine,
         machines' = [machines EXCEPT ![m] = row],
         UNCHANGED <<enrolled, redemptions>>,
         abandoned' \in [Machines -> Nat], \A q \in Machines : q # m => abandoned'[q] = abandoned[q],
         row.on \in {machines[m].on, None}, row.step = "waiting" <=> row.on # None,
         row.on # None => row.identity = machines[m].identity /\ row.got = machines[m].got,
         row.got # 0 => row.step = "answered", row.step = "answered" => row.identity = 0,
         {row.identity, row.got} \subseteq {machines[m].identity, machines[m].got, 0},
         \/ /\ {machines[m].identity, machines[m].got} \subseteq {row.identity, row.got, 0}
            /\ row.on = machines[m].on /\ abandoned'[m] = abandoned[m]
         \/ /\ \/ {machines[m].identity, machines[m].got} \subseteq {row.identity, row.got, 0}
               \/ machines[m].on = None /\ row.identity = machines[m].identity
            /\ abandoned'[m] = abandoned[m] + 1
  PROVE  machines' \in [Machines -> Machine] /\ Requested' /\ Accounted'
<1>1. /\ machines' \in [Machines -> Machine] /\ machines'[m] = row
      /\ \A q \in Machines : q # m => machines'[q] = machines[q]
  BY DEF EnrollInv, EnrollTypes
<1>2. \A q \in Machines : RowsOf(q)' = RowsOf(q)
  BY DEF RowsOf
<1>3. Requested'
  <2>1. \A h \in Handlers : (redemptions[h].phase # "free" =>
          redemptions[h].by \in Machines /\ redemptions[h].token \in EnrollmentTokens)'
    BY DEF EnrollInv, Requested
  <2> SUFFICES ASSUME NEW q \in Machines
               PROVE  /\ machines'[q].step = "waiting" <=> machines'[q].on # None
                      /\ machines'[q].on # None => /\ redemptions[machines'[q].on].phase # "free"
                                                   /\ redemptions[machines'[q].on].by = q
                                                   /\ machines'[q].identity = 0 /\ machines'[q].got = 0
                      /\ machines'[q].got # 0 => machines'[q].step = "answered"
                      /\ machines'[q].step = "answered" => machines'[q].identity = 0
    BY <2>1 DEF Requested
  <2>2. CASE q # m
    BY <1>1, <2>2 DEF EnrollInv, Requested
  <2>3. CASE q = m
    BY <1>1, <2>3 DEF EnrollInv, Requested
  <2> QED BY <2>2, <2>3
<1>4. ASSUME NEW q \in Machines, q # m PROVE Ledger(q)'
  <2>1. Orphans(q)' = Orphans(q)
    BY <1>1, <1>4 DEF Orphans
  <2> QED BY <1>1, <1>2, <1>4, <2>1, LedgerAside
<1>5. Ledger(m)'
  <2>0. EnrollTypes /\ Ledger(m) /\ abandoned'[m] \in Nat /\ abandoned[m] \in Nat
    BY DEF EnrollInv, EnrollTypes, Accounted
  <2>1. /\ machines'[m].identity # 0 => machines'[m].identity \in RowsOf(m)'
        /\ machines'[m].got # 0 => machines'[m].got \in RowsOf(m)'
    BY <1>1, <1>2, <2>0 DEF Ledger
  <2>2. 0 \notin RowsOf(m)
    BY <2>0, EnrollFinite DEF RowsOf
  <2>3. Orphans(m)' \subseteq Orphans(m) \cup {machines[m].on}
    BY <1>1 DEF Orphans
  <2>4. Unused(m)' \subseteq Unused(m) \cup {machines[m].got, machines[m].identity}
    BY <1>1, <1>2 DEF Unused
  <2>5. ASSUME {machines[m].identity, machines[m].got} \subseteq {row.identity, row.got, 0}
        PROVE  Unused(m)' \subseteq Unused(m)
    BY <1>1, <1>2, <2>2, <2>5 DEF Unused
  <2>6. ASSUME row.identity = machines[m].identity PROVE Unused(m)' \subseteq Unused(m) \cup {machines[m].got}
    BY <1>1, <1>2, <2>6 DEF Unused
  <2>7. ASSUME row.on = machines[m].on PROVE Orphans(m)' \subseteq Orphans(m)
    BY <1>1, <2>7 DEF Orphans
  <2>8. Cardinality(Unused(m)') + Cardinality(Orphans(m)') <= abandoned'[m]
    <3>1. CASE /\ {machines[m].identity, machines[m].got} \subseteq {row.identity, row.got, 0}
               /\ row.on = machines[m].on /\ abandoned'[m] = abandoned[m]
      BY <2>0, <2>5, <2>7, <3>1, LedgerStep
    <3>2. CASE /\ {machines[m].identity, machines[m].got} \subseteq {row.identity, row.got, 0}
               /\ abandoned'[m] = abandoned[m] + 1
      BY <2>0, <2>3, <2>5, <3>2, LedgerStep
    <3>3. CASE /\ machines[m].on = None /\ row.identity = machines[m].identity
               /\ abandoned'[m] = abandoned[m] + 1
      BY <2>0, <2>6, <2>7, <3>3, LedgerStep
    <3> QED BY <3>1, <3>2, <3>3
  <2> QED BY <2>1, <2>8 DEF Ledger
<1> QED BY <1>1, <1>3, <1>4, <1>5 DEF Accounted

\* A step that leaves tokens and rows alone.
LEMMA CountsAside ==
  ASSUME EnrollInv, UNCHANGED <<etokens, enrolled>> PROVE Counted'
<1>1. \A t \in EnrollmentTokens : Rows(t)' = Rows(t)
  BY DEF Rows
<1> QED BY <1>1 DEF EnrollInv, Counted

\* The machines' steps, each through the row it leaves.
LEMMA MachineActions ==
  ASSUME EnrollInv, NEW m \in Machines,
         \/ loadSession(m) \/ request_lost(m) \/ saveIdentity(m) \/ saveIdentity_fails(m)
         \/ ClearEnrollmentToken(m) \/ machine_stops(m)
  PROVE  EnrollInv'
<1> DEFINE r == machines[m]
<1>1. UNCHANGED <<etokens, enrolled, redemptions>>
  BY DEF loadSession, request_lost, saveIdentity, saveIdentity_fails, ClearEnrollmentToken, machine_stops
<1>2. /\ r \in Machine /\ 0 \in Nat /\ None \notin Handlers
      /\ r.step = "waiting" <=> r.on # None
      /\ r.on # None => r.identity = 0 /\ r.got = 0
      /\ r.got # 0 => r.step = "answered"
      /\ r.step = "answered" => r.identity = 0
  BY EnrollmentAssumption DEF EnrollInv, EnrollTypes, Requested
<1> DEFINE Moved ==
      \/ /\ abandoned' = abandoned
         /\ \/ /\ r.step \in {"off", "saved"}
               /\ machines' = [machines EXCEPT ![m] = [r EXCEPT !.step = "running", !.config = None]]
            \/ /\ r.step = "answered"
               /\ \E s \in {"saved", "off"} :
                    machines' = [machines EXCEPT ![m] = [r EXCEPT !.step = s, !.identity = r.got, !.got = 0]]
            \/ /\ r.step \in {"saved", "running"}
               /\ machines' = [machines EXCEPT ![m] = [r EXCEPT !.step = "off", !.on = None, !.got = 0]]
      \/ /\ abandoned' = [abandoned EXCEPT ![m] = @ + 1]
         /\ r.step \in {"waiting", "answered"}
         /\ machines' = [machines EXCEPT ![m] = [r EXCEPT !.step = "off", !.on = None, !.got = 0]]
<1>3. Moved
  <2>1. ASSUME request_lost(m) PROVE Moved
    BY <2>1 DEF request_lost, Off, Abandon
  <2>2. ASSUME loadSession(m) \/ ClearEnrollmentToken(m) PROVE Moved
    BY <2>2 DEF loadSession, ClearEnrollmentToken
  <2>3. ASSUME saveIdentity(m) PROVE Moved
    BY <2>3 DEF saveIdentity
  <2>4. ASSUME saveIdentity_fails(m) PROVE Moved
    BY <2>4 DEF saveIdentity_fails, Off, Abandon
  <2>5. ASSUME machine_stops(m) PROVE Moved
    <3>1. r.step \in {"waiting", "answered", "saved", "running"}
      BY <1>2, <2>5 DEF machine_stops, Machine
    <3> QED BY <2>5, <3>1 DEF machine_stops, Off, Abandon
  <2> QED BY <2>1, <2>2, <2>3, <2>4, <2>5
<1>4. /\ abandoned' \in [Machines -> Nat] /\ \A q \in Machines : q # m => abandoned'[q] = abandoned[q]
      /\ abandoned' # abandoned => abandoned'[m] = abandoned[m] + 1
  BY <1>3 DEF EnrollInv, EnrollTypes
<1> HIDE DEF r
<1>5. machines' \in [Machines -> Machine] /\ Requested' /\ Accounted'
  <2>1. CASE /\ abandoned' = abandoned /\ r.step \in {"off", "saved"}
             /\ machines' = [machines EXCEPT ![m] = [r EXCEPT !.step = "running", !.config = None]]
    <3> DEFINE row == [r EXCEPT !.step = "running", !.config = None]
    <3>1. /\ row \in Machine /\ row.on = r.on /\ row.step = "running"
          /\ row.identity = r.identity /\ row.got = r.got
      BY <1>2 DEF Machine
    <3> HIDE DEF row
    <3>2. machines' = [machines EXCEPT ![m] = row]
      BY <2>1 DEF row
    <3>3. r.on = None /\ r.got = 0
      BY <1>2, <2>1
    <3>4. abandoned'[m] = abandoned[m]
      BY <2>1
    <3> QED BY <1>1, <1>4, <3>1, <3>2, <3>3, <3>4, MachineKeeps DEF r
  <2>2. ASSUME NEW s \in {"saved", "off"}, abandoned' = abandoned, r.step = "answered",
               machines' = [machines EXCEPT ![m] = [r EXCEPT !.step = s, !.identity = r.got, !.got = 0]]
        PROVE  machines' \in [Machines -> Machine] /\ Requested' /\ Accounted'
    <3> DEFINE row == [r EXCEPT !.step = s, !.identity = r.got, !.got = 0]
    <3>1. /\ row \in Machine /\ row.on = r.on /\ row.step = s
          /\ row.identity = r.got /\ row.got = 0
      BY <1>2 DEF Machine
    <3> HIDE DEF row
    <3>2. machines' = [machines EXCEPT ![m] = row]
      BY <2>2 DEF row
    <3>3. r.on = None /\ r.identity = 0
      BY <1>2, <2>2
    <3>4. abandoned'[m] = abandoned[m] /\ s # "waiting" /\ s # "answered"
      BY <2>2
    <3> QED BY <1>1, <1>4, <3>1, <3>2, <3>3, <3>4, MachineKeeps DEF r
  <2>3. CASE /\ machines' = [machines EXCEPT ![m] = [r EXCEPT !.step = "off", !.on = None, !.got = 0]]
             /\ \/ r.step \in {"saved", "running"} /\ abandoned' = abandoned
                \/ /\ r.step \in {"waiting", "answered"}
                   /\ abandoned' = [abandoned EXCEPT ![m] = @ + 1]
    <3> DEFINE row == [r EXCEPT !.step = "off", !.on = None, !.got = 0]
    <3>1. /\ row \in Machine /\ row.on = None /\ row.step = "off"
          /\ row.identity = r.identity /\ row.got = 0
      BY <1>2 DEF Machine
    <3> HIDE DEF row
    <3>2. machines' = [machines EXCEPT ![m] = row]
      BY <2>3 DEF row
    <3>3. CASE r.step \in {"saved", "running"} /\ abandoned' = abandoned
      <4>1. r.on = None /\ r.got = 0
        BY <1>2, <3>3
      <4> QED BY <1>1, <1>4, <3>1, <3>2, <3>3, <4>1, MachineKeeps DEF r
    <3>4. CASE r.step \in {"waiting", "answered"} /\ abandoned' = [abandoned EXCEPT ![m] = @ + 1]
      <4>0. abandoned'[m] = abandoned[m] + 1
        BY <3>4 DEF EnrollInv, EnrollTypes
      <4>1. (r.identity = 0 /\ r.got = 0) \/ r.on = None
        BY <1>2, <3>4
      <4> QED BY <1>1, <1>4, <3>1, <3>2, <4>0, <4>1, MachineKeeps DEF r
    <3> QED BY <2>3, <3>3, <3>4
  <2> QED BY <1>3, <2>1, <2>2, <2>3
<1>6. EnrollTypes'
  BY <1>1, <1>4, <1>5 DEF EnrollInv, EnrollTypes, TokenTypes, RequestTypes
<1>7. Counted'
  BY <1>1, CountsAside
<1> QED BY <1>5, <1>6, <1>7 DEF EnrollInv

\* A token's terms are set when it is minted, and its uses count its rows.
LEMMA MintKeeps ==
  ASSUME EnrollInv, NEW t \in EnrollmentTokens, NEW max \in Nat, NEW left, NEW host,
         Mint(t, max, left, host), UNCHANGED enrolled
  PROVE  Counted' /\ TokenTypes'
<1> DEFINE row == [NoToken EXCEPT !.present = TRUE, !.max = max, !.left = left, !.host = host]
<1>0. /\ row.present = TRUE /\ row.max = max /\ row.uses = 0 /\ row.revoked \in BOOLEAN
      /\ row = [present |-> row.present, max |-> row.max, uses |-> row.uses, left |-> row.left,
                revoked |-> row.revoked, host |-> row.host]
  <2>1. NoToken = [present |-> FALSE, max |-> 0, uses |-> 0, left |-> 0, revoked |-> FALSE, host |-> None]
    BY DEF NoToken
  <2>2. PICK no \in BOOLEAN :
          NoToken = [present |-> no, max |-> 0, uses |-> 0, left |-> 0, revoked |-> no, host |-> None]
    BY <2>1, Zenon
  <2>3. PICK yes : yes = TRUE
    BY Zenon
  <2>4. row = [NoToken EXCEPT !.present = yes, !.max = max, !.left = left, !.host = host]
    BY <2>3, Zenon
  <2> HIDE DEF row
  <2>5. /\ row.present = yes /\ row.max = max /\ row.uses = 0 /\ row.revoked = no
        /\ row = [present |-> row.present, max |-> row.max, uses |-> row.uses, left |-> row.left,
                  revoked |-> row.revoked, host |-> row.host]
    BY <2>2, <2>4
  <2> QED BY <2>3, <2>5, Zenon
<1> HIDE DEF row
<1>1. ~etokens[t].present /\ etokens' = [etokens EXCEPT ![t] = row]
  BY DEF Mint, row
<1>2. (\A u \in EnrollmentTokens : u # t => etokens'[u] = etokens[u]) /\ etokens'[t] = row
  BY <1>1 DEF EnrollInv, EnrollTypes, TokenTypes
<1>3. \A u \in EnrollmentTokens : Rows(u)' = Rows(u)
  BY DEF Rows
<1>4. etokens[t].uses = 0
  BY <1>1 DEF EnrollInv, EnrollTypes, TokenTypes, Counted
<1>5. Counted'
  BY <1>0, <1>2, <1>3, <1>4 DEF EnrollInv, Counted
<1>6. etokens' = [u \in EnrollmentTokens |-> etokens'[u]]
  BY <1>1 DEF EnrollInv, EnrollTypes, TokenTypes
<1>7. ASSUME NEW u \in EnrollmentTokens
      PROVE  /\ etokens'[u].max \in Nat /\ etokens'[u].uses \in Nat /\ etokens'[u].revoked \in BOOLEAN
             /\ etokens'[u] = [present |-> etokens'[u].present, max |-> etokens'[u].max,
                               uses |-> etokens'[u].uses, left |-> etokens'[u].left,
                               revoked |-> etokens'[u].revoked, host |-> etokens'[u].host]
  <2>1. CASE u = t
    BY <1>0, <1>2, <2>1
  <2>2. CASE u # t
    <3>1. etokens'[u] = etokens[u]
      BY <1>2, <2>2
    <3> QED BY <3>1 DEF EnrollInv, EnrollTypes, TokenTypes
  <2> QED BY <2>1, <2>2
<1>8. TokenTypes'
  BY <1>6, <1>7 DEF TokenTypes
<1> QED BY <1>5, <1>8

\* What an operator does with tokens, and their ageing.
LEMMA TokenActions ==
  ASSUME EnrollInv,
         \/ \E t \in EnrollmentTokens : create_enrollment_token(t) \/ revoke_enrollment_token(t)
         \/ token_ages
  PROVE  EnrollInv'
<1>1. UNCHANGED <<enrolled, redemptions, machines, abandoned>>
  BY DEF create_enrollment_token, revoke_enrollment_token, token_ages
<1>2. Requested' /\ Accounted'
  BY <1>1 DEF EnrollInv, Requested, Accounted, Ledger, Unused, RowsOf, Orphans
<1>3. \A u \in EnrollmentTokens : Rows(u)' = Rows(u)
  BY <1>1 DEF Rows
<1>4. Counted' /\ TokenTypes'
  <2>1. CASE \E t \in EnrollmentTokens : create_enrollment_token(t)
    BY <1>1, <2>1, MintKeeps, EnrollmentAssumption DEF create_enrollment_token
  <2>2. CASE token_ages \/ \E t \in EnrollmentTokens : revoke_enrollment_token(t)
    <3>0. \A u \in EnrollmentTokens :
            etokens[u] = [present |-> etokens[u].present, max |-> etokens[u].max, uses |-> etokens[u].uses,
                          left |-> etokens[u].left, revoked |-> etokens[u].revoked, host |-> etokens[u].host]
      BY DEF EnrollInv, EnrollTypes, TokenTypes
    <3>b. \A u \in EnrollmentTokens : etokens[u].revoked \in BOOLEAN
      BY DEF EnrollInv, EnrollTypes, TokenTypes
    <3>1. \A u \in EnrollmentTokens : \E left : \E revoked \in BOOLEAN :
            etokens'[u] = [present |-> etokens[u].present, max |-> etokens[u].max, uses |-> etokens[u].uses,
                           left |-> left, revoked |-> revoked, host |-> etokens[u].host]
      <4>1. CASE token_ages
        <5> TAKE u \in EnrollmentTokens
        <5>1. PICK left : etokens'[u] = [etokens[u] EXCEPT !.left = left]
          BY <4>1 DEF token_ages
        <5>2. etokens'[u] = [present |-> etokens[u].present, max |-> etokens[u].max, uses |-> etokens[u].uses,
                             left |-> left, revoked |-> etokens[u].revoked, host |-> etokens[u].host]
          BY <3>0, <5>1
        <5> QED BY <3>b, <5>2
      <4>2. CASE \E t \in EnrollmentTokens : revoke_enrollment_token(t)
        <5>1. PICK t \in EnrollmentTokens : etokens' = [etokens EXCEPT ![t].revoked = TRUE]
          BY <4>2 DEF revoke_enrollment_token
        <5> TAKE u \in EnrollmentTokens
        <5>2. CASE u = t
          <6>1. etokens'[u] = [etokens[u] EXCEPT !.revoked = TRUE]
            BY <5>1, <5>2 DEF EnrollInv, EnrollTypes, TokenTypes
          <6>2. etokens'[u] = [present |-> etokens[u].present, max |-> etokens[u].max, uses |-> etokens[u].uses,
                               left |-> etokens[u].left, revoked |-> TRUE, host |-> etokens[u].host]
            BY <3>0, <6>1
          <6> QED BY <6>2
        <5>3. CASE u # t
          <6>1. etokens'[u] = etokens[u]
            BY <5>1, <5>3 DEF EnrollInv, EnrollTypes, TokenTypes
          <6> QED BY <3>0, <3>b, <6>1
        <5> QED BY <5>2, <5>3
      <4> QED BY <2>2, <4>1, <4>2
    <3>2. etokens' = [u \in EnrollmentTokens |-> etokens'[u]]
      BY <2>2 DEF token_ages, revoke_enrollment_token, EnrollInv, EnrollTypes, TokenTypes
    <3>3. \A u \in EnrollmentTokens :
            /\ etokens'[u].max = etokens[u].max /\ etokens'[u].uses = etokens[u].uses
            /\ etokens'[u].present = etokens[u].present /\ etokens'[u].revoked \in BOOLEAN
      <4> TAKE u \in EnrollmentTokens
      <4>1. PICK left : \E revoked \in BOOLEAN :
              etokens'[u] = [present |-> etokens[u].present, max |-> etokens[u].max, uses |-> etokens[u].uses,
                             left |-> left, revoked |-> revoked, host |-> etokens[u].host]
        BY <3>1
      <4> QED BY <4>1
    <3>4. \A u \in EnrollmentTokens :
            etokens'[u] = [present |-> etokens'[u].present, max |-> etokens'[u].max, uses |-> etokens'[u].uses,
                           left |-> etokens'[u].left, revoked |-> etokens'[u].revoked, host |-> etokens'[u].host]
      <4> TAKE u \in EnrollmentTokens
      <4>1. PICK present, max, uses, left, revoked, host :
              etokens'[u] = [present |-> present, max |-> max, uses |-> uses,
                             left |-> left, revoked |-> revoked, host |-> host]
        BY <3>1
      <4> QED BY <4>1
    <3>5. Counted'
      BY <1>1, <1>3, <3>3 DEF EnrollInv, Counted
    <3>6. TokenTypes'
      BY <3>2, <3>3, <3>4 DEF EnrollInv, EnrollTypes, TokenTypes
    <3> QED BY <3>5, <3>6
  <2> QED BY <2>1, <2>2
<1>5. EnrollTypes'
  BY <1>1, <1>4 DEF EnrollInv, EnrollTypes, RequestTypes
<1> QED BY <1>2, <1>4, <1>5 DEF EnrollInv

\* A token written to a machine's configuration.
LEMMA ConfigActions ==
  ASSUME EnrollInv, NEW t \in EnrollmentTokens, NEW m \in Machines,
         create_installer_package(t, m) \/ hand_token(m, t)
  PROVE  EnrollInv'
<1> DEFINE r == machines[m]
           row == [r EXCEPT !.config = t]
<1>1. /\ machines' = [machines EXCEPT ![m] = row]
      /\ UNCHANGED <<enrolled, redemptions, abandoned>>
  BY DEF create_installer_package, hand_token
<1>2. /\ r \in Machine /\ (r.step = "waiting" <=> r.on # None)
      /\ r.got # 0 => r.step = "answered"
      /\ r.step = "answered" => r.identity = 0
      /\ abandoned' \in [Machines -> Nat]
  BY <1>1 DEF EnrollInv, EnrollTypes, Requested
<1>3. /\ row \in Machine /\ row.on = r.on /\ row.step = r.step
      /\ row.identity = r.identity /\ row.got = r.got
  BY <1>2 DEF Machine
<1>4. machines' \in [Machines -> Machine] /\ Requested' /\ Accounted'
  <2> HIDE DEF row
  <2>1. \A q \in Machines : abandoned'[q] = abandoned[q]
    BY <1>1
  <2> QED BY <1>1, <1>2, <1>3, <2>1, MachineKeeps
<1> HIDE DEF r, row
<1>5. Counted' /\ TokenTypes'
  <2>1. CASE create_installer_package(t, m)
    <3>1. Mint(t, 1, InstallerTTL, None) /\ 1 \in Nat
      BY <2>1 DEF create_installer_package
    <3> QED BY <1>1, <3>1, MintKeeps
  <2>2. CASE hand_token(m, t)
    <3>1. UNCHANGED etokens
      BY <2>2 DEF hand_token
    <3>2. Counted'
      BY <1>1, <3>1, CountsAside
    <3> QED BY <3>1, <3>2 DEF EnrollInv, EnrollTypes, TokenTypes
  <2> QED BY <2>1, <2>2
<1>6. EnrollTypes'
  BY <1>1, <1>2, <1>4, <1>5 DEF EnrollInv, EnrollTypes, RequestTypes
<1> QED BY <1>4, <1>5, <1>6 DEF EnrollInv

\* A request in another phase, still of the same machine and token.
LEMMA PhaseKeeps ==
  ASSUME EnrollInv, NEW h \in Handlers, redemptions[h].phase # "free", NEW phase \in {"begun", "read"},
         redemptions' = [redemptions EXCEPT ![h] = redemptions'[h]],
         redemptions'[h] = [by |-> redemptions[h].by, token |-> redemptions[h].token,
                            phase |-> phase, unexpired |-> redemptions'[h].unexpired],
         UNCHANGED <<etokens, enrolled, machines, abandoned>>
  PROVE  EnrollInv'
<1>1. \A g \in Handlers : g # h => redemptions'[g] = redemptions[g]
  BY DEF EnrollInv, EnrollTypes, RequestTypes
<1>2. redemptions' = [g \in Handlers |-> redemptions'[g]]
  BY DEF EnrollInv, EnrollTypes, RequestTypes
<1>3. /\ redemptions'[h].by = redemptions[h].by /\ redemptions'[h].token = redemptions[h].token
      /\ redemptions'[h].phase = phase /\ redemptions'[h].phase # "free"
  OBVIOUS
<1>4. RequestTypes'
  <2>1. ASSUME NEW g \in Handlers
        PROVE  redemptions'[g] = [by |-> redemptions'[g].by, token |-> redemptions'[g].token,
                                  phase |-> redemptions'[g].phase, unexpired |-> redemptions'[g].unexpired]
    <3>1. CASE g = h
      BY <1>3, <3>1
    <3>2. CASE g # h
      <4>1. redemptions'[g] = redemptions[g]
        BY <1>1, <3>2
      <4> QED BY <4>1 DEF EnrollInv, EnrollTypes, RequestTypes
    <3> QED BY <3>1, <3>2
  <2> QED BY <1>2, <2>1 DEF RequestTypes
<1>5. EnrollTypes'
  BY <1>4 DEF EnrollInv, EnrollTypes, TokenTypes
<1>6. \A g \in Handlers : /\ redemptions'[g].phase = "free" <=> redemptions[g].phase = "free"
                          /\ redemptions'[g].by = redemptions[g].by /\ redemptions'[g].token = redemptions[g].token
  BY <1>1, <1>3
<1>7. \A m \in Machines : machines[m].on # None => machines[m].on \in Handlers
  BY DEF EnrollInv, EnrollTypes, Machine
<1>8. Requested'
  BY <1>6, <1>7 DEF EnrollInv, Requested
<1>9. Counted'
  BY CountsAside
<1>10. ASSUME NEW m \in Machines PROVE Ledger(m)'
  <2>1. RowsOf(m)' = RowsOf(m) /\ Orphans(m)' = Orphans(m)
    BY <1>6 DEF RowsOf, Orphans
  <2> QED BY <2>1, LedgerAside
<1> QED BY <1>5, <1>8, <1>9, <1>10 DEF EnrollInv, Accounted

\* The end of a request: it is nobody's any more, and the machine that waited, if
\* there is one, has its answer.
LEMMA Answers ==
  ASSUME EnrollInv, NEW h \in Handlers, redemptions[h].phase # "free", NEW n \in Nat, Answer(h, n)
  PROVE  /\ RequestTypes' /\ machines' \in [Machines -> Machine] /\ Requested'
         /\ \A m \in Machines :
              /\ machines[m].on # h => machines'[m] = machines[m] /\ Orphans(m)' = Orphans(m) \ {h}
              /\ machines[m].on = h => /\ machines'[m].got = n /\ machines'[m].identity = 0
                                       /\ machines[m].got = 0 /\ machines[m].identity = 0
                                       /\ redemptions[h].by = m /\ Orphans(m)' = Orphans(m)
<1>0. None \notin Handlers /\ h # None
  BY EnrollmentAssumption
<1>1. redemptions' = [redemptions EXCEPT ![h] = NoRequest]
  BY DEF Answer
<1>2. /\ redemptions'[h] = NoRequest /\ \A g \in Handlers : g # h => redemptions'[g] = redemptions[g]
      /\ redemptions' = [g \in Handlers |-> redemptions'[g]]
  BY <1>1 DEF EnrollInv, EnrollTypes, RequestTypes
<1>3. redemptions'[h].phase = "free"
  BY <1>2 DEF NoRequest
<1>4. RequestTypes'
  <2>1. ASSUME NEW g \in Handlers
        PROVE  redemptions'[g] = [by |-> redemptions'[g].by, token |-> redemptions'[g].token,
                                  phase |-> redemptions'[g].phase, unexpired |-> redemptions'[g].unexpired]
    <3>1. CASE g = h
      <4>1. PICK no : NoRequest = [by |-> None, token |-> None, phase |-> "free", unexpired |-> no]
        BY Zenon DEF NoRequest
      <4> QED BY <1>2, <3>1, <4>1
    <3>2. CASE g # h
      <4>1. redemptions'[g] = redemptions[g]
        BY <1>2, <3>2
      <4> QED BY <4>1 DEF EnrollInv, EnrollTypes, RequestTypes
    <3> QED BY <3>1, <3>2
  <2> QED BY <1>2, <2>1 DEF RequestTypes
<1>5. \A m \in Machines : machines[m] \in Machine
  BY DEF EnrollInv, EnrollTypes
<1>6. ASSUME NEW m \in Machines, machines[m].on # h PROVE machines'[m] = machines[m]
  BY <1>6 DEF Answer
<1>7. ASSUME NEW m \in Machines, machines[m].on = h
      PROVE  /\ machines'[m] \in Machine /\ machines'[m].got = n /\ machines'[m].on = None
             /\ machines'[m].identity = machines[m].identity
             /\ machines'[m].step = IF n = 0 THEN "off" ELSE "answered"
  <2>1. machines'[m] = [machines[m] EXCEPT !.step = IF n = 0 THEN "off" ELSE "answered", !.on = None, !.got = n]
    BY <1>7 DEF Answer
  <2>2. machines[m] \in Machine
    BY <1>5
  <2> QED BY <2>1, <2>2 DEF Machine
<1>8. machines' \in [Machines -> Machine]
  <2>1. machines' = [m \in Machines |-> machines'[m]]
    BY DEF Answer
  <2>2. \A m \in Machines : machines'[m] \in Machine
    BY <1>5, <1>6, <1>7
  <2> QED BY <2>1, <2>2
<1>9. ASSUME NEW m \in Machines, machines[m].on = h
      PROVE  machines[m].got = 0 /\ machines[m].identity = 0 /\ redemptions[h].by = m
  BY <1>0, <1>9 DEF EnrollInv, Requested
<1>10. Requested'
  <2>1. \A g \in Handlers : (redemptions[g].phase # "free" =>
          redemptions[g].by \in Machines /\ redemptions[g].token \in EnrollmentTokens)'
    BY <1>2, <1>3 DEF EnrollInv, Requested
  <2> SUFFICES ASSUME NEW q \in Machines
               PROVE  /\ machines'[q].step = "waiting" <=> machines'[q].on # None
                      /\ machines'[q].on # None => /\ redemptions'[machines'[q].on].phase # "free"
                                                   /\ redemptions'[machines'[q].on].by = q
                                                   /\ machines'[q].identity = 0 /\ machines'[q].got = 0
                      /\ machines'[q].got # 0 => machines'[q].step = "answered"
                      /\ machines'[q].step = "answered" => machines'[q].identity = 0
    BY <2>1 DEF Requested
  <2>2. CASE machines[q].on = h
    BY <1>7, <1>9, <2>2
  <2>3. CASE machines[q].on # h
    <3>1. machines'[q] = machines[q]
      BY <1>6, <2>3
    <3>2. machines[q].on # None => redemptions'[machines[q].on] = redemptions[machines[q].on]
      BY <1>2, <1>5, <2>3 DEF Machine
    <3> QED BY <3>1, <3>2 DEF EnrollInv, Requested
  <2> QED BY <2>2, <2>3
<1>11. ASSUME NEW m \in Machines, machines[m].on # h PROVE Orphans(m)' = Orphans(m) \ {h}
  <2>1. machines'[m].on = machines[m].on
    BY <1>6, <1>11
  <2> QED BY <1>2, <1>3, <2>1 DEF Orphans
<1>12. ASSUME NEW m \in Machines, machines[m].on = h PROVE Orphans(m)' = Orphans(m)
  <2>1. machines'[m].on = None
    BY <1>7, <1>12
  <2> QED BY <1>0, <1>2, <1>3, <1>12, <2>1 DEF Orphans
<1> QED BY <1>4, <1>6, <1>7, <1>8, <1>9, <1>10, <1>11, <1>12

\* An answer without an agent row, a refusal, changes no account.
LEMMA RefusalKeeps ==
  ASSUME EnrollInv, NEW h \in Handlers, redemptions[h].phase # "free", Answer(h, 0),
         UNCHANGED <<etokens, enrolled, abandoned>>
  PROVE  EnrollInv'
<1>1. /\ RequestTypes' /\ machines' \in [Machines -> Machine] /\ Requested'
      /\ \A m \in Machines :
           /\ machines[m].on # h => machines'[m] = machines[m] /\ Orphans(m)' = Orphans(m) \ {h}
           /\ machines[m].on = h => /\ machines'[m].got = 0 /\ machines'[m].identity = 0
                                    /\ machines[m].got = 0 /\ machines[m].identity = 0
                                    /\ redemptions[h].by = m /\ Orphans(m)' = Orphans(m)
  BY Answers
<1>2. EnrollTypes'
  BY <1>1 DEF EnrollInv, EnrollTypes, TokenTypes
<1>3. ASSUME NEW m \in Machines PROVE Ledger(m)'
  <2>1. RowsOf(m)' = RowsOf(m)
    BY DEF RowsOf
  <2>2. /\ Orphans(m)' \subseteq Orphans(m)
        /\ machines'[m].identity = machines[m].identity /\ machines'[m].got = machines[m].got
    BY <1>1
  <2> QED BY <2>1, <2>2, LedgerAside
<1>4. Counted'
  BY CountsAside
<1> QED BY <1>1, <1>2, <1>3, <1>4 DEF EnrollInv, Accounted

\* A redemption: the token has one more use and the table one more row, which is
\* its machine's answer or, when the machine has given up, one of its orphans.
LEMMA RedemptionKeeps ==
  ASSUME EnrollInv, NEW h \in Handlers, redemptions[h].phase = "read", Consumable(h),
         redeem_enrollment_token(h)
  PROVE  EnrollInv'
<1>0. PICK t \in EnrollmentTokens, b \in Machines, n \in Nat :
        t = redemptions[h].token /\ b = redemptions[h].by /\ n = Len(enrolled) + 1
  BY EnrollFinite DEF EnrollInv, Requested
<1> DEFINE row == [machine |-> b, token |-> t, revoked |-> etokens[t].revoked]
<1>1. /\ etokens' = [etokens EXCEPT ![t].uses = @ + 1] /\ enrolled' = Append(enrolled, row)
      /\ Answer(h, n) /\ abandoned' = abandoned
  BY <1>0 DEF redeem_enrollment_token
<1>2. /\ ~etokens[t].revoked
      /\ etokens[t].revoked \in BOOLEAN /\ etokens[t].uses < etokens[t].max
  BY <1>0 DEF EnrollInv, EnrollTypes, TokenTypes, Consumable
<1>3. /\ row \in EnrolledAgent /\ row.machine = b /\ row.token = t /\ ~row.revoked
  BY <1>2 DEF EnrolledAgent
<1>4. EnrollTypes /\ Len(enrolled) \in Nat /\ n # 0 /\ DOMAIN enrolled = 1..Len(enrolled)
      /\ n \notin DOMAIN enrolled
  BY <1>0, EnrollFinite DEF EnrollInv
<1> HIDE DEF row
<1>5. /\ enrolled' \in Seq(EnrolledAgent) /\ DOMAIN enrolled' = DOMAIN enrolled \cup {n}
      /\ enrolled'[n] = row /\ \A i \in DOMAIN enrolled : enrolled'[i] = enrolled[i]
  BY <1>0, <1>1, <1>3, <1>4 DEF EnrollTypes
<1>6. /\ RequestTypes' /\ machines' \in [Machines -> Machine] /\ Requested'
      /\ \A m \in Machines :
           /\ machines[m].on # h => machines'[m] = machines[m] /\ Orphans(m)' = Orphans(m) \ {h}
           /\ machines[m].on = h => /\ machines'[m].got = n /\ machines'[m].identity = 0
                                    /\ machines[m].got = 0 /\ machines[m].identity = 0
                                    /\ redemptions[h].by = m /\ Orphans(m)' = Orphans(m)
  <2>1. redemptions[h].phase # "free"
    OBVIOUS
  <2> QED BY <1>1, <1>4, <2>1, Answers
<1>7. /\ TokenTypes' /\ etokens'[t].uses = etokens[t].uses + 1
      /\ \A u \in EnrollmentTokens : /\ etokens'[u].max = etokens[u].max
                                     /\ etokens'[u].present = etokens[u].present
                                     /\ u # t => etokens'[u].uses = etokens[u].uses
  <2> DEFINE old == etokens[t]
             new == etokens'[t]
  <2>1. /\ \A u \in EnrollmentTokens : u # t => etokens'[u] = etokens[u]
        /\ etokens' = [u \in EnrollmentTokens |-> etokens'[u]]
        /\ new = [old EXCEPT !.uses = old.uses + 1]
    BY <1>1, <1>2 DEF EnrollInv, EnrollTypes, TokenTypes
  <2>2. old = [present |-> old.present, max |-> old.max, uses |-> old.uses,
               left |-> old.left, revoked |-> old.revoked, host |-> old.host]
        /\ old.max \in Nat /\ old.uses \in Nat /\ old.revoked \in BOOLEAN
    BY <1>2 DEF EnrollInv, EnrollTypes, TokenTypes
  <2> HIDE DEF old, new
  <2>3. new = [present |-> old.present, max |-> old.max, uses |-> old.uses + 1,
               left |-> old.left, revoked |-> old.revoked, host |-> old.host]
    BY <2>1, <2>2
  <2>4. /\ new = [present |-> new.present, max |-> new.max, uses |-> new.uses,
                  left |-> new.left, revoked |-> new.revoked, host |-> new.host]
        /\ new.max = old.max /\ new.present = old.present /\ new.uses = old.uses + 1
        /\ new.max \in Nat /\ new.uses \in Nat /\ new.revoked \in BOOLEAN
    BY <2>2, <2>3
  <2>5. ASSUME NEW u \in EnrollmentTokens
        PROVE  /\ etokens'[u].max \in Nat /\ etokens'[u].uses \in Nat /\ etokens'[u].revoked \in BOOLEAN
               /\ etokens'[u] = [present |-> etokens'[u].present, max |-> etokens'[u].max,
                                 uses |-> etokens'[u].uses, left |-> etokens'[u].left,
                                 revoked |-> etokens'[u].revoked, host |-> etokens'[u].host]
    <3>1. CASE u = t
      BY <2>4, <3>1 DEF new
    <3>2. CASE u # t
      <4>1. etokens'[u] = etokens[u]
        BY <2>1, <3>2
      <4> QED BY <4>1 DEF EnrollInv, EnrollTypes, TokenTypes
    <3> QED BY <3>1, <3>2
  <2>6. TokenTypes'
    BY <2>1, <2>5 DEF TokenTypes
  <2> QED BY <2>1, <2>4, <2>6 DEF new, old
<1>8. EnrollTypes'
  BY <1>1, <1>5, <1>6, <1>7 DEF EnrollInv, EnrollTypes
<1>9. Counted'
  <2>1. Rows(t)' = Rows(t) \cup {n} /\ n \notin Rows(t) /\ \A u \in EnrollmentTokens : u # t => Rows(u)' = Rows(u)
    BY <1>3, <1>4, <1>5 DEF Rows
  <2>2. IsFiniteSet(Rows(t)) /\ Cardinality(Rows(t)) \in Nat
    BY <1>2, <1>4, EnrollFinite, FS_CardinalityType
  <2>3. Cardinality(Rows(t)') = Cardinality(Rows(t)) + 1
    BY <2>1, <2>2, FS_AddElement
  <2>4. \A i \in DOMAIN enrolled' : ~enrolled'[i].revoked
    BY <1>3, <1>5 DEF EnrollInv, Counted
  <2>5. ASSUME NEW u \in EnrollmentTokens
        PROVE  /\ etokens'[u].uses = Cardinality(Rows(u)') /\ etokens'[u].uses <= etokens'[u].max
               /\ ~etokens'[u].present => etokens'[u].max = 0
    <3>0. /\ etokens[u].uses \in Nat /\ etokens[u].max \in Nat
          /\ etokens[u].uses = Cardinality(Rows(u)) /\ etokens[u].uses <= etokens[u].max
          /\ ~etokens[u].present => etokens[u].max = 0
      BY DEF EnrollInv, EnrollTypes, TokenTypes, Counted
    <3>1. etokens'[u].max = etokens[u].max /\ etokens'[u].present = etokens[u].present
      BY <1>7
    <3>2. ~etokens'[u].present => etokens'[u].max = 0
      BY <3>0, <3>1
    <3>3. CASE u = t
      <4>1. etokens'[u].uses = etokens[u].uses + 1 /\ etokens[u].uses < etokens[u].max
        BY <1>2, <1>7, <3>3
      <4>2. Cardinality(Rows(u)') = Cardinality(Rows(u)) + 1
        BY <2>3, <3>3
      <4> QED BY <3>0, <3>1, <3>2, <4>1, <4>2
    <3>4. CASE u # t
      <4>1. Rows(u)' = Rows(u) /\ etokens'[u].uses = etokens[u].uses
        BY <1>7, <2>1, <3>4
      <4> QED BY <3>0, <3>1, <3>2, <4>1
    <3> QED BY <3>3, <3>4
  <2> QED BY <2>4, <2>5 DEF Counted
<1>10. ASSUME NEW m \in Machines PROVE Ledger(m)'
  <2>0. /\ Ledger(m) /\ abandoned'[m] = abandoned[m] /\ abandoned[m] \in Nat /\ EnrollTypes
        /\ machines'[m].got \in Nat /\ machines'[m].identity \in Nat
    BY <1>1, <1>6 DEF EnrollInv, EnrollTypes, Accounted, Machine
  <2>1. RowsOf(m)' = IF m = b THEN RowsOf(m) \cup {n} ELSE RowsOf(m)
    BY <1>3, <1>4, <1>5 DEF RowsOf
  <2>2. CASE m # b
    <3>1. machines[m].on # h
      BY <1>0, <1>6, <2>2
    <3>2. RowsOf(m)' = RowsOf(m) /\ Orphans(m)' \subseteq Orphans(m) /\ machines'[m] = machines[m]
      BY <1>6, <2>1, <2>2, <3>1
    <3> QED BY <2>0, <3>2, LedgerAside
  <2>3. CASE m = b /\ machines[m].on = h
    <3>1. /\ machines'[m].got = n /\ machines'[m].identity = 0
          /\ machines[m].got = 0 /\ machines[m].identity = 0 /\ Orphans(m)' \subseteq Orphans(m)
      BY <1>6, <2>3
    <3>2. RowsOf(m)' = RowsOf(m) \cup {n}
      BY <2>1, <2>3
    <3>3. 0 \notin RowsOf(m)
      BY <1>4 DEF RowsOf
    <3>4. Unused(m)' \subseteq Unused(m)
      BY <3>1, <3>2, <3>3 DEF Unused
    <3>5. Cardinality(Unused(m)') + Cardinality(Orphans(m)') <= abandoned'[m]
      BY <2>0, <3>1, <3>4, LedgerStep
    <3> QED BY <3>1, <3>2, <3>5 DEF Ledger
  <2>4. CASE m = b /\ machines[m].on # h
    <3>1. machines'[m] = machines[m] /\ Orphans(m)' \subseteq Orphans(m) \ {h}
      BY <1>6, <2>4
    <3>2. h \in Orphans(m)
      BY <1>0, <2>4 DEF Orphans
    <3>3. RowsOf(m)' = RowsOf(m) \cup {n}
      BY <2>1, <2>4
    <3>4. Unused(m)' \subseteq Unused(m) \cup {n}
      BY <3>1, <3>3 DEF Unused
    <3>5. Cardinality(Unused(m)') + Cardinality(Orphans(m)') <= abandoned'[m]
      BY <2>0, <3>1, <3>2, <3>4, LedgerStep
    <3> QED BY <2>0, <3>1, <3>3, <3>5 DEF Ledger
  <2> QED BY <2>2, <2>3, <2>4
<1> QED BY <1>6, <1>8, <1>9, <1>10 DEF EnrollInv, Accounted

\* A machine without an identity asks for one; it waits for no other request.
LEMMA RequestKeeps ==
  ASSUME EnrollInv, NEW m \in Machines, ensureEnrolled(m)
  PROVE  EnrollInv'
<1>1. PICK h \in Handlers :
        /\ redemptions[h].phase = "free"
        /\ redemptions' = [redemptions EXCEPT ![h] =
             [by |-> m, token |-> machines[m].config, phase |-> "sent", unexpired |-> FALSE]]
        /\ machines' = [machines EXCEPT ![m].step = "waiting", ![m].on = h]
  BY DEF ensureEnrolled
<1>2. /\ machines[m].step = "off" /\ machines[m].identity = 0 /\ machines[m].config # None
      /\ UNCHANGED <<etokens, enrolled, abandoned>>
  BY DEF ensureEnrolled
<1>3. /\ machines[m] \in Machine /\ machines[m].config \in EnrollmentTokens
      /\ machines[m].on = None /\ machines[m].got = 0 /\ h # None
  BY <1>2, EnrollmentAssumption DEF EnrollInv, EnrollTypes, Requested, Machine
<1>4. /\ \A q \in Machines : q # m => machines'[q] = machines[q]
      /\ machines' = [q \in Machines |-> machines'[q]]
      /\ machines'[m] = [machines[m] EXCEPT !.step = "waiting", !.on = h]
  BY <1>1 DEF EnrollInv, EnrollTypes
<1>5. /\ machines'[m] \in Machine /\ machines'[m].step = "waiting" /\ machines'[m].on = h
      /\ machines'[m].identity = 0 /\ machines'[m].got = 0
  BY <1>2, <1>3, <1>4 DEF Machine
<1>6. machines' \in [Machines -> Machine]
  BY <1>4, <1>5 DEF EnrollInv, EnrollTypes
<1>7. /\ redemptions' = [g \in Handlers |-> redemptions'[g]]
      /\ \A g \in Handlers : g # h => redemptions'[g] = redemptions[g]
      /\ \E no : redemptions'[h] = [by |-> m, token |-> machines[m].config, phase |-> "sent", unexpired |-> no]
  BY <1>1 DEF EnrollInv, EnrollTypes, RequestTypes
<1>8. PICK no : redemptions'[h] = [by |-> m, token |-> machines[m].config, phase |-> "sent", unexpired |-> no]
  BY <1>7
<1>9. RequestTypes'
  <2>1. ASSUME NEW g \in Handlers
        PROVE  redemptions'[g] = [by |-> redemptions'[g].by, token |-> redemptions'[g].token,
                                  phase |-> redemptions'[g].phase, unexpired |-> redemptions'[g].unexpired]
    <3>1. CASE g = h
      BY <1>8, <3>1
    <3>2. CASE g # h
      <4>1. redemptions'[g] = redemptions[g]
        BY <1>7, <3>2
      <4> QED BY <4>1 DEF EnrollInv, EnrollTypes, RequestTypes
    <3> QED BY <3>1, <3>2
  <2> QED BY <1>7, <2>1 DEF RequestTypes
<1>10. EnrollTypes'
  BY <1>2, <1>6, <1>9 DEF EnrollInv, EnrollTypes, TokenTypes
<1>11. \A q \in Machines : machines[q].on # h
  BY <1>1, <1>3 DEF EnrollInv, Requested
<1>12. Requested'
  <2>1. ASSUME NEW g \in Handlers, redemptions'[g].phase # "free"
        PROVE  redemptions'[g].by \in Machines /\ redemptions'[g].token \in EnrollmentTokens
    <3>1. CASE g = h
      BY <1>3, <1>8, <3>1
    <3>2. CASE g # h
      <4>1. redemptions'[g] = redemptions[g]
        BY <1>7, <3>2
      <4> QED BY <2>1, <4>1 DEF EnrollInv, Requested
    <3> QED BY <3>1, <3>2
  <2>2. ASSUME NEW q \in Machines
        PROVE  /\ machines'[q].step = "waiting" <=> machines'[q].on # None
               /\ machines'[q].on # None => /\ redemptions'[machines'[q].on].phase # "free"
                                            /\ redemptions'[machines'[q].on].by = q
                                            /\ machines'[q].identity = 0 /\ machines'[q].got = 0
               /\ machines'[q].got # 0 => machines'[q].step = "answered"
               /\ machines'[q].step = "answered" => machines'[q].identity = 0
    <3>1. CASE q = m
      BY <1>3, <1>5, <1>8, <3>1
    <3>2. CASE q # m
      <4>1. machines'[q] = machines[q]
        BY <1>4, <3>2
      <4>2. machines[q].on # None => redemptions'[machines[q].on] = redemptions[machines[q].on]
        BY <1>7, <1>11 DEF EnrollInv, EnrollTypes, Machine
      <4> QED BY <4>1, <4>2 DEF EnrollInv, Requested
    <3> QED BY <3>1, <3>2
  <2> QED BY <2>1, <2>2 DEF Requested
<1>13. Counted'
  BY <1>2, CountsAside
<1>14. ASSUME NEW q \in Machines PROVE Ledger(q)'
  <2>1. RowsOf(q)' = RowsOf(q)
    BY <1>2 DEF RowsOf
  <2>2. /\ machines'[q].identity = machines[q].identity /\ machines'[q].got = machines[q].got
        /\ abandoned'[q] = abandoned[q]
    BY <1>2, <1>3, <1>4, <1>5
  <2>3. Orphans(q)' \subseteq Orphans(q)
    <3> SUFFICES ASSUME NEW g \in Orphans(q)' PROVE g \in Orphans(q)
      OBVIOUS
    <3>1. g \in Handlers /\ redemptions'[g].phase # "free" /\ redemptions'[g].by = q /\ machines'[q].on # g
      BY DEF Orphans
    <3>2. g # h
      BY <1>5, <1>8, <3>1
    <3>3. redemptions'[g] = redemptions[g]
      BY <1>7, <3>1, <3>2
    <3>4. machines[q].on # g
      BY <1>3, <1>4, <3>1, EnrollmentAssumption
    <3> QED BY <3>1, <3>3, <3>4 DEF Orphans
  <2> QED BY <2>1, <2>2, <2>3, LedgerAside
<1> QED BY <1>10, <1>12, <1>13, <1>14 DEF EnrollInv, Accounted

\* Every step of enrollment keeps the accounts.
LEMMA EnrollKeeps ==
  ASSUME EnrollInv, EnrollNext PROVE EnrollInv'
<1>1. ASSUME NEW h \in Handlers,
             enroll_begins(h) \/ (read_token(h) /\ Redeemable(h))
      PROVE  EnrollInv'
  <2>1. /\ redemptions = [g \in Handlers |-> redemptions[g]]
        /\ redemptions[h] = [by |-> redemptions[h].by, token |-> redemptions[h].token,
                             phase |-> redemptions[h].phase, unexpired |-> redemptions[h].unexpired]
    BY DEF EnrollInv, EnrollTypes, RequestTypes
  <2> DEFINE Looks(phase, live) ==
          /\ redemptions[h].phase # "free"
          /\ redemptions' = [redemptions EXCEPT ![h].phase = phase, ![h].unexpired = live]
          /\ UNCHANGED <<etokens, enrolled, machines, abandoned>>
  <2>1a. PICK phase \in {"begun", "read"} : \E live : Looks(phase, live)
    <3>1. CASE enroll_begins(h)
      <4>1. Looks("begun", etokens[redemptions[h].token].left > 0)
        BY <3>1 DEF enroll_begins
      <4> QED BY <4>1
    <3>2. CASE read_token(h) /\ Redeemable(h)
      <4>1. /\ redemptions[h].phase = "begun" /\ redemptions' = [redemptions EXCEPT ![h].phase = "read"]
            /\ UNCHANGED <<etokens, enrolled, machines, abandoned>>
        BY <3>2 DEF read_token
      <4>2. redemptions' = [redemptions EXCEPT ![h].phase = "read", ![h].unexpired = redemptions[h].unexpired]
        BY <2>1, <4>1
      <4>3. Looks("read", redemptions[h].unexpired)
        BY <4>1, <4>2
      <4> QED BY <4>3
    <3> QED BY <1>1, <3>1, <3>2
  <2>2. PICK live : Looks(phase, live)
    BY <2>1a
  <2>3. /\ redemptions' = [redemptions EXCEPT ![h] = redemptions'[h]]
        /\ redemptions'[h] = [redemptions[h] EXCEPT !.phase = phase, !.unexpired = live]
    BY <2>1, <2>2
  <2>4. redemptions'[h] = [by |-> redemptions[h].by, token |-> redemptions[h].token,
                           phase |-> phase, unexpired |-> live]
    BY <2>1, <2>3
  <2>5. redemptions'[h].unexpired = live
    BY <2>4
  <2> QED BY <2>2, <2>3, <2>4, <2>5, PhaseKeeps
<1>2. ASSUME NEW h \in Handlers,
             \/ read_token(h) /\ ~Redeemable(h)
             \/ redeem_enrollment_token(h) /\ ~Consumable(h)
             \/ enroll_refused(h)
      PROVE  EnrollInv'
  <2>1. redemptions[h].phase # "free" /\ Answer(h, 0) /\ UNCHANGED <<etokens, enrolled, abandoned>>
    BY <1>2 DEF read_token, redeem_enrollment_token, enroll_refused
  <2> QED BY <2>1, RefusalKeeps
<1>3. ASSUME NEW h \in Handlers, redeem_enrollment_token(h), Consumable(h) PROVE EnrollInv'
  <2>1. redemptions[h].phase = "read"
    BY <1>3 DEF redeem_enrollment_token
  <2> QED BY <1>3, <2>1, RedemptionKeeps
<1>4. ASSUME NEW m \in Machines,
             \/ loadSession(m) \/ request_lost(m) \/ saveIdentity(m) \/ saveIdentity_fails(m)
             \/ ClearEnrollmentToken(m) \/ machine_stops(m)
      PROVE  EnrollInv'
  BY <1>4, MachineActions
<1>5. ASSUME NEW m \in Machines, ensureEnrolled(m) PROVE EnrollInv'
  BY <1>5, RequestKeeps
<1>6. ASSUME NEW t \in EnrollmentTokens, NEW m \in Machines,
             create_installer_package(t, m) \/ hand_token(m, t)
      PROVE  EnrollInv'
  BY <1>6, ConfigActions
<1>7. ASSUME \/ \E t \in EnrollmentTokens : create_enrollment_token(t) \/ revoke_enrollment_token(t)
             \/ token_ages
      PROVE  EnrollInv'
  BY <1>7, TokenActions
<1> QED BY <1>1, <1>2, <1>3, <1>4, <1>5, <1>6, <1>7 DEF EnrollNext

\* The accounts hold in every state of the fleet.
LEMMA EnrollInvariance == FleetSpec => []EnrollInv
<1>1. FleetInit => EnrollInv
  <2> SUFFICES ASSUME FleetInit PROVE EnrollInv
    OBVIOUS
  <2>1. /\ etokens = [t \in EnrollmentTokens |-> NoToken] /\ enrolled = << >>
        /\ redemptions = [h \in Handlers |-> NoRequest] /\ abandoned = [m \in Machines |-> 0]
        /\ machines = [m \in Machines |->
                         [config |-> None, identity |-> 0, step |-> "off", on |-> None, got |-> 0]]
    BY DEF FleetInit, EnrollInit
  <2>2. PICK no \in BOOLEAN :
          /\ NoToken = [present |-> no, max |-> 0, uses |-> 0, left |-> 0, revoked |-> no, host |-> None]
          /\ NoRequest = [by |-> None, token |-> None, phase |-> "free", unexpired |-> no]
    BY Zenon DEF NoToken, NoRequest
  <2>3. TokenTypes /\ \A t \in EnrollmentTokens : etokens[t].uses = 0 /\ etokens[t].max = 0
    BY <2>1, <2>2 DEF TokenTypes
  <2>4. RequestTypes /\ \A h \in Handlers : redemptions[h].phase = "free"
    BY <2>1, <2>2 DEF RequestTypes
  <2>5. /\ machines \in [Machines -> Machine]
        /\ \A m \in Machines : /\ machines[m].step = "off" /\ machines[m].on = None
                                /\ machines[m].identity = 0 /\ machines[m].got = 0
    BY <2>1 DEF Machine
  <2>6. EnrollTypes
    BY <2>1, <2>3, <2>4, <2>5 DEF EnrollTypes
  <2>7. DOMAIN enrolled = {}
    BY <2>1
  <2>8. Cardinality({}) = 0
    BY FS_EmptySet
  <2>9. Counted
    <3>1. \A t \in EnrollmentTokens : Rows(t) = {}
      BY <2>7 DEF Rows
    <3> QED BY <2>3, <2>7, <2>8, <3>1 DEF Counted
  <2>10. Accounted
    <3>1. \A m \in Machines : RowsOf(m) = {} /\ Unused(m) = {} /\ Orphans(m) = {}
      BY <2>4, <2>7 DEF RowsOf, Unused, Orphans
    <3>2. \A m \in Machines : abandoned[m] = 0
      BY <2>1
    <3> QED BY <2>5, <2>8, <3>1, <3>2 DEF Accounted, Ledger
  <2>11. Requested
    BY <2>4, <2>5 DEF Requested
  <2> QED BY <2>6, <2>9, <2>10, <2>11 DEF EnrollInv
<1>2. EnrollInv /\ [FleetNext]_fleetVars => EnrollInv'
  <2> SUFFICES ASSUME EnrollInv, [FleetNext]_fleetVars PROVE EnrollInv'
    OBVIOUS
  <2>1. CASE EnrollNext
    BY <2>1, EnrollKeeps
  <2>2. CASE ~EnrollNext
    <3>1. UNCHANGED <<etokens, enrolled, redemptions, machines, abandoned>>
      BY <2>2 DEF FleetNext, fleetVars, enrollVars
    <3>2. EnrollTypes'
      BY <3>1 DEF EnrollInv, EnrollTypes, TokenTypes, RequestTypes
    <3>3. Requested'
      BY <3>1 DEF EnrollInv, Requested
    <3>4. Counted'
      BY <3>1, CountsAside
    <3>5. ASSUME NEW m \in Machines PROVE Ledger(m)'
      BY <3>1, LedgerAside DEF RowsOf, Orphans
    <3> QED BY <3>2, <3>3, <3>4, <3>5 DEF EnrollInv, Accounted
  <2> QED BY <2>1, <2>2
<1> QED BY <1>1, <1>2, PTL DEF FleetSpec, fleetVars

(* For every number of machines, tokens and concurrent requests, with or without row
   locks, a token enrolls as many agents as it has uses, never more than it allows
   and none once it is revoked, and a machine has an agent row it does not use only
   for a request whose answer did not reach its disk (redeem_enrollment_token,
   ensureEnrolled, EnrollIdentity). *)
THEOREM EveryEnrollmentAccounted == FleetSpec => []EnrollmentsAccounted
<1>1. EnrollInv => EnrollmentsAccounted
  <2> SUFFICES ASSUME EnrollInv PROVE EnrollmentsAccounted
    OBVIOUS
  <2>1. ASSUME NEW t \in EnrollmentTokens
        PROVE  etokens[t].uses = Cardinality(Of(LAMBDA r : r.token = t)) /\ etokens[t].uses <= etokens[t].max
    <3>1. Of(LAMBDA r : r.token = t) = Rows(t)
      BY DEF Of, Rows
    <3>2. etokens[t].uses = Cardinality(Rows(t)) /\ etokens[t].uses <= etokens[t].max
      BY DEF EnrollInv, Counted
    <3> QED BY <3>1, <3>2, Zenon
  <2>2. \A n \in DOMAIN enrolled : ~enrolled[n].revoked
    BY DEF EnrollInv, Counted
  <2>3. ASSUME NEW m \in Machines
        PROVE  /\ machines[m].identity # 0 => enrolled[machines[m].identity].machine = m
               /\ Cardinality(Of(LAMBDA r : r.machine = m) \ {machines[m].identity, machines[m].got})
                    <= abandoned[m]
    <3>1. Of(LAMBDA r : r.machine = m) \ {machines[m].identity, machines[m].got} = Unused(m)
      BY DEF Of, Unused, RowsOf
    <3>2. IsFiniteSet(Unused(m)) /\ IsFiniteSet(Orphans(m)) /\ Ledger(m) /\ abandoned[m] \in Nat
      BY EnrollFinite DEF EnrollInv, EnrollTypes, Accounted
    <3>3. Cardinality(Unused(m)) \in Nat /\ Cardinality(Orphans(m)) \in Nat
      BY <3>2, FS_CardinalityType
    <3>4. Cardinality(Unused(m)) <= abandoned[m]
      BY <3>2, <3>3 DEF Ledger
    <3>5. machines[m].identity # 0 => enrolled[machines[m].identity].machine = m
      BY <3>2 DEF Ledger, RowsOf
    <3> QED BY <3>1, <3>4, <3>5
  <2> QED BY <2>1, <2>2, <2>3 DEF EnrollmentsAccounted
<1> QED BY <1>1, EnrollInvariance, PTL
=============================================================================
