-------------------------- MODULE ApprovalsProofs --------------------------
(***************************************************************************)
(* Proofs about two-person authorization (Approvals.tla): what a command   *)
(* cites really authorizes it, and nothing that has ended is used again.   *)
(*                                                                         *)
(* A dispatch reads an approval, and commits later on a condition that     *)
(* looks at the status alone.  That this is enough is the inductive        *)
(* invariant: from its approval on, a request changes nothing but its      *)
(* status, and the status never becomes "approved" again.                  *)
(***************************************************************************)
EXTENDS Approvals, FiniteSetTheorems, WellFoundedInduction, TLAPS

\* The tables as functions of rows.
RequestRows ==
  /\ requests = [r \in DOMAIN requests |-> requests[r]]
  /\ \A r \in DOMAIN requests :
       /\ requests[r] = [status |-> requests[r].status, by |-> requests[r].by, bind |-> requests[r].bind,
                         required |-> requests[r].required, exp |-> requests[r].exp,
                         decisions |-> requests[r].decisions]
       /\ requests[r].decisions = [o \in Operators |-> requests[r].decisions[o]]
       /\ requests[r].status \in LiveStatuses => \A o \in Operators : requests[r].decisions[o] # "reject"

OverrideRows ==
  /\ overrides = [v \in DOMAIN overrides |-> overrides[v]]
  /\ \A v \in DOMAIN overrides :
       overrides[v] = [status |-> overrides[v].status, by |-> overrides[v].by, bind |-> overrides[v].bind,
                       exp |-> overrides[v].exp, notice |-> overrides[v].notice,
                       reviewer |-> overrides[v].reviewer]

CommandRows ==
  /\ commands = [c \in DOMAIN commands |-> commands[c]]
  /\ \A c \in Created :
       commands[c] = [outstanding |-> commands[c].outstanding, by |-> commands[c].by,
                      bind |-> commands[c].bind, issued |-> commands[c].issued,
                      approval |-> commands[c].approval, override |-> commands[c].override]

Handling == txns = [t \in DOMAIN txns |-> txns[t]]

\* Request r authorizes `by` to order b at `at`, or did before it was spent or ended.
Approved(r, by, b, at) ==
  /\ r \in DOMAIN requests /\ requests[r].status \notin {"absent", "pending"}
  /\ requests[r].bind = b /\ requests[r].by = by /\ at < requests[r].exp
  /\ Cardinality({o \in Operators \ {requests[r].by} : requests[r].decisions[o] = "approve"})
       >= requests[r].required
  /\ \A o \in Operators : requests[r].decisions[o] # "reject"

Overridden(v, by, b, at) ==
  /\ v \in DOMAIN overrides /\ overrides[v].status # "absent"
  /\ overrides[v].bind = b /\ overrides[v].by = by /\ at < overrides[v].exp

\* What a dispatch has read is still true of the row but for its status.
Gated == \A t \in DOMAIN txns : txns[t].op = "dispatch" =>
  /\ txns[t].cites = "approval" => Approved(txns[t].on, txns[t].who, txns[t].bind, txns[t].now)
  /\ txns[t].cites = "override" => Overridden(txns[t].on, txns[t].who, txns[t].bind, txns[t].now)

\* What a command cites authorized it, and is spent.
Cited == \A c \in Created :
  /\ commands[c].approval # None =>
       /\ Approved(commands[c].approval, commands[c].by, commands[c].bind, commands[c].issued)
       /\ requests[commands[c].approval].status # "approved"
  /\ commands[c].override # None =>
       /\ Overridden(commands[c].override, commands[c].by, commands[c].bind, commands[c].issued)
       /\ overrides[commands[c].override].status # "active"

CitedOnce == \A c \in Created : \A d \in Created \ {c} :
  /\ commands[c].approval # None => commands[c].approval # commands[d].approval
  /\ commands[c].override # None => commands[c].override # commands[d].override

\* Times and counts are numbers, in the rows and in the policies they come from.
Numbers ==
  /\ clock \in Nat /\ policies \in [DOMAIN InitialPolicies -> ApprovalPolicy \cup {None}]
  /\ \A r \in DOMAIN requests : requests[r].exp \in Nat /\ requests[r].required \in Nat
  /\ \A v \in DOMAIN overrides : overrides[v].exp \in Nat
  /\ \A t \in DOMAIN txns : txns[t].now \in Nat /\ txns[t].required \in Nat

AuthInv ==
  RequestRows /\ OverrideRows /\ CommandRows /\ Handling /\ Numbers /\ Gated /\ Cited /\ CitedOnce

\* What a step may do to a request that has been decided, and to one that has ended.
RequestsSteady ==
  /\ DOMAIN requests' = DOMAIN requests
  /\ \A r \in DOMAIN requests : requests[r].status \notin {"absent", "pending"} =>
       /\ requests'[r].by = requests[r].by /\ requests'[r].bind = requests[r].bind
       /\ requests'[r].required = requests[r].required /\ requests'[r].exp = requests[r].exp
       /\ requests'[r].decisions = requests[r].decisions
       /\ \/ requests'[r].status = requests[r].status
          \/ requests'[r].status \in {"expired", "cancelled"}
          \/ requests[r].status = "approved" /\ requests'[r].status = "consumed"

OverridesSteady ==
  /\ DOMAIN overrides' = DOMAIN overrides
  /\ \A v \in DOMAIN overrides : overrides[v].status # "absent" =>
       /\ overrides'[v].by = overrides[v].by /\ overrides'[v].bind = overrides[v].bind
       /\ overrides'[v].exp = overrides[v].exp
       /\ \/ overrides'[v].status = overrides[v].status
          \/ overrides'[v].status \in {"expired", "revoked"}
          \/ overrides[v].status = "active" /\ overrides'[v].status = "consumed"

\* The deadline and the terms of a row are those its handler read.
TermsRead ==
  /\ \A r \in DOMAIN requests :
       \/ requests'[r].exp = requests[r].exp /\ requests'[r].required = requests[r].required
       \/ \E t \in DOMAIN txns : requests'[r].exp = txns[t].now /\ requests'[r].required = txns[t].required

DeadlinesRead == \A v \in DOMAIN overrides :
  overrides'[v].exp = overrides[v].exp \/ \E t \in DOMAIN txns : overrides'[v].exp = txns[t].now

-----------------------------------------------------------------------------
(* The tables *)

\* A status written over the one that is there.
LEMMA RequestStatus ==
  ASSUME RequestRows, NEW x, NEW s, requests' = [requests EXCEPT ![x].status = s],
         \/ s \in {"expired", "cancelled"}
         \/ s = "consumed" /\ requests[x].status = "approved"
  PROVE  RequestRows' /\ RequestsSteady /\ TermsRead
<1>1. DOMAIN requests' = DOMAIN requests /\ requests' = [r \in DOMAIN requests' |-> requests'[r]]
  BY DEF RequestRows
<1>2. ASSUME NEW r \in DOMAIN requests, r # x PROVE requests'[r] = requests[r]
  BY <1>2 DEF RequestRows
<1>3. ASSUME NEW r \in DOMAIN requests, r = x
      PROVE  requests'[r] = [status |-> s, by |-> requests[r].by, bind |-> requests[r].bind,
                             required |-> requests[r].required, exp |-> requests[r].exp,
                             decisions |-> requests[r].decisions]
  <2>1. requests'[r] = [requests[r] EXCEPT !.status = s]
    BY <1>3 DEF RequestRows
  <2>2. requests[r] = [status |-> requests[r].status, by |-> requests[r].by, bind |-> requests[r].bind,
                       required |-> requests[r].required, exp |-> requests[r].exp,
                       decisions |-> requests[r].decisions]
    BY DEF RequestRows
  <2> QED BY <2>1, <2>2
<1>4. RequestRows'
  <2>1. ASSUME NEW r \in DOMAIN requests
        PROVE  /\ requests'[r] = [status |-> requests'[r].status, by |-> requests'[r].by,
                                  bind |-> requests'[r].bind, required |-> requests'[r].required,
                                  exp |-> requests'[r].exp, decisions |-> requests'[r].decisions]
               /\ requests'[r].decisions = [o \in Operators |-> requests'[r].decisions[o]]
               /\ requests'[r].status \in LiveStatuses =>
                    \A o \in Operators : requests'[r].decisions[o] # "reject"
    <3>1. CASE r = x
      <4>1. requests'[r].status = s /\ requests'[r].decisions = requests[r].decisions
        BY <1>3, <3>1
      <4>2. s \notin LiveStatuses
        BY DEF LiveStatuses
      <4>3. requests[r].decisions = [o \in Operators |-> requests[r].decisions[o]]
        BY DEF RequestRows
      <4>4. requests'[r] = [status |-> s, by |-> requests[r].by, bind |-> requests[r].bind,
                            required |-> requests[r].required, exp |-> requests[r].exp,
                            decisions |-> requests[r].decisions]
        BY <1>3, <3>1
      <4>5. requests'[r] = [status |-> requests'[r].status, by |-> requests'[r].by,
                            bind |-> requests'[r].bind, required |-> requests'[r].required,
                            exp |-> requests'[r].exp, decisions |-> requests'[r].decisions]
        BY <4>4
      <4> QED BY <4>1, <4>2, <4>3, <4>5
    <3>2. CASE r # x
      <4>1. requests'[r] = requests[r]
        BY <1>2, <3>2
      <4> QED BY <4>1 DEF RequestRows
    <3> QED BY <3>1, <3>2
  <2> QED BY <1>1, <2>1 DEF RequestRows
<1>5. RequestsSteady
  BY <1>1, <1>2, <1>3 DEF RequestsSteady
<1>6. TermsRead
  BY <1>2, <1>3 DEF TermsRead
<1> QED BY <1>4, <1>5, <1>6

\* A row that is still absent or undecided.
LEMMA RequestWritten ==
  ASSUME RequestRows, NEW x \in DOMAIN requests, requests[x].status \in {"absent", "pending"}, NEW row,
         requests' = [requests EXCEPT ![x] = row],
         row = [status |-> row.status, by |-> row.by, bind |-> row.bind, required |-> row.required,
                exp |-> row.exp, decisions |-> row.decisions],
         row.decisions = [o \in Operators |-> row.decisions[o]],
         row.status \in LiveStatuses => \A o \in Operators : row.decisions[o] # "reject",
         \/ row.exp = requests[x].exp /\ row.required = requests[x].required
         \/ \E t \in DOMAIN txns : row.exp = txns[t].now /\ row.required = txns[t].required
  PROVE  RequestRows' /\ RequestsSteady /\ TermsRead
<1>1. /\ DOMAIN requests' = DOMAIN requests /\ requests' = [r \in DOMAIN requests' |-> requests'[r]]
      /\ requests'[x] = row
  BY DEF RequestRows
<1>2. ASSUME NEW r \in DOMAIN requests, r # x PROVE requests'[r] = requests[r]
  BY <1>2 DEF RequestRows
<1>3. RequestRows'
  BY <1>1, <1>2 DEF RequestRows
<1>4. RequestsSteady
  BY <1>1, <1>2 DEF RequestsSteady
<1>5. TermsRead
  BY <1>1, <1>2 DEF TermsRead
<1> QED BY <1>3, <1>4, <1>5

\* Every step, over the requests.
LEMMA RequestMoves ==
  ASSUME RequestRows, [Next]_vars PROVE RequestRows' /\ RequestsSteady /\ TermsRead
<1>1. CASE UNCHANGED requests
  BY <1>1 DEF RequestRows, RequestsSteady, TermsRead
<1>2. ASSUME NEW t \in DOMAIN txns, expire_request(t) \/ write_cancelled(t)
      PROVE  RequestRows' /\ RequestsSteady /\ TermsRead
  BY <1>2, RequestStatus DEF expire_request, write_cancelled
<1>3. ASSUME NEW t \in DOMAIN txns, insert_command(t), ~UNCHANGED requests
      PROVE  RequestRows' /\ RequestsSteady /\ TermsRead
  BY <1>3, RequestStatus DEF insert_command, Spendable, Spend
<1>4. ASSUME NEW t \in DOMAIN txns, insert_approval_request(t) PROVE RequestRows' /\ RequestsSteady /\ TermsRead
  <2>1. PICK none : none = [o \in Operators |-> "none"]
    OBVIOUS
  <2>2. PICK old : old = NoRequest
    OBVIOUS
  <2>3. old = [status |-> "absent", by |-> None, bind |-> None, required |-> 0, exp |-> 0, decisions |-> none]
    BY <2>1, <2>2 DEF NoRequest
  <2>4. PICK who, bind, required, exp :
          who = txns[t].who /\ bind = txns[t].bind /\ required = txns[t].required /\ exp = txns[t].now
    OBVIOUS
  <2>5. PICK r \in DOMAIN requests :
          /\ requests[r] = old
          /\ requests' = [requests EXCEPT ![r] = [requests[r] EXCEPT
               !.status = "pending", !.by = who, !.bind = bind, !.required = required, !.exp = exp]]
    BY <1>4, <2>2, <2>4 DEF insert_approval_request
  <2>6. PICK row : row = [old EXCEPT !.status = "pending", !.by = who, !.bind = bind,
                                     !.required = required, !.exp = exp]
    OBVIOUS
  <2>7. row = [status |-> "pending", by |-> who, bind |-> bind, required |-> required, exp |-> exp,
               decisions |-> none]
    BY <2>3, <2>6
  <2>8. /\ row = [status |-> row.status, by |-> row.by, bind |-> row.bind, required |-> row.required,
                  exp |-> row.exp, decisions |-> row.decisions]
        /\ row.decisions = none /\ row.required = required /\ row.exp = exp
    BY <2>7
  <2>9. row.decisions = [o \in Operators |-> row.decisions[o]] /\ \A o \in Operators : row.decisions[o] # "reject"
    BY <2>1, <2>8
  <2>10. requests' = [requests EXCEPT ![r] = row] /\ requests[r].status = "absent"
    BY <2>3, <2>5, <2>6
  <2> QED BY <2>4, <2>8, <2>9, <2>10, RequestWritten
<1>5. ASSUME NEW o \in Operators, NEW r \in DOMAIN requests, NEW verdict \in {"approve", "reject"},
             record_decision(o, r, verdict)
      PROVE  RequestRows' /\ RequestsSteady /\ TermsRead
  <2>0. PICK old : old = requests[r]
    OBVIOUS
  <2>1. /\ old.status = "pending" /\ old.decisions = [p \in Operators |-> old.decisions[p]]
        /\ old = [status |-> old.status, by |-> old.by, bind |-> old.bind, required |-> old.required,
                  exp |-> old.exp, decisions |-> old.decisions]
        /\ \A p \in Operators : old.decisions[p] # "reject"
    BY <1>5, <2>0 DEF record_decision, MayDecide, RequestRows, LiveStatuses
  <2>2. requests' = [requests EXCEPT ![r] =
          [requests[r] EXCEPT
            !.decisions[o] = verdict,
            !.status = IF verdict = "reject" THEN "rejected"
                       ELSE IF Cardinality(approvers(r)) + 1 >= requests[r].required THEN "approved"
                       ELSE requests[r].status]]
    BY <1>5 DEF record_decision
  <2>3. PICK s : s = IF verdict = "reject" THEN "rejected"
                     ELSE IF Cardinality(approvers(r)) + 1 >= requests[r].required THEN "approved"
                     ELSE requests[r].status
    OBVIOUS
  <2>4. s \in {"rejected", "approved", "pending"} /\ (verdict = "reject" => s = "rejected")
    BY <2>0, <2>1, <2>3
  <2>5. PICK row : row = [old EXCEPT !.decisions[o] = verdict, !.status = s]
    OBVIOUS
  <2>6. requests' = [requests EXCEPT ![r] = row]
    BY <2>0, <2>2, <2>3, <2>5
  <2>7. PICK made : made = [old.decisions EXCEPT ![o] = verdict]
    OBVIOUS
  <2>8. row = [status |-> s, by |-> old.by, bind |-> old.bind, required |-> old.required,
               exp |-> old.exp, decisions |-> made]
    BY <2>1, <2>5, <2>7
  <2>9. /\ made = [p \in Operators |-> made[p]]
        /\ verdict # "reject" => \A p \in Operators : made[p] # "reject"
    BY <2>1, <2>7
  <2>10. /\ row = [status |-> row.status, by |-> row.by, bind |-> row.bind, required |-> row.required,
                   exp |-> row.exp, decisions |-> row.decisions]
         /\ row.decisions = made /\ row.status = s /\ row.exp = old.exp /\ row.required = old.required
    BY <2>8
  <2>11. row.status \in LiveStatuses => \A p \in Operators : row.decisions[p] # "reject"
    BY <2>4, <2>9, <2>10 DEF LiveStatuses
  <2>12. requests[r].status \in {"absent", "pending"}
    BY <2>0, <2>1
  <2> QED BY <2>0, <2>6, <2>9, <2>10, <2>11, <2>12, RequestWritten
<1> QED BY <1>1, <1>2, <1>3, <1>4, <1>5
        DEF Next, vars, create_approval_policy, update_approval_policy, delete_approval_policy,
            ChangeAccount, approve_request, reject_request, cancel_request, revoke_emergency_override,
            review_emergency_override, create_approval_request, activate_emergency_override,
            dispatch_command, read_due_request, read_due_override, insert_emergency_override,
            record_notice, write_revoked, write_reviewed, expire_override, Abort, CommandEnds, Tick, Load

\* A status, a notice or a review written over an override.
LEMMA OverrideWritten ==
  ASSUME OverrideRows, NEW x, NEW row, overrides' = [overrides EXCEPT ![x] = row],
         x \in DOMAIN overrides => row = [status |-> row.status, by |-> row.by, bind |-> row.bind,
                                          exp |-> row.exp, notice |-> row.notice, reviewer |-> row.reviewer],
         x \in DOMAIN overrides /\ overrides[x].status # "absent" =>
           /\ row.by = overrides[x].by /\ row.bind = overrides[x].bind /\ row.exp = overrides[x].exp
           /\ \/ row.status = overrides[x].status
              \/ row.status \in {"expired", "revoked"}
              \/ overrides[x].status = "active" /\ row.status = "consumed",
         x \in DOMAIN overrides => row.exp = overrides[x].exp \/ \E t \in DOMAIN txns : row.exp = txns[t].now
  PROVE  OverrideRows' /\ OverridesSteady /\ DeadlinesRead
<1>1. DOMAIN overrides' = DOMAIN overrides /\ overrides' = [v \in DOMAIN overrides' |-> overrides'[v]]
  BY DEF OverrideRows
<1>2. ASSUME NEW v \in DOMAIN overrides, v # x PROVE overrides'[v] = overrides[v]
  BY <1>2 DEF OverrideRows
<1>3. ASSUME NEW v \in DOMAIN overrides, v = x PROVE overrides'[v] = row
  BY <1>3 DEF OverrideRows
<1>4. OverrideRows'
  <2>1. ASSUME NEW v \in DOMAIN overrides
        PROVE  overrides'[v] = [status |-> overrides'[v].status, by |-> overrides'[v].by,
                                bind |-> overrides'[v].bind, exp |-> overrides'[v].exp,
                                notice |-> overrides'[v].notice, reviewer |-> overrides'[v].reviewer]
    <3>1. CASE v = x
      <4>1. overrides'[v] = row /\ x \in DOMAIN overrides
        BY <1>3, <3>1
      <4> QED BY <4>1
    <3>2. CASE v # x
      <4>1. overrides'[v] = overrides[v]
        BY <1>2, <3>2
      <4> QED BY <4>1 DEF OverrideRows
    <3> QED BY <3>1, <3>2
  <2> QED BY <1>1, <2>1 DEF OverrideRows
<1>5. OverridesSteady
  BY <1>1, <1>2, <1>3 DEF OverridesSteady
<1>6. DeadlinesRead
  BY <1>2, <1>3 DEF DeadlinesRead
<1> QED BY <1>4, <1>5, <1>6

\* One field of an override.
LEMMA OverrideField ==
  ASSUME OverrideRows, NEW x, NEW f,
         \/ overrides' = [overrides EXCEPT ![x].notice = f]
         \/ overrides' = [overrides EXCEPT ![x].reviewer = f]
         \/ /\ overrides' = [overrides EXCEPT ![x].status = f]
            /\ f \in {"expired", "revoked"} \/ (overrides[x].status = "active" /\ f = "consumed")
  PROVE  OverrideRows' /\ OverridesSteady /\ DeadlinesRead
<1>0. PICK old : old = overrides[x]
  OBVIOUS
<1>1. x \in DOMAIN overrides => old = [status |-> old.status, by |-> old.by, bind |-> old.bind, exp |-> old.exp,
                                       notice |-> old.notice, reviewer |-> old.reviewer]
  BY <1>0 DEF OverrideRows
<1>2. PICK row : /\ overrides' = [overrides EXCEPT ![x] = row]
                 /\ \/ row = [old EXCEPT !.notice = f] \/ row = [old EXCEPT !.reviewer = f]
                    \/ /\ row = [old EXCEPT !.status = f]
                       /\ f \in {"expired", "revoked"} \/ (old.status = "active" /\ f = "consumed")
  <2>1. CASE overrides' = [overrides EXCEPT ![x].notice = f]
    BY <1>0, <2>1
  <2>2. CASE overrides' = [overrides EXCEPT ![x].reviewer = f]
    BY <1>0, <2>2
  <2>3. CASE /\ overrides' = [overrides EXCEPT ![x].status = f]
             /\ f \in {"expired", "revoked"} \/ (overrides[x].status = "active" /\ f = "consumed")
    BY <1>0, <2>3
  <2> QED BY <2>1, <2>2, <2>3
<1>3. ASSUME x \in DOMAIN overrides
      PROVE  /\ row = [status |-> row.status, by |-> row.by, bind |-> row.bind, exp |-> row.exp,
                       notice |-> row.notice, reviewer |-> row.reviewer]
             /\ row.by = old.by /\ row.bind = old.bind /\ row.exp = old.exp
             /\ \/ row.status = old.status
                \/ row.status \in {"expired", "revoked"}
                \/ old.status = "active" /\ row.status = "consumed"
  <2>1. CASE row = [old EXCEPT !.notice = f]
    BY <1>1, <1>3, <2>1
  <2>2. CASE row = [old EXCEPT !.reviewer = f]
    BY <1>1, <1>3, <2>2
  <2>3. CASE /\ row = [old EXCEPT !.status = f]
             /\ f \in {"expired", "revoked"} \/ (old.status = "active" /\ f = "consumed")
    BY <1>1, <1>3, <2>3
  <2> QED BY <1>2, <2>1, <2>2, <2>3
<1> QED BY <1>0, <1>2, <1>3, OverrideWritten

\* Every step, over the overrides.
LEMMA OverrideMoves ==
  ASSUME OverrideRows, [Next]_vars PROVE OverrideRows' /\ OverridesSteady /\ DeadlinesRead
<1>1. CASE UNCHANGED overrides
  BY <1>1 DEF OverrideRows, OverridesSteady, DeadlinesRead
<1>2. ASSUME NEW t \in DOMAIN txns,
             expire_override(t) \/ write_revoked(t) \/ record_notice(t) \/ write_reviewed(t)
      PROVE  OverrideRows' /\ OverridesSteady /\ DeadlinesRead
  BY <1>2, OverrideField DEF expire_override, write_revoked, record_notice, write_reviewed
<1>3. ASSUME NEW t \in DOMAIN txns, insert_command(t), ~UNCHANGED overrides
      PROVE  OverrideRows' /\ OverridesSteady /\ DeadlinesRead
  BY <1>3, OverrideField DEF insert_command, Spendable, Spend
<1>4. ASSUME NEW t \in DOMAIN txns, insert_emergency_override(t) PROVE OverrideRows' /\ OverridesSteady /\ DeadlinesRead
  <2>1. PICK old : old = NoOverride
    OBVIOUS
  <2>2. old = [status |-> "absent", by |-> None, bind |-> None, exp |-> 0, notice |-> "none", reviewer |-> None]
    BY <2>1 DEF NoOverride
  <2>3. PICK who, bind, exp : who = txns[t].who /\ bind = txns[t].bind /\ exp = txns[t].now
    OBVIOUS
  <2>4. PICK v \in DOMAIN overrides :
          /\ overrides[v] = old
          /\ overrides' = [overrides EXCEPT ![v] =
               [overrides[v] EXCEPT !.status = "active", !.by = who, !.bind = bind, !.exp = exp]]
    BY <1>4, <2>1, <2>3 DEF insert_emergency_override
  <2>5. PICK row : row = [old EXCEPT !.status = "active", !.by = who, !.bind = bind, !.exp = exp]
    OBVIOUS
  <2>6. row = [status |-> "active", by |-> who, bind |-> bind, exp |-> exp, notice |-> "none", reviewer |-> None]
    BY <2>2, <2>5
  <2>7. row = [status |-> row.status, by |-> row.by, bind |-> row.bind, exp |-> row.exp,
               notice |-> row.notice, reviewer |-> row.reviewer] /\ row.exp = exp
    BY <2>6
  <2>8. overrides' = [overrides EXCEPT ![v] = row] /\ overrides[v].status = "absent"
    BY <2>2, <2>4, <2>5
  <2> QED BY <2>3, <2>7, <2>8, OverrideWritten
<1> QED BY <1>1, <1>2, <1>3, <1>4
        DEF Next, vars, create_approval_policy, update_approval_policy, delete_approval_policy,
            ChangeAccount, approve_request, reject_request, record_decision, cancel_request,
            revoke_emergency_override, review_emergency_override, create_approval_request,
            activate_emergency_override, dispatch_command, read_due_request, read_due_override,
            insert_approval_request, write_cancelled, expire_request, Abort, CommandEnds, Tick, Load

-----------------------------------------------------------------------------
(* What authorizes a command *)

\* What authorized a command goes on authorizing it.
LEMMA StaysApproved ==
  ASSUME RequestsSteady, NEW r, NEW by, NEW b, NEW at, Approved(r, by, b, at)
  PROVE  Approved(r, by, b, at)' /\ (requests[r].status # "approved" => requests'[r].status # "approved")
<1>1. /\ r \in DOMAIN requests' /\ requests'[r].by = requests[r].by /\ requests'[r].bind = requests[r].bind
      /\ requests'[r].required = requests[r].required /\ requests'[r].exp = requests[r].exp
      /\ requests'[r].decisions = requests[r].decisions
      /\ requests'[r].status \notin {"absent", "pending"}
      /\ requests[r].status # "approved" => requests'[r].status # "approved"
  BY DEF RequestsSteady, Approved
<1> QED BY <1>1 DEF Approved

\* The same for an override.
LEMMA StaysOverridden ==
  ASSUME OverridesSteady, NEW v, NEW by, NEW b, NEW at, Overridden(v, by, b, at)
  PROVE  Overridden(v, by, b, at)' /\ (overrides[v].status # "active" => overrides'[v].status # "active")
BY DEF OverridesSteady, Overridden

\* What consumption_refusal lets a dispatch spend authorizes it.
LEMMA GateApproves ==
  ASSUME RequestRows, NEW r \in DOMAIN requests, NEW o, NEW b, ApprovalSatisfied(r, o, b), clock \in Nat,
         requests[r].exp \in Nat, requests[r].required \in Nat
  PROVE  Approved(r, o, b, clock)
<1>1. /\ requests[r].bind = b /\ requests[r].by = o /\ clock < requests[r].exp
      /\ requests[r].status = "approved"
  BY DEF ApprovalSatisfied, Lapsed
<1>2. \A p \in Operators : requests[r].decisions[p] # "reject"
  BY <1>1 DEF RequestRows, LiveStatuses
<1> DEFINE S == {a \in approvers(r) : approver_eligibility(a, r)}
           T == {p \in Operators \ {requests[r].by} : requests[r].decisions[p] = "approve"}
<1>3. S \subseteq T
  BY DEF approvers, approver_eligibility
<1>4. IsFiniteSet(T) /\ T \subseteq Operators
  BY FS_Subset, ApprovalsAssumption
<1>5. /\ Cardinality(S) <= Cardinality(T) /\ IsFiniteSet(S)
  BY <1>3, <1>4, FS_Subset
<1>6. Cardinality(S) \in Nat /\ Cardinality(T) \in Nat
  BY <1>4, <1>5, FS_CardinalityType
<1>7. Cardinality(S) >= requests[r].required
  BY DEF ApprovalSatisfied
<1>8. Cardinality(T) >= requests[r].required
  BY <1>5, <1>6, <1>7
<1> QED BY <1>1, <1>2, <1>8 DEF Approved

-----------------------------------------------------------------------------
(* Policies *)

\* A set of naturals has a least element.
LEMMA Least ==
  ASSUME NEW T \in SUBSET Nat, T # {} PROVE \E x \in T : \A y \in T : x <= y
<1>1. PICK R : R = OpToRel(<, Nat) /\ IsWellFoundedOn(R, Nat)
  BY NatLessThanWellFounded
<1>2. \A x, y \in Nat : x < y => <<x, y>> \in R
  BY <1>1 DEF OpToRel
<1>3. PICK x \in T : \A y \in T : ~ (<<y, x>> \in R)
  BY <1>1, WFMin
<1>4. x \in Nat /\ \A y \in T : y \in Nat
  OBVIOUS
<1>5. \A y \in T : ~(y < x)
  BY <1>2, <1>3, <1>4
<1>6. \A y \in T : x <= y
  BY <1>4, <1>5
<1> QED BY <1>6

\* resolve_policy answers with one of the policies in force, whatever their scopes.
LEMMA PolicyFound ==
  ASSUME Numbers, NEW agent, NEW kind, resolve_policy(agent, kind) # None
  PROVE  resolve_policy(agent, kind) \in ApprovalPolicy
<1> DEFINE matched == {p \in DOMAIN policies : Governs(p, agent, kind)}
           Best(p) == \A q \in matched \ {p} :
                        \/ Specificity[policies[p].scope] > Specificity[policies[q].scope]
                        \/ Specificity[policies[p].scope] = Specificity[policies[q].scope] /\ p < q
           Level(n) == {p \in matched : Specificity[policies[p].scope] = n}
<1>1. matched # {} /\ resolve_policy(agent, kind) = policies[CHOOSE p \in matched : Best(p)]
  BY DEF resolve_policy
<1>2. ASSUME NEW p \in matched
      PROVE  p \in Nat /\ policies[p] \in ApprovalPolicy /\ Specificity[policies[p].scope] \in 0..3
  <2>1. p \in Nat /\ policies[p] \in ApprovalPolicy
    BY ApprovalsAssumption DEF Numbers, Governs
  <2>2. policies[p].scope \in {"global", "client", "site", "agent"}
    BY <2>1 DEF ApprovalPolicy
  <2> QED BY <2>1, <2>2 DEF Specificity
<1>3. PICK n \in 0..3 : Level(n) # {} /\ \A k \in 0..3 : k > n => Level(k) = {}
  <2>1. \E n \in 0..3 : Level(n) # {}
    BY <1>1, <1>2
  <2> HIDE DEF Level
  <2> QED BY <2>1
<1>4. PICK best \in Level(n) : \A q \in Level(n) : best <= q
  <2>1. Level(n) \in SUBSET Nat
    BY <1>2
  <2> HIDE DEF Level
  <2> QED BY <1>3, <2>1, Least
<1>5. Best(best)
  <2> SUFFICES ASSUME NEW q \in matched \ {best}
               PROVE  \/ Specificity[policies[best].scope] > Specificity[policies[q].scope]
                      \/ Specificity[policies[best].scope] = Specificity[policies[q].scope] /\ best < q
    OBVIOUS
  <2>1. best \in Nat /\ q \in Nat /\ Specificity[policies[q].scope] \in 0..3 /\ Specificity[policies[best].scope] = n
    BY <1>2, <1>4
  <2>2. ~(Specificity[policies[q].scope] > n)
    BY <1>3, <2>1
  <2>3. CASE Specificity[policies[q].scope] = n
    <3>1. best <= q
      BY <1>4, <2>3
    <3> QED BY <2>1, <2>3, <3>1
  <2> QED BY <2>1, <2>2, <2>3
<1>6. (CHOOSE p \in matched : Best(p)) \in matched
  <2> HIDE DEF matched, Best
  <2>1. best \in matched
    BY <1>4
  <2> QED BY <1>5, <2>1
<1> QED BY <1>1, <1>2, <1>6

-----------------------------------------------------------------------------
(* Handlers *)

\* A handler that a step has loaded, or a slot it has freed.
Loads(t, h) ==
  /\ txns' = [txns EXCEPT ![t] = h]
  /\ h.op # "dispatch" /\ h.now \in Nat /\ h.required \in Nat

\* A dispatch that has passed the gate.
Passes(t, h) ==
  /\ txns' = [txns EXCEPT ![t] = h] /\ UNCHANGED <<requests, overrides>>
  /\ h.op = "dispatch" /\ h.now \in Nat /\ h.required \in Nat
  /\ h.cites = "approval" => Approved(h.on, h.who, h.bind, h.now)
  /\ h.cites = "override" => Overridden(h.on, h.who, h.bind, h.now)

\* The free slot is a handler of nothing.
LEMMA FreeSlot ==
  ASSUME NEW t, txns' = [txns EXCEPT ![t] = Free] PROVE Loads(t, Free)
BY DEF Loads, Free

\* A dispatch reads what authorizes it.
LEMMA DispatchPasses ==
  ASSUME RequestRows, OverrideRows, Numbers, NEW o, dispatch_command(o)
  PROVE  \E t \in DOMAIN txns : \E h : Passes(t, h)
<1>0. PICK free : free = Free
  OBVIOUS
<1>1. PICK b \in Binding : \E spends \in apply_approval_policy(o, b) :
        Load([free EXCEPT !.op = "dispatch", !.who = o, !.bind = b, !.now = clock,
                          !.cites = spends.cites, !.on = spends.on])
  BY <1>0 DEF dispatch_command
<1>2. PICK spends \in apply_approval_policy(o, b) :
        Load([free EXCEPT !.op = "dispatch", !.who = o, !.bind = b, !.now = clock,
                          !.cites = spends.cites, !.on = spends.on])
  BY <1>1
<1>3. PICK cites, on, now : cites = spends.cites /\ on = spends.on /\ now = clock
  OBVIOUS
<1>4. free = [op |-> "free", who |-> None, on |-> None, bind |-> None, cites |-> None, now |-> 0, required |-> 0]
  BY <1>0 DEF Free
<1>5. PICK h : h = [free EXCEPT !.op = "dispatch", !.who = o, !.bind = b, !.now = now,
                                !.cites = cites, !.on = on]
  OBVIOUS
<1>6. h = [op |-> "dispatch", who |-> o, on |-> on, bind |-> b, cites |-> cites, now |-> now, required |-> 0]
  BY <1>4, <1>5
<1>7. /\ h.op = "dispatch" /\ h.who = o /\ h.on = on /\ h.bind = b /\ h.cites = cites /\ h.now = now
      /\ h.required = 0
  BY <1>6
<1>8. PICK t \in DOMAIN txns : txns' = [txns EXCEPT ![t] = h] /\ UNCHANGED <<requests, overrides>>
  <2>1. Load(h)
    BY <1>2, <1>3, <1>5
  <2> QED BY <2>1 DEF Load
<1>9. \/ cites = None /\ on = None
      \/ cites = "approval" /\ on \in DOMAIN requests /\ ApprovalSatisfied(on, o, b)
      \/ cites = "override" /\ on \in DOMAIN overrides /\ OverrideSatisfied(on, o, b)
  BY <1>2, <1>3 DEF apply_approval_policy
<1>10. now \in Nat /\ now = clock
  BY <1>3 DEF Numbers
<1>11. CASE cites = "approval" /\ on \in DOMAIN requests /\ ApprovalSatisfied(on, o, b)
  <2>1. Approved(on, o, b, clock)
    BY <1>11, GateApproves DEF Numbers
  <2>2. Approved(h.on, h.who, h.bind, h.now) /\ h.cites # "override" /\ h.now \in Nat /\ h.required \in Nat
    BY <1>7, <1>10, <1>11, <2>1
  <2>3. Passes(t, h)
    BY <1>7, <1>8, <2>2 DEF Passes
  <2> QED BY <2>3
<1>12. CASE cites = "override" /\ on \in DOMAIN overrides /\ OverrideSatisfied(on, o, b)
  <2>1. Overridden(on, o, b, clock)
    BY <1>12 DEF OverrideSatisfied, Overridden, Lapsed, Numbers
  <2>2. Overridden(h.on, h.who, h.bind, h.now) /\ h.cites # "approval" /\ h.now \in Nat /\ h.required \in Nat
    BY <1>7, <1>10, <1>12, <2>1
  <2>3. Passes(t, h)
    BY <1>7, <1>8, <2>2 DEF Passes
  <2> QED BY <2>3
<1>13. CASE cites = None /\ on = None
  <2>1. h.cites \notin {"approval", "override"} /\ h.now \in Nat /\ h.required \in Nat
    BY <1>7, <1>10, <1>13, ApprovalsAssumption
  <2>2. Passes(t, h)
    BY <1>7, <1>8, <2>1 DEF Passes
  <2> QED BY <2>2
<1> QED BY <1>9, <1>11, <1>12, <1>13

\* Every other step loads a handler that is no dispatch, frees a slot, or does neither.
LEMMA HandlerMoves ==
  ASSUME RequestRows, OverrideRows, Numbers, [Next]_vars
  PROVE  UNCHANGED txns \/ \E t \in DOMAIN txns : \E h : Loads(t, h) \/ Passes(t, h)
<1>0. PICK free : free = Free
  OBVIOUS
<1>1. free = [op |-> "free", who |-> None, on |-> None, bind |-> None, cites |-> None, now |-> 0, required |-> 0]
  BY <1>0 DEF Free
<1>2. ASSUME NEW op, op # "dispatch", NEW who, NEW on,
             \/ Load([free EXCEPT !.op = op, !.on = on])
             \/ Load([free EXCEPT !.op = op, !.who = who, !.on = on])
      PROVE  \E t \in DOMAIN txns : \E h : Loads(t, h)
  <2>1. PICK h : /\ h = [free EXCEPT !.op = op, !.on = on] \/ h = [free EXCEPT !.op = op, !.who = who, !.on = on]
                 /\ Load(h)
    BY <1>2
  <2>2. h.op = op /\ h.now = 0 /\ h.required = 0
    BY <1>1, <2>1
  <2>3. PICK t \in DOMAIN txns : txns' = [txns EXCEPT ![t] = h]
    BY <2>1 DEF Load
  <2>4. Loads(t, h)
    BY <1>2, <2>2, <2>3 DEF Loads
  <2> QED BY <2>4
<1>3. ASSUME NEW op, op # "dispatch", NEW who, NEW bind, NEW required \in Nat, NEW now \in Nat,
             \/ Load([free EXCEPT !.op = op, !.who = who, !.bind = bind, !.required = required, !.now = now])
             \/ Load([free EXCEPT !.op = op, !.who = who, !.bind = bind, !.now = now])
      PROVE  \E t \in DOMAIN txns : \E h : Loads(t, h)
  <2>1. PICK h : /\ \/ h = [free EXCEPT !.op = op, !.who = who, !.bind = bind, !.required = required, !.now = now]
                    \/ h = [free EXCEPT !.op = op, !.who = who, !.bind = bind, !.now = now]
                 /\ Load(h)
    BY <1>3
  <2>2. h.op = op /\ h.now = now /\ h.required \in {0, required}
    BY <1>1, <2>1
  <2>3. PICK t \in DOMAIN txns : txns' = [txns EXCEPT ![t] = h]
    BY <2>1 DEF Load
  <2>4. Loads(t, h)
    BY <1>3, <2>2, <2>3 DEF Loads
  <2> QED BY <2>4
<1>4. ASSUME NEW o, create_approval_request(o) PROVE \E t \in DOMAIN txns : \E h : Loads(t, h)
  <2>1. PICK b \in Binding : LET policy == resolve_policy(b.agent, b.kind) IN
          /\ policy # None
          /\ Load([free EXCEPT !.op = "raise", !.who = o, !.bind = b, !.required = policy.required,
                               !.now = clock + policy.ttl])
    BY <1>0, <1>4 DEF create_approval_request
  <2>2. PICK policy : policy = resolve_policy(b.agent, b.kind)
    OBVIOUS
  <2>3. policy \in ApprovalPolicy
    BY <2>1, <2>2, PolicyFound
  <2>4. policy.required \in Nat /\ clock + policy.ttl \in Nat
    BY <2>3 DEF ApprovalPolicy, Numbers
  <2>5. PICK required \in Nat, now \in Nat : required = policy.required /\ now = clock + policy.ttl
    BY <2>4
  <2>6. Load([free EXCEPT !.op = "raise", !.who = o, !.bind = b, !.required = required, !.now = now])
    BY <2>1, <2>2, <2>5
  <2> QED BY <1>3, <2>6
<1>5. ASSUME NEW o, activate_emergency_override(o) PROVE \E t \in DOMAIN txns : \E h : Loads(t, h)
  <2>1. PICK now \in Nat : now = clock + OverrideTtl
    BY ApprovalsAssumption DEF Numbers
  <2>2. PICK b \in Binding : Load([free EXCEPT !.op = "activate", !.who = o, !.bind = b, !.now = now])
    BY <1>0, <1>5, <2>1 DEF activate_emergency_override
  <2> QED BY <1>3, <2>2
<1>6. ASSUME NEW o, cancel_request(o) \/ revoke_emergency_override(o) \/ review_emergency_override(o)
      PROVE  \E t \in DOMAIN txns : \E h : Loads(t, h)
  <2>1. CASE cancel_request(o) \/ revoke_emergency_override(o)
    BY <1>0, <1>2, <2>1 DEF cancel_request, revoke_emergency_override
  <2>2. CASE review_emergency_override(o)
    BY <1>0, <1>2, <2>2 DEF review_emergency_override
  <2> QED BY <1>6, <2>1, <2>2
<1>7. ASSUME read_due_request \/ read_due_override PROVE \E t \in DOMAIN txns : \E h : Loads(t, h)
  BY <1>0, <1>2, <1>7 DEF read_due_request, read_due_override
<1>8. ASSUME NEW t \in DOMAIN txns, insert_emergency_override(t) PROVE \E h : Loads(t, h)
  <2>1. PICK v : txns' = [txns EXCEPT ![t] = [free EXCEPT !.op = "notify", !.on = v]]
    BY <1>0, <1>8 DEF insert_emergency_override
  <2>2. PICK h : h = [free EXCEPT !.op = "notify", !.on = v]
    OBVIOUS
  <2>3. h.op = "notify" /\ h.now = 0 /\ h.required = 0
    BY <1>1, <2>2
  <2>4. Loads(t, h)
    BY <2>1, <2>2, <2>3 DEF Loads
  <2> QED BY <2>4
<1>9. ASSUME NEW t \in DOMAIN txns,
             \/ insert_approval_request(t) \/ write_cancelled(t) \/ expire_request(t)
             \/ record_notice(t) \/ write_revoked(t) \/ write_reviewed(t) \/ expire_override(t)
             \/ insert_command(t) \/ Abort(t)
      PROVE  Loads(t, Free)
  <2>1. txns' = [txns EXCEPT ![t] = Free]
    BY <1>9 DEF insert_approval_request, write_cancelled, expire_request, record_notice, write_revoked,
                write_reviewed, expire_override, insert_command, Abort, Done
  <2> QED BY <2>1, FreeSlot
<1>10. ASSUME NEW o, dispatch_command(o) PROVE \E t \in DOMAIN txns : \E h : Passes(t, h)
  BY <1>10, DispatchPasses
<1>11. ASSUME \/ \E o \in Operators : \/ create_approval_policy(o) \/ update_approval_policy(o)
                                      \/ delete_approval_policy(o) \/ ChangeAccount(o)
                                      \/ approve_request(o) \/ reject_request(o)
              \/ \E c \in DOMAIN commands : CommandEnds(c)
              \/ Tick \/ UNCHANGED vars
       PROVE  UNCHANGED txns
  BY <1>11 DEF create_approval_policy, update_approval_policy, delete_approval_policy, ChangeAccount,
               approve_request, reject_request, record_decision, CommandEnds, Tick, vars
<1> QED BY <1>4, <1>5, <1>6, <1>7, <1>8, <1>9, <1>10, <1>11 DEF Next

\* What the handlers hold after a step.
LEMMA HandlersKept ==
  ASSUME RequestRows, OverrideRows, Numbers, Handling, Gated, RequestsSteady, OverridesSteady, [Next]_vars
  PROVE  /\ Handling' /\ Gated' /\ DOMAIN txns' = DOMAIN txns
         /\ \A t \in DOMAIN txns : txns'[t].now \in Nat /\ txns'[t].required \in Nat
<1>1. ASSUME NEW t, txns[t].op = "dispatch", txns[t].cites = "approval", t \in DOMAIN txns
      PROVE  Approved(txns[t].on, txns[t].who, txns[t].bind, txns[t].now)
  BY <1>1 DEF Gated
<1>2. ASSUME NEW t, txns[t].op = "dispatch", txns[t].cites = "override", t \in DOMAIN txns
      PROVE  Overridden(txns[t].on, txns[t].who, txns[t].bind, txns[t].now)
  BY <1>2 DEF Gated
<1>3. ASSUME NEW t \in DOMAIN txns, txns'[t] = txns[t], txns'[t].op = "dispatch"
      PROVE  /\ txns'[t].cites = "approval" =>
                  Approved(txns[t].on, txns[t].who, txns[t].bind, txns[t].now)'
             /\ txns'[t].cites = "override" =>
                  Overridden(txns[t].on, txns[t].who, txns[t].bind, txns[t].now)'
  <2>0. PICK on, who, bind, now : on = txns[t].on /\ who = txns[t].who /\ bind = txns[t].bind /\ now = txns[t].now
    OBVIOUS
  <2>1. ASSUME txns'[t].cites = "approval" PROVE Approved(txns[t].on, txns[t].who, txns[t].bind, txns[t].now)'
    <3>1. Approved(on, who, bind, now)
      BY <1>1, <1>3, <2>0, <2>1
    <3>2. Approved(on, who, bind, now)'
      BY <3>1, StaysApproved
    <3> QED BY <1>3, <2>0, <3>2 DEF Approved
  <2>2. ASSUME txns'[t].cites = "override" PROVE Overridden(txns[t].on, txns[t].who, txns[t].bind, txns[t].now)'
    <3>1. Overridden(on, who, bind, now)
      BY <1>2, <1>3, <2>0, <2>2
    <3>2. Overridden(on, who, bind, now)'
      BY <3>1, StaysOverridden
    <3> QED BY <1>3, <2>0, <3>2 DEF Overridden
  <2> QED BY <2>1, <2>2
<1>4. CASE UNCHANGED txns
  <2>1. Gated'
    BY <1>3, <1>4 DEF Gated
  <2> QED BY <1>4, <2>1 DEF Handling, Numbers
<1>5. ASSUME NEW x \in DOMAIN txns, NEW h, Loads(x, h) \/ Passes(x, h)
      PROVE  /\ Handling' /\ Gated' /\ DOMAIN txns' = DOMAIN txns
             /\ \A t \in DOMAIN txns : txns'[t].now \in Nat /\ txns'[t].required \in Nat
  <2>1. txns' = [txns EXCEPT ![x] = h] /\ h.now \in Nat /\ h.required \in Nat
    BY <1>5 DEF Loads, Passes
  <2>2. /\ DOMAIN txns' = DOMAIN txns /\ txns'[x] = h /\ Handling'
        /\ \A t \in DOMAIN txns : t # x => txns'[t] = txns[t]
    BY <2>1 DEF Handling
  <2>3. \A t \in DOMAIN txns : txns'[t].now \in Nat /\ txns'[t].required \in Nat
    BY <2>1, <2>2 DEF Numbers
  <2>4. ASSUME NEW t \in DOMAIN txns, txns'[t].op = "dispatch"
        PROVE  /\ txns'[t].cites = "approval" =>
                    Approved(txns[t].on, txns[t].who, txns[t].bind, txns[t].now)'
               /\ txns'[t].cites = "override" =>
                    Overridden(txns[t].on, txns[t].who, txns[t].bind, txns[t].now)'
    <3>1. CASE t # x
      <4>1. txns'[t] = txns[t]
        BY <2>2, <3>1
      <4> QED BY <1>3, <2>4, <4>1
    <3>2. CASE t = x
      <4>1. txns'[t] = h /\ Passes(x, h)
        BY <1>5, <2>2, <2>4, <3>2 DEF Loads
      <4>2. UNCHANGED <<requests, overrides>>
        BY <4>1 DEF Passes
      <4>3. /\ txns'[t].cites = "approval" => Approved(h.on, h.who, h.bind, h.now)
            /\ txns'[t].cites = "override" => Overridden(h.on, h.who, h.bind, h.now)
        BY <4>1 DEF Passes
      <4>4. txns'[t].cites = "approval" => Approved(txns[t].on, txns[t].who, txns[t].bind, txns[t].now)'
        BY <4>1, <4>2, <4>3 DEF Approved
      <4>5. txns'[t].cites = "override" => Overridden(txns[t].on, txns[t].who, txns[t].bind, txns[t].now)'
        BY <4>1, <4>2, <4>3 DEF Overridden
      <4> QED BY <4>4, <4>5
    <3> QED BY <3>1, <3>2
  <2>5. Gated'
    BY <2>2, <2>4 DEF Gated
  <2> QED BY <2>2, <2>3, <2>5
<1> QED BY <1>4, <1>5, HandlerMoves

\* Times and counts stay numbers.
LEMMA NumbersKept ==
  ASSUME RequestRows, OverrideRows, Numbers, RequestsSteady, OverridesSteady, TermsRead, DeadlinesRead,
         DOMAIN txns' = DOMAIN txns, \A t \in DOMAIN txns : txns'[t].now \in Nat /\ txns'[t].required \in Nat,
         [Next]_vars
  PROVE  Numbers'
<1>1. clock' \in Nat
  <2>1. clock' = clock \/ clock' = clock + 1
    BY DEF Next, vars, create_approval_policy, update_approval_policy, delete_approval_policy,
           ChangeAccount, approve_request, reject_request, record_decision, cancel_request,
           revoke_emergency_override, review_emergency_override, create_approval_request,
           activate_emergency_override, dispatch_command, read_due_request, read_due_override,
           insert_approval_request, write_cancelled, expire_request, insert_emergency_override,
           record_notice, write_revoked, write_reviewed, expire_override, insert_command, Abort,
           CommandEnds, Tick, Load
  <2> QED BY <2>1 DEF Numbers
<1>2. policies' \in [DOMAIN InitialPolicies -> ApprovalPolicy \cup {None}]
  <2>1. CASE UNCHANGED policies
    BY <2>1 DEF Numbers
  <2>2. ASSUME NEW p, NEW row \in ApprovalPolicy \cup {None}, policies' = [policies EXCEPT ![p] = row]
        PROVE  policies' \in [DOMAIN InitialPolicies -> ApprovalPolicy \cup {None}]
    BY <2>2 DEF Numbers
  <2>3. ASSUME NEW o, create_approval_policy(o) \/ delete_approval_policy(o)
        PROVE  policies' \in [DOMAIN InitialPolicies -> ApprovalPolicy \cup {None}]
    BY <2>2, <2>3, ApprovalsAssumption DEF create_approval_policy, delete_approval_policy
  <2>4. ASSUME NEW o, update_approval_policy(o)
        PROVE  policies' \in [DOMAIN InitialPolicies -> ApprovalPolicy \cup {None}]
    <3>1. PICK p \in DOMAIN policies, terms \in PolicyTerms :
            /\ policies[p] # None
            /\ policies' = [policies EXCEPT ![p] = [terms EXCEPT !.scope = policies[p].scope,
                                                                 !.scope_id = policies[p].scope_id]]
      BY <2>4 DEF update_approval_policy
    <3>2. PICK scope, scope_id : scope = policies[p].scope /\ scope_id = policies[p].scope_id
      OBVIOUS
    <3>3. terms \in ApprovalPolicy /\ policies[p] \in ApprovalPolicy
      BY <3>1, ApprovalsAssumption DEF Numbers
    <3>4. PICK row : row = [terms EXCEPT !.scope = scope, !.scope_id = scope_id]
      OBVIOUS
    <3>5. row \in ApprovalPolicy
      BY <3>2, <3>3, <3>4 DEF ApprovalPolicy
    <3> QED BY <2>2, <3>1, <3>2, <3>4, <3>5
  <2> QED BY <2>1, <2>3, <2>4
        DEF Next, vars, ChangeAccount, approve_request, reject_request, record_decision, cancel_request,
            revoke_emergency_override, review_emergency_override, create_approval_request,
            activate_emergency_override, dispatch_command, read_due_request, read_due_override,
            insert_approval_request, write_cancelled, expire_request, insert_emergency_override,
            record_notice, write_revoked, write_reviewed, expire_override, insert_command, Abort,
            CommandEnds, Tick, Load
<1>3. \A r \in DOMAIN requests' : requests'[r].exp \in Nat /\ requests'[r].required \in Nat
  BY DEF Numbers, TermsRead, RequestsSteady
<1>4. \A v \in DOMAIN overrides' : overrides'[v].exp \in Nat
  BY DEF Numbers, DeadlinesRead, OverridesSteady
<1> QED BY <1>1, <1>2, <1>3, <1>4 DEF Numbers

-----------------------------------------------------------------------------
(* Commands *)

\* A command whose row says what it said.
SameCommand(c) ==
  /\ c \in Created
  /\ commands'[c].by = commands[c].by /\ commands'[c].bind = commands[c].bind
  /\ commands'[c].issued = commands[c].issued
  /\ commands'[c].approval = commands[c].approval /\ commands'[c].override = commands[c].override

CitedBy(c) ==
  /\ commands[c].approval # None =>
       /\ Approved(commands[c].approval, commands[c].by, commands[c].bind, commands[c].issued)
       /\ requests[commands[c].approval].status # "approved"
  /\ commands[c].override # None =>
       /\ Overridden(commands[c].override, commands[c].by, commands[c].bind, commands[c].issued)
       /\ overrides[commands[c].override].status # "active"

\* What a command cites goes on authorizing it, and stays spent.
LEMMA StaysCited ==
  ASSUME Cited, RequestsSteady, OverridesSteady, NEW c, SameCommand(c) PROVE CitedBy(c)'
<1>0. PICK approval, override, by, bind, at :
        /\ approval = commands[c].approval /\ override = commands[c].override
        /\ by = commands[c].by /\ bind = commands[c].bind /\ at = commands[c].issued
  OBVIOUS
<1>1. ASSUME approval # None
      PROVE  Approved(approval, by, bind, at)' /\ requests'[approval].status # "approved"
  <2>1. Approved(approval, by, bind, at) /\ requests[approval].status # "approved"
    BY <1>0, <1>1 DEF Cited, SameCommand
  <2> QED BY <2>1, StaysApproved
<1>2. ASSUME override # None
      PROVE  Overridden(override, by, bind, at)' /\ overrides'[override].status # "active"
  <2>1. Overridden(override, by, bind, at) /\ overrides[override].status # "active"
    BY <1>0, <1>2 DEF Cited, SameCommand
  <2> QED BY <2>1, StaysOverridden
<1>3. /\ commands'[c].approval = approval /\ commands'[c].override = override
      /\ commands'[c].by = by /\ commands'[c].bind = bind /\ commands'[c].issued = at
  BY <1>0 DEF SameCommand
<1>4. commands'[c].approval # None =>
        /\ Approved(commands[c].approval, commands[c].by, commands[c].bind, commands[c].issued)'
        /\ requests'[commands'[c].approval].status # "approved"
  BY <1>1, <1>3 DEF Approved
<1>5. commands'[c].override # None =>
        /\ Overridden(commands[c].override, commands[c].by, commands[c].bind, commands[c].issued)'
        /\ overrides'[commands'[c].override].status # "active"
  BY <1>2, <1>3 DEF Overridden
<1> QED BY <1>4, <1>5 DEF CitedBy

\* A step after which every command says what it said.
LEMMA SameCommands ==
  ASSUME Cited, CitedOnce, RequestsSteady, OverridesSteady, \A c \in Created' : SameCommand(c)
  PROVE  Cited' /\ CitedOnce'
<1>1. \A c \in Created' : CitedBy(c)'
  BY StaysCited
<1>2. Cited'
  BY <1>1 DEF Cited, CitedBy
<1>3. CitedOnce'
  BY DEF CitedOnce, SameCommand
<1> QED BY <1>2, <1>3

\* A new command cites what its handler read, which is spent with it.
LEMMA CommandInserted ==
  ASSUME AuthInv, RequestsSteady, OverridesSteady, NEW t \in DOMAIN txns, insert_command(t)
  PROVE  CommandRows' /\ Cited' /\ CitedOnce'
<1>0. PICK who, bind, now, on, cites :
        /\ who = txns[t].who /\ bind = txns[t].bind /\ now = txns[t].now /\ on = txns[t].on
        /\ cites = txns[t].cites
  OBVIOUS
<1>1. PICK approval, override : approval = (IF cites = "approval" THEN on ELSE None)
                                /\ override = (IF cites = "override" THEN on ELSE None)
  OBVIOUS
<1>2. PICK yes : yes = TRUE
  BY Zenon
<1>3. PICK row : row = [outstanding |-> yes, by |-> who, bind |-> bind, issued |-> now,
                        approval |-> approval, override |-> override]
  OBVIOUS
<1>4. PICK x \in DOMAIN commands : commands[x] = None /\ commands' = [commands EXCEPT ![x] = row]
  <2>1. row = [outstanding |-> TRUE, by |-> txns[t].who, bind |-> txns[t].bind, issued |-> txns[t].now,
               approval |-> IF txns[t].cites = "approval" THEN txns[t].on ELSE None,
               override |-> IF txns[t].cites = "override" THEN txns[t].on ELSE None]
    BY <1>0, <1>1, <1>2, <1>3, Zenon
  <2> HIDE <1>3
  <2> QED BY <2>1 DEF insert_command
<1>5. /\ row.by = who /\ row.bind = bind /\ row.issued = now /\ row.approval = approval /\ row.override = override
      /\ row = [outstanding |-> row.outstanding, by |-> row.by, bind |-> row.bind, issued |-> row.issued,
                approval |-> row.approval, override |-> row.override]
  BY <1>3
<1>6. /\ commands'[x] = row /\ DOMAIN commands' = DOMAIN commands
      /\ commands' = [c \in DOMAIN commands' |-> commands'[c]]
      /\ \A c \in DOMAIN commands : c # x => commands'[c] = commands[c]
  BY <1>4 DEF AuthInv, CommandRows
<1>7. x \notin Created /\ Created' \subseteq Created \cup {x}
  BY <1>4, <1>6 DEF Created
<1>8. ASSUME NEW c \in Created', c # x PROVE SameCommand(c) /\ commands'[c] = commands[c] /\ c \in Created
  BY <1>6, <1>7, <1>8 DEF SameCommand, Created
<1>9. /\ cites = "approval" => /\ Approved(on, who, bind, now) /\ requests[on].status = "approved"
                               /\ requests'[on].status = "consumed"
      /\ cites = "override" => /\ Overridden(on, who, bind, now) /\ overrides[on].status = "active"
                               /\ overrides'[on].status = "consumed"
  <2>1. ASSUME cites = "approval"
        PROVE  /\ Approved(on, who, bind, now) /\ requests[on].status = "approved"
               /\ requests'[on].status = "consumed"
    <3>1. Approved(on, who, bind, now)
      BY <1>0, <2>1 DEF AuthInv, Gated, insert_command
    <3>2. requests[on].status = "approved" /\ requests' = [requests EXCEPT ![on].status = "consumed"]
      BY <1>0, <2>1 DEF insert_command, Spendable, Spend
    <3>3. /\ on \in DOMAIN requests
          /\ requests[on] = [status |-> requests[on].status, by |-> requests[on].by, bind |-> requests[on].bind,
                             required |-> requests[on].required, exp |-> requests[on].exp,
                             decisions |-> requests[on].decisions]
      BY <3>1 DEF Approved, AuthInv, RequestRows
    <3>4. requests'[on] = [requests[on] EXCEPT !.status = "consumed"]
      BY <3>2, <3>3 DEF AuthInv, RequestRows
    <3>5. requests'[on].status = "consumed"
      BY <3>3, <3>4
    <3> QED BY <3>1, <3>2, <3>5
  <2>2. ASSUME cites = "override"
        PROVE  /\ Overridden(on, who, bind, now) /\ overrides[on].status = "active"
               /\ overrides'[on].status = "consumed"
    <3>1. Overridden(on, who, bind, now)
      BY <1>0, <2>2 DEF AuthInv, Gated, insert_command
    <3>2. overrides[on].status = "active" /\ overrides' = [overrides EXCEPT ![on].status = "consumed"]
      BY <1>0, <2>2 DEF insert_command, Spendable, Spend
    <3>3. /\ on \in DOMAIN overrides
          /\ overrides[on] = [status |-> overrides[on].status, by |-> overrides[on].by,
                              bind |-> overrides[on].bind, exp |-> overrides[on].exp,
                              notice |-> overrides[on].notice, reviewer |-> overrides[on].reviewer]
      BY <3>1 DEF Overridden, AuthInv, OverrideRows
    <3>4. overrides'[on] = [overrides[on] EXCEPT !.status = "consumed"]
      BY <3>2, <3>3 DEF AuthInv, OverrideRows
    <3>5. overrides'[on].status = "consumed"
      BY <3>3, <3>4
    <3> QED BY <3>1, <3>2, <3>5
  <2> QED BY <2>1, <2>2
<1>10. CitedBy(x)'
  <2>1. approval # None => cites = "approval" /\ on = approval
    BY <1>1
  <2>2. override # None => cites = "override" /\ on = override
    BY <1>1
  <2>3. approval # None => Approved(approval, who, bind, now)' /\ requests'[approval].status # "approved"
    BY <1>9, <2>1, StaysApproved
  <2>4. override # None => Overridden(override, who, bind, now)' /\ overrides'[override].status # "active"
    BY <1>9, <2>2, StaysOverridden
  <2>5. commands'[x].approval # None =>
          /\ Approved(commands[x].approval, commands[x].by, commands[x].bind, commands[x].issued)'
          /\ requests'[commands'[x].approval].status # "approved"
    BY <1>5, <1>6, <2>3 DEF Approved
  <2>6. commands'[x].override # None =>
          /\ Overridden(commands[x].override, commands[x].by, commands[x].bind, commands[x].issued)'
          /\ overrides'[commands'[x].override].status # "active"
    BY <1>5, <1>6, <2>4 DEF Overridden
  <2> QED BY <2>5, <2>6 DEF CitedBy
<1>11. Cited'
  <2>1. \A c \in Created' : CitedBy(c)'
    BY <1>8, <1>10, StaysCited DEF AuthInv
  <2> QED BY <2>1 DEF Cited, CitedBy
<1>12. CitedOnce'
  <2>1. \A c \in Created : /\ approval # None => commands[c].approval # approval
                           /\ override # None => commands[c].override # override
    BY <1>1, <1>9 DEF AuthInv, Cited
  <2>2. ASSUME NEW c \in Created', NEW d \in Created' \ {c}
        PROVE  /\ commands'[c].approval # None => commands'[c].approval # commands'[d].approval
               /\ commands'[c].override # None => commands'[c].override # commands'[d].override
    <3>1. CASE c # x /\ d # x
      BY <1>8, <2>2, <3>1 DEF AuthInv, CitedOnce
    <3>2. CASE c = x
      <4>1. d \in Created /\ commands'[d] = commands[d] /\ commands'[c] = row
        BY <1>6, <1>8, <3>2
      <4> QED BY <1>5, <2>1, <4>1
    <3>3. CASE d = x
      <4>1. c \in Created /\ commands'[c] = commands[c] /\ commands'[d] = row
        BY <1>6, <1>8, <3>3
      <4> QED BY <1>5, <2>1, <4>1
    <3> QED BY <3>1, <3>2, <3>3
  <2> QED BY <2>2 DEF CitedOnce
<1>13. CommandRows'
  <2>1. ASSUME NEW c \in Created'
        PROVE  commands'[c] = [outstanding |-> commands'[c].outstanding, by |-> commands'[c].by,
                               bind |-> commands'[c].bind, issued |-> commands'[c].issued,
                               approval |-> commands'[c].approval, override |-> commands'[c].override]
    <3>1. CASE c = x
      BY <1>5, <1>6, <3>1
    <3>2. CASE c # x
      <4>1. commands'[c] = commands[c] /\ c \in Created
        BY <1>8, <3>2
      <4> QED BY <4>1 DEF AuthInv, CommandRows
    <3> QED BY <3>1, <3>2
  <2> QED BY <1>6, <2>1 DEF CommandRows
<1> QED BY <1>11, <1>12, <1>13

\* A command that ends says what it said.
LEMMA CommandEnded ==
  ASSUME AuthInv, RequestsSteady, OverridesSteady, NEW x \in DOMAIN commands, CommandEnds(x)
  PROVE  CommandRows' /\ Cited' /\ CitedOnce'
<1>0. PICK no : no = FALSE
  BY Zenon
<1>1. x \in Created /\ commands' = [commands EXCEPT ![x].outstanding = no]
  BY <1>0, Zenon DEF CommandEnds, Created
<1>2. PICK old : old = commands[x]
  OBVIOUS
<1>3. old = [outstanding |-> old.outstanding, by |-> old.by, bind |-> old.bind, issued |-> old.issued,
             approval |-> old.approval, override |-> old.override]
  BY <1>1, <1>2 DEF AuthInv, CommandRows
<1>4. /\ commands'[x] = [old EXCEPT !.outstanding = no] /\ DOMAIN commands' = DOMAIN commands
      /\ commands' = [c \in DOMAIN commands' |-> commands'[c]]
      /\ \A c \in DOMAIN commands : c # x => commands'[c] = commands[c]
  BY <1>1, <1>2 DEF AuthInv, CommandRows
<1>5. commands'[x] = [outstanding |-> no, by |-> old.by, bind |-> old.bind, issued |-> old.issued,
                      approval |-> old.approval, override |-> old.override]
  BY <1>3, <1>4
<1>6. /\ commands'[x].by = old.by /\ commands'[x].bind = old.bind /\ commands'[x].issued = old.issued
      /\ commands'[x].approval = old.approval /\ commands'[x].override = old.override
      /\ commands'[x] = [outstanding |-> commands'[x].outstanding, by |-> commands'[x].by,
                         bind |-> commands'[x].bind, issued |-> commands'[x].issued,
                         approval |-> commands'[x].approval, override |-> commands'[x].override]
  BY <1>5
<1>7. Created' \subseteq Created
  BY <1>1, <1>4 DEF Created
<1>8. ASSUME NEW c \in Created'
      PROVE  /\ SameCommand(c)
             /\ commands'[c] = [outstanding |-> commands'[c].outstanding, by |-> commands'[c].by,
                                bind |-> commands'[c].bind, issued |-> commands'[c].issued,
                                approval |-> commands'[c].approval, override |-> commands'[c].override]
  <2>1. CASE c = x
    BY <1>1, <1>2, <1>6, <2>1 DEF SameCommand
  <2>2. CASE c # x
    <3>1. commands'[c] = commands[c] /\ c \in Created
      BY <1>4, <1>7, <2>2 DEF Created
    <3> QED BY <3>1 DEF SameCommand, AuthInv, CommandRows
  <2> QED BY <2>1, <2>2
<1>9. CommandRows'
  BY <1>4, <1>8 DEF CommandRows
<1> QED BY <1>8, <1>9, SameCommands DEF AuthInv

\* The invariant holds at the start.
LEMMA AuthInit == Init => AuthInv
<1> SUFFICES ASSUME Init PROVE AuthInv
  OBVIOUS
<1>1. PICK bound \in Bounds : /\ requests = [r \in 1..bound.requests |-> NoRequest]
                              /\ overrides = [v \in 1..bound.overrides |-> NoOverride]
                              /\ commands = [c \in 1..bound.commands |-> None]
  BY DEF Init
<1>2. RequestRows /\ \A r \in DOMAIN requests : requests[r].exp \in Nat /\ requests[r].required \in Nat
  <2>1. PICK none : none = [o \in Operators |-> "none"]
    OBVIOUS
  <2>2. PICK row : row = NoRequest
    OBVIOUS
  <2>3. row = [status |-> "absent", by |-> None, bind |-> None, required |-> 0, exp |-> 0, decisions |-> none]
    BY <2>1, <2>2 DEF NoRequest
  <2>4. requests = [r \in 1..bound.requests |-> row]
    BY <1>1, <2>2
  <2> HIDE <1>1
  <2>5. row = [status |-> row.status, by |-> row.by, bind |-> row.bind, required |-> row.required,
               exp |-> row.exp, decisions |-> row.decisions]
        /\ row.status = "absent" /\ row.decisions = none /\ row.exp = 0 /\ row.required = 0
    BY <2>3
  <2>6. \A r \in DOMAIN requests : requests[r] = row
    BY <2>4
  <2>7. requests = [r \in DOMAIN requests |-> requests[r]]
    BY <2>4
  <2>8. row.decisions = [o \in Operators |-> row.decisions[o]]
    BY <2>1, <2>5
  <2>9. RequestRows
    BY <2>5, <2>6, <2>7, <2>8 DEF RequestRows, LiveStatuses
  <2> QED BY <2>5, <2>6, <2>9
<1>3. OverrideRows /\ \A v \in DOMAIN overrides : overrides[v].exp \in Nat
  <2>1. PICK row : row = NoOverride
    OBVIOUS
  <2>2. row = [status |-> "absent", by |-> None, bind |-> None, exp |-> 0, notice |-> "none", reviewer |-> None]
    BY <2>1 DEF NoOverride
  <2>3. overrides = [v \in 1..bound.overrides |-> row]
    BY <1>1, <2>1
  <2>4. row = [status |-> row.status, by |-> row.by, bind |-> row.bind, exp |-> row.exp,
               notice |-> row.notice, reviewer |-> row.reviewer] /\ row.exp = 0
    BY <2>2
  <2> QED BY <2>3, <2>4 DEF OverrideRows
<1>4. Created = {} /\ commands = [c \in DOMAIN commands |-> commands[c]]
  BY <1>1 DEF Created
<1>5. /\ Handling
      /\ \A t \in DOMAIN txns : txns[t].op = "free" /\ txns[t].now = 0 /\ txns[t].required = 0
  BY DEF Init, Free, Handling
<1>6. clock \in Nat /\ policies \in [DOMAIN InitialPolicies -> ApprovalPolicy \cup {None}]
  BY ApprovalsAssumption DEF Init
<1>7. Numbers
  BY <1>2, <1>3, <1>5, <1>6 DEF Numbers
<1> QED BY <1>2, <1>3, <1>4, <1>5, <1>7 DEF AuthInv, CommandRows, Gated, Cited, CitedOnce

\* Every step keeps it.
LEMMA AuthStep == AuthInv /\ [Next]_vars => AuthInv'
<1> SUFFICES ASSUME AuthInv, [Next]_vars PROVE AuthInv'
  OBVIOUS
<1>1. RequestRows' /\ RequestsSteady /\ TermsRead
  BY RequestMoves DEF AuthInv
<1>2. OverrideRows' /\ OverridesSteady /\ DeadlinesRead
  BY OverrideMoves DEF AuthInv
<1>3. /\ Handling' /\ Gated' /\ DOMAIN txns' = DOMAIN txns
      /\ \A t \in DOMAIN txns : txns'[t].now \in Nat /\ txns'[t].required \in Nat
  BY <1>1, <1>2, HandlersKept DEF AuthInv
<1>4. Numbers'
  BY <1>1, <1>2, <1>3, NumbersKept DEF AuthInv
<1>5. CommandRows' /\ Cited' /\ CitedOnce'
  <2>1. CASE \E t \in DOMAIN txns : insert_command(t)
    BY <1>1, <1>2, <2>1, CommandInserted
  <2>2. CASE \E c \in DOMAIN commands : CommandEnds(c)
    BY <1>1, <1>2, <2>2, CommandEnded
  <2>3. CASE UNCHANGED commands
    <3>1. CommandRows' /\ Created' = Created
      BY <2>3 DEF AuthInv, CommandRows, Created
    <3>2. \A c \in Created' : SameCommand(c)
      BY <2>3, <3>1 DEF SameCommand
    <3> QED BY <1>1, <1>2, <3>1, <3>2, SameCommands DEF AuthInv
  <2> QED BY <2>1, <2>2, <2>3
        DEF Next, vars, create_approval_policy, update_approval_policy, delete_approval_policy,
            ChangeAccount, approve_request, reject_request, record_decision, cancel_request,
            revoke_emergency_override, review_emergency_override, create_approval_request,
            activate_emergency_override, dispatch_command, read_due_request, read_due_override,
            insert_approval_request, write_cancelled, expire_request, insert_emergency_override,
            record_notice, write_revoked, write_reviewed, expire_override, Abort, Tick, Load
<1> QED BY <1>1, <1>2, <1>3, <1>4, <1>5 DEF AuthInv

-----------------------------------------------------------------------------
(* Theorems *)

(* For every number of operators, agents, policies and concurrent handlers, a command
   that cites an approval or an override is the command that was reviewed, ordered by
   the person who asked and before the deadline, with the required approvals of other
   people and no rejection, and no other command cites the same (consumption_refusal,
   _spend_approval, _spend_emergency_override). *)
THEOREM CommandsAuthorized == Spec => []AuthorizedCommand
<1>1. AuthInv => AuthorizedCommand
  BY DEF AuthInv, Cited, CitedOnce, Approved, Overridden, AuthorizedCommand
<1> QED BY <1>1, AuthInit, AuthStep, PTL DEF Spec

(* For every instance, an approval or an override that has ended is never live again
   and never spent, whatever handlers were still holding what they read of it
   (expire_if_due, cancel_request, revoke_emergency_override). *)
THEOREM EndedForGood == Spec => NeverRevived
<1>1. AuthInv /\ [Next]_vars =>
        [/\ \A r \in DOMAIN requests :
              requests[r].status \notin LiveStatuses \cup {"absent"} =>
                requests'[r].status \notin (LiveStatuses \cup {"absent", "consumed"}) \ {requests[r].status}
         /\ \A v \in DOMAIN overrides :
              overrides[v].status \notin {"active", "absent"} =>
                overrides'[v].status \notin {"active", "absent", "consumed"} \ {overrides[v].status}]_vars
  <2> SUFFICES ASSUME AuthInv, [Next]_vars
               PROVE  /\ \A r \in DOMAIN requests :
                           requests[r].status \notin LiveStatuses \cup {"absent"} =>
                             requests'[r].status \notin (LiveStatuses \cup {"absent", "consumed"}) \ {requests[r].status}
                      /\ \A v \in DOMAIN overrides :
                           overrides[v].status \notin {"active", "absent"} =>
                             overrides'[v].status \notin {"active", "absent", "consumed"} \ {overrides[v].status}
    OBVIOUS
  <2>1. RequestsSteady
    BY RequestMoves DEF AuthInv
  <2>2. OverridesSteady
    BY OverrideMoves DEF AuthInv
  <2> QED BY <2>1, <2>2 DEF RequestsSteady, OverridesSteady, LiveStatuses
<1> QED BY <1>1, AuthInit, AuthStep, PTL DEF Spec, NeverRevived
=============================================================================
