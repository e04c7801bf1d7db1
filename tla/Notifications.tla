---------------------------- MODULE Notifications ----------------------------
(***************************************************************************)
(* Delivery of alert events by mail and by webhook:                        *)
(* server/app/core/email_notifications.py, webhook_notifications.py, the   *)
(* senders of core/tasks.py and the endpoint and retry handlers of         *)
(* api/management.py.                                                      *)
(*                                                                         *)
(* A delivery is a row.  A sender claims the rows that are due in one      *)
(* transaction, sends them one after the other outside of any, and stores  *)
(* each outcome in a transaction of its own; a claim older than the lease  *)
(* is taken back.  Times are what is left of them: a delivery is due when  *)
(* its `next` is 0 and its claim has lapsed when its `lease` is 0.         *)
(***************************************************************************)
EXTENDS Instances, Sequences, FiniteSets, TLC

CONSTANTS
  Recipients,        \* settings.email_alert_recipients
  Endpoints, EndpointTerms,
  MaxAttempts, ManualLimit, BackoffBase, BackoffMax, Lease, Batch, MaxEndpoints,
  RetryRequests, Workers,
  (* bounds of the model *)
  NumDeliveries, MaxVersion

ASSUME NotificationsAssumption ==
  /\ IsFiniteSet(Recipients) /\ IsFiniteSet(Endpoints) /\ IsFiniteSet(Workers)
  /\ None \notin {"ok", "unclear", "unreachable", "refused"}

\* The events that notify: _TRANSITION_LABELS and SUPPORTED_EVENT_TYPES.
Transitions == {"opened", "reopened", "acknowledged", "manual_resolution",
                "automatic_recovery", "policy_revised", "policy_deleted", "policy_superseded"}

WebhookEndpoint == [present : BOOLEAN, enabled : BOOLEAN, deleted : BOOLEAN,
                    events : SUBSET Transitions, url : {t.url : t \in EndpointTerms} \cup {None},
                    secret : Nat, version : Nat]
NoEndpoint == [present |-> FALSE, enabled |-> FALSE, deleted |-> FALSE,
               events |-> {}, url |-> None, secret |-> 0, version |-> 0]

Delivery ==
  [kind : {"email", "webhook"}, to : Recipients \cup Endpoints, secret : Nat, type : Transitions,
   url : {t.url : t \in EndpointTerms} \cup {None},
   status : {"pending", "sending", "retrying", "sent", "failed", "suppressed"},
   attempts : Nat, max : Nat,        \* attempt_count, max_attempts
   next : Nat, lease : Nat, retry : RetryRequests \cup {None},
   received : Nat, unknown : Nat]    \* history: receptions, attempts whose end nobody saw

Idle == [kind |-> None, queue |-> << >>, reply |-> None]

VARIABLES
  endpoints, deliveries,
  senders,    \* what each sender has claimed, its answer for the first of them
  mail        \* settings.email_alert_provider is resend

notificationVars == <<endpoints, deliveries, senders, mail>>

NotificationsInit ==
  /\ endpoints = [e \in Endpoints |-> NoEndpoint]
  /\ deliveries = << >>
  /\ senders = [w \in Workers |-> Idle]

----------------------------------------------------------------------------
(* What an alert event enqueues, in the transaction of the event. *)

NewDelivery(kind, to, url, secret, type, suppressed) ==
  [kind |-> kind, to |-> to, url |-> url, secret |-> secret, type |-> type,
   status |-> IF suppressed THEN "suppressed" ELSE "pending",
   attempts |-> 0, max |-> MaxAttempts, next |-> 0, lease |-> 0, retry |-> None,
   received |-> 0, unknown |-> 0]

Suppressed(type, inWindow) == type \in {"opened", "reopened"} /\ inWindow

email_enqueue_alert_event(type, inWindow) ==
  IF ~mail \/ type \notin Transitions THEN {}
  ELSE {NewDelivery("email", r, None, 0, type, Suppressed(type, inWindow)) : r \in Recipients}

webhook_enqueue_alert_event(type, inWindow) ==
  {NewDelivery("webhook", e, endpoints[e].url, endpoints[e].secret, type,
               Suppressed(type, inWindow)) :
     e \in {x \in Endpoints : endpoints[x].present /\ endpoints[x].enabled
                              /\ ~endpoints[x].deleted /\ type \in endpoints[x].events}}

\* A set of rows in the order of some sequence of them.
InSomeOrder(S) == CHOOSE s \in [1..Cardinality(S) -> S] : {s[i] : i \in DOMAIN s} = S

\* The deliveries after the events [type, inWindow] of one transaction.
Enqueued(events) ==
  deliveries \o InSomeOrder(UNION {email_enqueue_alert_event(ev.type, ev.inWindow)
                                   \cup webhook_enqueue_alert_event(ev.type, ev.inWindow)
                                   : ev \in events})

----------------------------------------------------------------------------
(* Senders. *)

Min2(a, b) == IF a < b THEN a ELSE b

_retry_delay(n) == Min2(BackoffMax, BackoffBase * 2^(IF n > 1 THEN n - 1 ELSE 0))

Claimable(d, kind) == /\ d.kind = kind /\ d.status \in {"pending", "retrying"} /\ d.next = 0

\* A mutant: nobody takes back the claim of a sender that stopped.
MutLapsed(d, kind) == FALSE

Lapsed(d, kind) == d.kind = kind /\ d.status = "sending" /\ d.lease = 0

\* The oldest n of a set of rows.
First(S, n) == {i \in S : Cardinality({j \in S : j < i}) < n}

\* The one sequence that lists a set of numbers in their order.
Ascending(S) == {s \in [1..Cardinality(S) -> S] : \A i, j \in DOMAIN s : i < j => s[i] < s[j]}

Retried(d) == IF d.attempts < d.max THEN "retrying" ELSE "failed"

\* _recover_expired_claims of one row: a sender that took too long has lost it.
Recovered(d) ==
  [d EXCEPT !.status = Retried(d), !.next = 0, !.unknown = @ + 1]

_recover_expired_claims(kind) ==
  LET rows == First({i \in DOMAIN deliveries : Lapsed(deliveries[i], kind)}, Batch)
  IN  [i \in DOMAIN deliveries |-> IF i \in rows THEN Recovered(deliveries[i]) ELSE deliveries[i]]

\* A mutant: a claimed row keeps the status that makes it claimable.
MutClaimed(d) == [d EXCEPT !.attempts = @ + 1, !.lease = Lease]

Claimed(d) == [d EXCEPT !.status = "sending", !.attempts = @ + 1, !.lease = Lease]

\* One transaction: take back lapsed claims, then claim what is due.
claim_due(w, kind) ==
  LET rows == _recover_expired_claims(kind)
      due  == First({i \in DOMAIN rows : Claimable(rows[i], kind)}, Batch)
  IN  /\ senders[w] = Idle
      /\ due # {} \/ rows # deliveries
      /\ kind = "email" => mail                    \* build_provider
      /\ deliveries' = [i \in DOMAIN rows |-> IF i \in due THEN Claimed(rows[i]) ELSE rows[i]]
      /\ \E queue \in Ascending(due) :
           senders' = IF due = {} THEN senders
                      ELSE [senders EXCEPT ![w] = [kind |-> kind, queue |-> queue, reply |-> None]]
      /\ UNCHANGED <<endpoints, mail>>

\* The answers of a receiver.  "unclear": it has the message, the sender cannot know.
Replies == {"ok", "unclear", "unreachable", "refused"}

\* An address is [https, literal, answers]: its scheme, whether the host is an
\* address itself, and what resolving it may bring: "global", "private", "none".
normalize_destination(url) ==
  CASE ~url.https -> "unsupported"
    [] url.https /\ url.literal /\ "global" \notin url.answers -> "invalid"
    [] OTHER -> "valid"

\* The name is resolved each time: the verdict of today is not that of tomorrow.
validate_destination(url) ==
  IF normalize_destination(url) # "valid" \/ url.literal THEN {normalize_destination(url)}
  ELSE {CASE a = "global" -> "valid" [] a = "private" -> "invalid" [] a = "none" -> "unavailable"
          : a \in url.answers}

\* _load_secret and PinnedHTTPSWebhookSender.send: the endpoint is read again
\* and its address resolved again before the connection is made.
WebhookReplies(e, url) ==
  IF ~endpoints[e].enabled \/ endpoints[e].deleted THEN {"refused"}
  ELSE UNION {CASE v = "valid" -> Replies [] v = "unavailable" -> {"unreachable"}
                [] OTHER -> {"refused"} : v \in validate_destination(url)}

send(w) ==
  LET i == Head(senders[w].queue)
      d == deliveries[i]
  IN  /\ senders[w].queue # << >> /\ senders[w].reply = None
      /\ \E reply \in IF d.kind = "email" THEN Replies ELSE WebhookReplies(d.to, d.url) :
           /\ senders' = [senders EXCEPT ![w].reply = reply]
           /\ deliveries' = IF reply \in {"ok", "unclear"}
                            THEN [deliveries EXCEPT ![i].received = @ + 1,
                                    ![i].unknown = IF reply = "unclear" THEN @ + 1 ELSE @]
                            ELSE deliveries
      /\ UNCHANGED <<endpoints, mail>>

\* The row is found by its identifier; whether the claim is still this
\* sender's is not asked.
AttemptEnd(d, reply) ==
  LET status == CASE reply = "ok" -> "sent"
                  [] reply = "refused" -> "failed"
                  [] OTHER -> Retried(d)
  IN  [d EXCEPT !.status = status, !.lease = 0,
                !.next = IF status = "retrying" THEN _retry_delay(d.attempts) ELSE @]

_complete_attempt(w) ==
  LET claim == senders[w]
  IN  /\ claim.queue # << >> /\ claim.reply # None
      /\ deliveries' = [deliveries EXCEPT ![Head(claim.queue)] = AttemptEnd(@, claim.reply)]
      /\ senders' = [senders EXCEPT ![w] =
                       IF Len(claim.queue) = 1 THEN Idle
                       ELSE [claim EXCEPT !.queue = Tail(claim.queue), !.reply = None]]
      /\ UNCHANGED <<endpoints, mail>>

\* A sender stops with what it has claimed: the process ends, or the store fails.
sender_stops(w) ==
  /\ senders[w] # Idle
  /\ senders' = [senders EXCEPT ![w] = Idle]
  /\ UNCHANGED <<endpoints, deliveries, mail>>

----------------------------------------------------------------------------
(* Administrators. *)

RetryFailed(i, kind, r) ==
  LET d == deliveries[i]
  IN  /\ d.kind = kind /\ d.retry # r /\ d.status = "failed" /\ d.attempts < ManualLimit
      /\ deliveries' = [deliveries EXCEPT ![i] =
                          [d EXCEPT !.status = "retrying", !.next = 0, !.lease = 0, !.retry = r,
                                    !.max = IF @ > d.attempts THEN @ ELSE d.attempts + 1]]
      /\ UNCHANGED <<endpoints, senders, mail>>

retry_monitoring_alert_email_delivery(i, r)   == RetryFailed(i, "email", r)
retry_monitoring_alert_webhook_delivery(i, r) == RetryFailed(i, "webhook", r)

\* The count of endpoints and the insertion are two statements.
create_webhook_endpoint(e, term) ==
  /\ ~endpoints[e].present /\ "valid" \in validate_destination(term.url)
  /\ Cardinality({x \in Endpoints : endpoints[x].present /\ ~endpoints[x].deleted}) < MaxEndpoints
  /\ endpoints' = [endpoints EXCEPT ![e] =
       [present |-> TRUE, enabled |-> term.enabled, deleted |-> FALSE,
        events |-> term.events, url |-> term.url, secret |-> 1, version |-> 1]]
  /\ UNCHANGED <<deliveries, senders, mail>>

\* Each reads the row with a lock and compares its version with the caller's.
Editable(e) == endpoints[e].present /\ ~endpoints[e].deleted /\ endpoints[e].version < MaxVersion

update_webhook_endpoint(e, term) ==
  /\ Editable(e) /\ "valid" \in validate_destination(term.url)
  /\ endpoints' = [endpoints EXCEPT ![e] = [@ EXCEPT !.enabled = term.enabled, !.url = term.url,
                                              !.events = term.events, !.version = @ + 1]]
  /\ UNCHANGED <<deliveries, senders, mail>>

rotate_webhook_endpoint_secret(e) ==
  /\ Editable(e)
  /\ endpoints' = [endpoints EXCEPT ![e] = [@ EXCEPT !.secret = @ + 1, !.version = @ + 1]]
  /\ UNCHANGED <<deliveries, senders, mail>>

delete_webhook_endpoint(e) ==
  /\ Editable(e)
  /\ endpoints' = [endpoints EXCEPT ![e] = [@ EXCEPT !.enabled = FALSE, !.deleted = TRUE,
                                              !.version = @ + 1]]
  /\ UNCHANGED <<deliveries, senders, mail>>

\* Time passes for every delivery.
Elapsed(d) == [d EXCEPT !.next  = IF @ > 0 THEN @ - 1 ELSE 0,
                        !.lease = IF @ > 0 THEN @ - 1 ELSE 0]

time_passes ==
  /\ \E i \in DOMAIN deliveries : Elapsed(deliveries[i]) # deliveries[i]
  /\ deliveries' = [i \in DOMAIN deliveries |-> Elapsed(deliveries[i])]
  /\ UNCHANGED <<endpoints, senders, mail>>

----------------------------------------------------------------------------
(* Properties. *)

(* A receiver gets a notification more than once only when the sender of an
   earlier attempt could not know its end: its claim had lapsed, or the answer
   was lost.  Two senders, a lapsed claim completed late and a manual retry
   never add a reception of their own. *)
RepeatsExplained ==
  \A i \in DOMAIN deliveries :
    deliveries[i].received <= 1 + deliveries[i].unknown

Resolved(i) == deliveries[i].status \in {"sent", "failed", "suppressed"}

(* Every notification of an alert comes to an end, through retries, lapsed
   claims and senders that stop. *)
EveryNotificationEnds ==
  \A i \in 1..NumDeliveries : (i \in DOMAIN deliveries) ~> (i \in DOMAIN deliveries /\ Resolved(i))
=============================================================================
